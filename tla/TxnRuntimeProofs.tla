-------------------------- MODULE TxnRuntimeProofs --------------------------
(***************************************************************************)
(* Proofs about TxnRuntime and the review of its sealed trace, for every   *)
(* set of keys and states, work table, budget, mode and number of rounds.  *)
(***************************************************************************)
EXTENDS ReviewedRun, NaturalLemmas

(* What a batch costs is a natural number no larger than what any batch    *)
(* around it costs.                                                        *)
LEMMA WorkMonotone ==
  ASSUME NEW S \in SUBSET Keys, NEW T \in SUBSET S
  PROVE  Work[S] \in Nat /\ Work[T] \in Nat /\ Work[T] <= Work[S]
<1>1. S = T \cup (S \ T) /\ T \cap (S \ T) = {}
  OBVIOUS
<1>2. T \in SUBSET Keys /\ S \ T \in SUBSET Keys
  OBVIOUS
<1>3. Work[T] \in Nat /\ Work[S \ T] \in Nat /\ Work[S] \in Nat
  BY <1>2, WorkAssumption
<1>4. Work[T \cup (S \ T)] = Work[T] + Work[S \ T]
  BY <1>1, <1>2, WorkAssumption
<1> QED
  BY <1>1, <1>3, <1>4

(* The keys a round has to evaluate are keys, and cost a natural number.   *)
LEMMA MissingType ==
  ASSUME admitted \in SUBSET Keys
  PROVE  Missing \in SUBSET Keys /\ Work[Missing] \in Nat
<1>1. Missing \in SUBSET Keys
  BY DEF Missing
<1> QED
  BY <1>1, WorkMonotone

-----------------------------------------------------------------------------
(* Type correctness and the work ledger.  Neither is inductive alone: that *)
(* reserved stays a natural number is only known because the reservation   *)
(* covers exactly the missing keys until their evaluation ends.            *)

LedgerInv ==
  /\ Limited => started + reserved <= Limit
  /\ reserved = IF pc \in {"start", "evaluate"} THEN Work[Missing] ELSE 0

LEMMA LedgerInit == Init => TypeOK /\ LedgerInv
<1> SUFFICES ASSUME Init PROVE TypeOK /\ LedgerInv
  OBVIOUS
<1> USE ConfigAssumption DEF Init
<1>1. TypeOK
  <2>1. hits \in [Keys -> States \cup {NoState}] /\ staged = hits /\ values = hits
    BY DEF NoValues
  <2>2. exit \in [kind : {"none", "result", "raise"}, reason : Reasons,
                 guarded : BOOLEAN]
    BY DEF NoExit, Reasons
  <2>3. attempt \in [published : BOOLEAN, valid : BOOLEAN]
    BY DEF NoAttempt
  <2>4. mark \in [remaining : Int, started : Nat]
    OBVIOUS
  <2>5. state \in States /\ next \in States
    OBVIOUS
  <2> QED
    BY <2>1, <2>2, <2>3, <2>4, <2>5 DEF TypeOK
<1>2. LedgerInv
  BY ConfigAssumption DEF Init, LedgerInv, Limited
<1> QED
  BY <1>1, <1>2

(* What ending a round does to the variables every ending writes.          *)
ExitType ==
  /\ pc \in {"seal", "done"}
  /\ phase \in Terminal
  /\ exit \in [kind : {"none", "result", "raise"}, reason : Reasons,
               guarded : BOOLEAN]
  /\ sealed \in Nat

(* The variables an ending leaves alone.                                   *)
FrameType ==
  /\ round \in Nat /\ state \in States /\ next \in States
  /\ admitted \in SUBSET Keys
  /\ hits \in [Keys -> States \cup {NoState}]
  /\ staged \in [Keys -> States \cup {NoState}]
  /\ values \in [Keys -> States \cup {NoState}]
  /\ generation \in Nat /\ ext \in Nat
  /\ mark \in [remaining : Int, started : Nat]
  /\ expired \in BOOLEAN

LEMMA FrameTypeKept ==
  ASSUME TypeOK, UNCHANGED <<loopVars, storeVars, mark, expired>>
  PROVE  FrameType'
BY DEF TypeOK, FrameType, loopVars, storeVars

LEMMA EndRoundType ==
  ASSUME TypeOK, NEW p \in {"ABORTED", "INTERRUPTED"}, NEW reason \in Reasons,
         NEW g \in BOOLEAN, EndRound(p, reason, g)
  PROVE  ExitType'
BY DEF TypeOK, EndRound, Transition, Leave, ExitType, Terminal

LEMMA AbortRoundType ==
  ASSUME TypeOK, NEW g \in BOOLEAN, AbortRound(g)
  PROVE  ExitType'
<1>1. "error" \in Reasons
  BY DEF Reasons
<1> QED
  BY <1>1 DEF TypeOK, AbortRound, Transition, Leave, ExitType, Terminal

LEMMA OuterHandlerType ==
  ASSUME TypeOK, NEW n, OuterHandler(n)
  PROVE  ExitType' /\ open' \in BOOLEAN /\ expected' \in Nat /\ reserved' \in Nat
         /\ attempt' \in [published : BOOLEAN, valid : BOOLEAN]
BY AbortRoundType DEF TypeOK, OuterHandler, CloseTxn, ReleaseReserved

LEMMA FailRoundType ==
  ASSUME TypeOK, NEW p \in {"ABORTED", "INTERRUPTED"}, NEW reason \in Reasons,
         FailRound(p, reason)
  PROVE  TypeOK'
<1> USE DEF TypeOK, FailRound, CloseTxn, loopVars, storeVars
<1>1. CASE OuterHandler(started)
  <2>1. ExitType' /\ open' \in BOOLEAN /\ expected' \in Nat /\ reserved' \in Nat
        /\ attempt' \in [published : BOOLEAN, valid : BOOLEAN]
    BY <1>1, OuterHandlerType
  <2> QED
    BY <2>1 DEF ExitType
<1>2. CASE EndRound(p, reason, TRUE) /\ CloseTxn /\ UNCHANGED reserved
  <2>1. ExitType'
    BY <1>2, EndRoundType
  <2> QED
    BY <1>2, <2>1 DEF ExitType
<1> QED
  BY <1>1, <1>2

(* Each action keeps every variable in its type.                           *)
LEMMA TypeStep == TypeOK /\ LedgerInv /\ [Next]_vars => TypeOK'
<1> SUFFICES ASSUME TypeOK, LedgerInv, [Next]_vars
             PROVE  TypeOK'
  OBVIOUS
<1>m. Missing \in SUBSET Keys /\ Work[Missing] \in Nat
  BY MissingType DEF TypeOK
<1> USE ConfigAssumption
    DEF TypeOK, vars, loopVars, cacheTxn, storeVars, budgetVars,
        traceVars, exitVars, LoopUnchanged, SealUnchanged, Transition, Leave,
        CloseTxn, ReleaseReserved
<1>1. CASE Round
  <2>1. CASE StopMaxRounds
    BY <2>1 DEF StopMaxRounds, Reasons
  <2>2. CASE StopDeadline
    BY <2>2 DEF StopDeadline, Reasons
  <2>3. CASE ProposeNothing
    BY <2>3 DEF ProposeNothing, Reasons
  <2>4. CASE ProposeRaises
    BY <2>4 DEF ProposeRaises, Reasons
  <2>5. CASE NothingAdmissible
    BY <2>5 DEF NothingAdmissible, Reasons
  <2>6. ASSUME NEW keys \in SUBSET Keys, Admit(keys)
       PROVE  TypeOK'
    BY <2>6 DEF Admit
  <2> HIDE DEF TypeOK
  <2> QED
    BY <1>1, <2>1, <2>2, <2>3, <2>4, <2>5, <2>6 DEF Round
<1>2. CASE Prepare
  <2>1. CASE BeginRaises
    BY <2>1, AbortRoundType DEF BeginRaises, ExitType, Terminal
  <2>2. CASE Begin
    BY <2>2 DEF Begin, NoAttempt
  <2>3. CASE LookupRaises
    BY <2>3, AbortRoundType DEF LookupRaises, ExitType, Terminal
  <2>4. CASE Lookup
    BY <2>4 DEF Lookup
  <2>5. CASE WorkUnitsRaise
    BY <2>5, AbortRoundType DEF WorkUnitsRaise, ExitType, Terminal
  <2>6. CASE Reserve
    BY <2>6, <1>m DEF Reserve, Remaining
  <2>7. CASE LookupStale
    <3>1. "stale_snapshot" \in Reasons
      BY DEF Reasons
    <3>2. CASE EndRound("INTERRUPTED", "stale_snapshot", FALSE)
      <4>1. ExitType'
        BY <3>1, <3>2, EndRoundType
      <4> QED
        BY <4>1, <2>7 DEF LookupStale, ExitType, Terminal
    <3>3. CASE AbortRound(FALSE)
      <4>1. ExitType'
        BY <3>3, AbortRoundType
      <4> QED
        BY <4>1, <2>7 DEF LookupStale, ExitType, Terminal
    <3> QED
      BY <3>2, <3>3, <2>7 DEF LookupStale
  <2>8. CASE ReserveRefused
    <3>1. "fixed_work_exhausted" \in Reasons
      BY DEF Reasons
    <3>2. CASE EndRound("INTERRUPTED", "fixed_work_exhausted", FALSE)
      <4>1. ExitType'
        BY <3>1, <3>2, EndRoundType
      <4> QED
        BY <4>1, <2>8 DEF ReserveRefused, ExitType, Terminal
    <3>3. CASE AbortRound(FALSE)
      <4>1. ExitType'
        BY <3>3, AbortRoundType
      <4> QED
        BY <4>1, <2>8 DEF ReserveRefused, ExitType, Terminal
    <3> QED
      BY <3>2, <3>3, <2>8 DEF ReserveRefused
  <2> HIDE DEF TypeOK
  <2> QED
    BY <1>2, <2>1, <2>2, <2>3, <2>4, <2>5, <2>6, <2>7, <2>8 DEF Prepare
<1>3. CASE EvaluateStep
  <2>1. CASE StartEvaluation
    BY <2>1 DEF StartEvaluation
  <2>2. CASE Evaluate
    BY <2>2, <1>m DEF Evaluate, StartWork, LedgerInv
  <2>3. CASE EvaluateMalformed
    BY <2>3, <1>m, OuterHandlerType DEF EvaluateMalformed, ExitType, Terminal
  <2>4. ASSUME NEW submitted \in SUBSET Missing,
             NEW unfinished \in SUBSET submitted,
             NEW cause \in {"timeout", "worker", "error"},
             EvaluateAborts(submitted, unfinished, cause)
       PROVE  TypeOK'
    <3>1. Work[submitted] \in Nat
      BY <1>m, WorkMonotone
    <3>2. ExitType'
      <4>1. "worker_failure" \in Reasons /\ "deadline" \in Reasons
        BY DEF Reasons
      <4>2. \/ EndRound("ABORTED", "worker_failure", TRUE)
            \/ EndRound("INTERRUPTED", "deadline", TRUE)
            \/ AbortRound(TRUE)
        BY <2>4 DEF EvaluateAborts
      <4> HIDE DEF TypeOK
      <4> QED
        BY <4>1, <4>2, EndRoundType, AbortRoundType
    <3>3. /\ started' = started + Work[submitted] /\ reserved' = 0
          /\ open' = FALSE /\ UNCHANGED <<expected, attempt>>
          /\ UNCHANGED <<loopVars, storeVars, mark, expired>>
      BY <2>4 DEF EvaluateAborts
    <3>4. FrameType'
      BY <3>3, FrameTypeKept
    <3>5. started' \in Nat /\ reserved' \in Nat
      BY <3>1, <3>3
    <3>6. /\ expected' \in Nat /\ open' \in BOOLEAN
          /\ attempt' \in [published : BOOLEAN, valid : BOOLEAN]
      BY <3>3
    <3> QED
      BY <3>2, <3>4, <3>5, <3>6 DEF ExitType, FrameType, Terminal
  <2> HIDE DEF TypeOK
  <2> QED
    BY <1>3, <2>1, <2>2, <2>3, <2>4 DEF EvaluateStep
<1>4. CASE ResolveStep
  <2>1. CASE ValidateRaises
    BY <2>1, OuterHandlerType DEF ValidateRaises, ExitType, Terminal
  <2>2. CASE Validate
    BY <2>2 DEF Validate
  <2>3. CASE DecideRaises
    BY <2>3, OuterHandlerType DEF DecideRaises, ExitType, Terminal
  <2>4. CASE DeadlineAfterEvaluation
    <3>1. FailRound("INTERRUPTED", "deadline") /\ "deadline" \in Reasons
      BY <2>4 DEF DeadlineAfterEvaluation, Reasons
    <3> HIDE DEF TypeOK
    <3> QED
      BY <3>1, FailRoundType
  <2>5. CASE ValidationFails
    <3>1. FailRound("ABORTED", "validation_failure") /\ "validation_failure" \in Reasons
      BY <2>5 DEF ValidationFails, Reasons
    <3> HIDE DEF TypeOK
    <3> QED
      BY <3>1, FailRoundType
  <2>6. ASSUME NEW s \in States, Decide(s)
       PROVE  TypeOK'
    BY <2>6 DEF Decide
  <2> HIDE DEF TypeOK
  <2> QED
    BY <1>4, <2>1, <2>2, <2>3, <2>4, <2>5, <2>6 DEF ResolveStep
<1>5. CASE CommitStep
  <2>1. CASE CommitStale
    <3>1. FailRound("INTERRUPTED", "stale_snapshot") /\ "stale_snapshot" \in Reasons
      BY <2>1 DEF CommitStale, Reasons
    <3> HIDE DEF TypeOK
    <3> QED
      BY <3>1, FailRoundType
  <2>2. CASE CommitCallbackFails
    <3>1. FailRound("ABORTED", "cache_write_failure") /\ "cache_write_failure" \in Reasons
      BY <2>2 DEF CommitCallbackFails, Reasons
    <3> HIDE DEF TypeOK
    <3> QED
      BY <3>1, FailRoundType
  <2>3. CASE CommitRaises
    BY <2>3, OuterHandlerType DEF CommitRaises, ExitType, Terminal
  <2>4. ASSUME NEW fault \in {"none"} \cup (Faults \cap {"malformed", "leaky"}),
             CommitPublishes(fault)
       PROVE  TypeOK'
    BY <2>4 DEF CommitPublishes, Overlay
  <2>5. ASSUME NEW fault \in Faults \cap {"forged", "swallowed"},
             CommitForged(fault)
       PROVE  TypeOK'
    BY <2>5 DEF CommitForged
  <2> HIDE DEF TypeOK
  <2> QED
    BY <1>5, <2>1, <2>2, <2>3, <2>4, <2>5 DEF CommitStep
<1>6. CASE VerifyStep
  <2>1. CASE VerifyCommit
    BY <2>1 DEF VerifyCommit, PublishState, NoAttempt, Terminal
  <2>2. CASE VerifyPublished
    BY <2>2 DEF VerifyPublished, PublishState, Reasons, Terminal
  <2>3. CASE VerifyUnknown
    BY <2>3 DEF VerifyUnknown, Reasons, Terminal
  <2>4. CASE VerifyFails
    BY <2>4, OuterHandlerType DEF VerifyFails, ExitType, Terminal
  <2> HIDE DEF TypeOK
  <2> QED
    BY <1>6, <2>1, <2>2, <2>3, <2>4 DEF VerifyStep
<1>7. CASE SealStep
  <2>1. CASE Seal
    BY <2>1 DEF Seal
  <2>2. ASSUME NEW delivered \in {0, 1}, SinkRaises(delivered)
       PROVE  TypeOK'
    <3>1. CASE HandlerAborts
      <4>1. exit' = [exit EXCEPT !.kind = "raise", !.guarded = FALSE]
        BY <3>1, <2>2 DEF SinkRaises
      <4>2. exit' \in [kind : {"none", "result", "raise"}, reason : Reasons,
                      guarded : BOOLEAN]
        BY <4>1
      <4>3. phase' = "ABORTED" /\ open' = FALSE /\ reserved' = 0
            /\ sealed' = sealed + delivered
            /\ UNCHANGED <<pc, expected, attempt, loopVars, storeVars, started,
                          mark, expired>>
        BY <3>1, <2>2 DEF SinkRaises
      <4>4. FrameType'
        BY <4>3, FrameTypeKept
      <4>5. /\ expected' \in Nat /\ started' \in Nat /\ sealed' \in Nat
            /\ attempt' \in [published : BOOLEAN, valid : BOOLEAN]
        BY <4>3
      <4> QED
        BY <4>2, <4>3, <4>4, <4>5 DEF FrameType, Terminal
    <3>2. CASE ~HandlerAborts
      BY <3>2, <2>2 DEF SinkRaises
    <3> QED
      BY <3>1, <3>2
  <2> HIDE DEF TypeOK
  <2> QED
    BY <1>7, <2>1, <2>2 DEF SealStep
<1>8. CASE Environment
  <2>1. CASE Expire
    BY <2>1 DEF Expire
  <2>2. ASSUME NEW k \in Keys, NEW s \in States,
             ExternalCommit(k, s)
       PROVE  TypeOK'
    BY <2>2 DEF ExternalCommit
  <2> HIDE DEF TypeOK
  <2> QED
    BY <1>8, <2>1, <2>2 DEF Environment
<1>9. CASE UNCHANGED vars \/ Finished
  BY <1>9 DEF Finished
<1> HIDE DEF TypeOK
<1> QED
  BY <1>1, <1>2, <1>3, <1>4, <1>5, <1>6, <1>7, <1>8, <1>9 DEF Next, Run

LEMMA MissingFrame ==
  ASSUME UNCHANGED <<admitted, hits>>
  PROVE  Missing' = Missing
BY DEF Missing

(* A reservation is granted within the limit, consumed by what evaluation  *)
(* starts, and released on every path that leaves evaluation.              *)
LEMMA LedgerStep == TypeOK /\ LedgerInv /\ [Next]_vars => LedgerInv'
<1> SUFFICES ASSUME TypeOK, LedgerInv, [Next]_vars
             PROVE  LedgerInv'
  OBVIOUS
<1>m. Missing \in SUBSET Keys /\ Work[Missing] \in Nat
  BY MissingType DEF TypeOK
<1>t. started \in Nat /\ reserved \in Nat /\ Limit \in Nat
  BY ConfigAssumption DEF TypeOK
<1> USE DEF LedgerInv, Limited, vars, loopVars, cacheTxn, storeVars, budgetVars,
            traceVars, exitVars, LoopUnchanged, SealUnchanged, Transition,
            Leave, CloseTxn, EndRound, AbortRound, OuterHandler, FailRound,
            ReleaseReserved
<1>1. CASE Round
  <2>1. CASE StopMaxRounds
    BY <2>1, <1>t DEF StopMaxRounds
  <2>2. CASE StopDeadline
    BY <2>2, <1>t DEF StopDeadline
  <2>3. CASE ProposeNothing
    BY <2>3, <1>t DEF ProposeNothing
  <2>4. CASE ProposeRaises
    BY <2>4, <1>t DEF ProposeRaises
  <2>5. CASE NothingAdmissible
    BY <2>5, <1>t DEF NothingAdmissible
  <2>6. ASSUME NEW keys \in SUBSET Keys, Admit(keys)
       PROVE  LedgerInv'
    BY <2>6, <1>t DEF Admit
  <2> HIDE DEF LedgerInv
  <2> QED
    BY <1>1, <2>1, <2>2, <2>3, <2>4, <2>5, <2>6 DEF Round
<1>2. CASE Prepare
  <2>1. CASE BeginRaises
    BY <2>1, <1>t DEF BeginRaises
  <2>2. CASE Begin
    BY <2>2, <1>t DEF Begin
  <2>3. CASE LookupRaises
    BY <2>3, <1>t DEF LookupRaises
  <2>4. CASE Lookup
    BY <2>4, <1>t DEF Lookup
  <2>5. CASE WorkUnitsRaise
    BY <2>5, <1>t DEF WorkUnitsRaise
  <2>6. CASE Reserve
    BY <2>6, <1>t, <1>m, MissingFrame DEF Reserve, Remaining
  <2>7. CASE LookupStale
    BY <2>7, <1>t DEF LookupStale
  <2>8. CASE ReserveRefused
    BY <2>8, <1>t DEF ReserveRefused
  <2> HIDE DEF LedgerInv
  <2> QED
    BY <1>2, <2>1, <2>2, <2>3, <2>4, <2>5, <2>6, <2>7, <2>8 DEF Prepare
<1>3. CASE EvaluateStep
  <2>1. CASE StartEvaluation
    BY <2>1, <1>t, <1>m, MissingFrame, WorkAssumption DEF StartEvaluation
  <2>2. CASE Evaluate
    BY <2>2, <1>t, <1>m DEF Evaluate, StartWork
  <2>3. CASE EvaluateMalformed
    BY <2>3, <1>t, <1>m DEF EvaluateMalformed
  <2>4. ASSUME NEW submitted \in SUBSET Missing,
             NEW unfinished \in SUBSET submitted,
             NEW cause \in {"timeout", "worker", "error"},
             EvaluateAborts(submitted, unfinished, cause)
       PROVE  LedgerInv'
    <3>1. Work[submitted] \in Nat /\ Work[submitted] <= Work[Missing]
      BY <1>m, WorkMonotone
    <3>2. started' = started + Work[submitted] /\ reserved' = 0 /\ pc' = "seal"
          /\ reserved = Work[Missing]
      BY <2>4 DEF EvaluateAborts
    <3> QED
      BY <1>m, <1>t, <3>1, <3>2
  <2> HIDE DEF LedgerInv
  <2> QED
    BY <1>3, <2>1, <2>2, <2>3, <2>4 DEF EvaluateStep
<1>4. CASE ResolveStep
  <2>1. CASE ValidateRaises
    BY <2>1, <1>t DEF ValidateRaises
  <2>2. CASE Validate
    BY <2>2, <1>t DEF Validate
  <2>3. CASE DecideRaises
    BY <2>3, <1>t DEF DecideRaises
  <2>4. CASE DeadlineAfterEvaluation
    BY <2>4, <1>t DEF DeadlineAfterEvaluation
  <2>5. CASE ValidationFails
    BY <2>5, <1>t DEF ValidationFails
  <2>6. ASSUME NEW s \in States, Decide(s)
       PROVE  LedgerInv'
    BY <2>6, <1>t DEF Decide
  <2> HIDE DEF LedgerInv
  <2> QED
    BY <1>4, <2>1, <2>2, <2>3, <2>4, <2>5, <2>6 DEF ResolveStep
<1>5. CASE CommitStep
  <2>1. CASE CommitStale
    BY <2>1, <1>t DEF CommitStale
  <2>2. CASE CommitCallbackFails
    BY <2>2, <1>t DEF CommitCallbackFails
  <2>3. CASE CommitRaises
    BY <2>3, <1>t DEF CommitRaises
  <2>4. ASSUME NEW fault \in {"none"} \cup (Faults \cap {"malformed", "leaky"}),
             CommitPublishes(fault)
       PROVE  LedgerInv'
    BY <2>4, <1>t DEF CommitPublishes
  <2>5. ASSUME NEW fault \in Faults \cap {"forged", "swallowed"},
             CommitForged(fault)
       PROVE  LedgerInv'
    BY <2>5, <1>t DEF CommitForged
  <2> HIDE DEF LedgerInv
  <2> QED
    BY <1>5, <2>1, <2>2, <2>3, <2>4, <2>5 DEF CommitStep
<1>6. CASE VerifyStep
  <2>1. CASE VerifyCommit
    BY <2>1, <1>t DEF VerifyCommit
  <2>2. CASE VerifyPublished
    BY <2>2, <1>t DEF VerifyPublished
  <2>3. CASE VerifyUnknown
    BY <2>3, <1>t DEF VerifyUnknown
  <2>4. CASE VerifyFails
    BY <2>4, <1>t DEF VerifyFails
  <2> HIDE DEF LedgerInv
  <2> QED
    BY <1>6, <2>1, <2>2, <2>3, <2>4 DEF VerifyStep
<1>7. CASE SealStep
  <2>1. CASE Seal
    BY <2>1, <1>t DEF Seal
  <2>2. ASSUME NEW delivered \in {0, 1}, SinkRaises(delivered)
       PROVE  LedgerInv'
    <3>1. pc' \in {"seal", "done"} /\ reserved' = 0 /\ started' = started
      <4>1. CASE HandlerAborts
        BY <4>1, <2>2 DEF SinkRaises
      <4>2. CASE ~HandlerAborts
        BY <4>2, <2>2 DEF SinkRaises
      <4> QED
        BY <4>1, <4>2
    <3> QED
      BY <3>1, <1>t
  <2> HIDE DEF LedgerInv
  <2> QED
    BY <1>7, <2>1, <2>2 DEF SealStep
<1>8. CASE Environment
  <2>1. CASE Expire
    BY <2>1, <1>t, MissingFrame DEF Expire
  <2>2. ASSUME NEW k \in Keys, NEW s \in States,
             ExternalCommit(k, s)
       PROVE  LedgerInv'
    BY <2>2, <1>t, MissingFrame DEF ExternalCommit
  <2> HIDE DEF LedgerInv
  <2> QED
    BY <1>8, <2>1, <2>2 DEF Environment
<1>9. CASE UNCHANGED vars \/ Finished
  BY <1>9, <1>t, MissingFrame DEF Finished
<1> HIDE DEF LedgerInv
<1> QED
  BY <1>1, <1>2, <1>3, <1>4, <1>5, <1>6, <1>7, <1>8, <1>9 DEF Next, Run

(* What a round has reserved is the work of the misses it has not started, *)
(* at every program point of run.                                          *)
THEOREM TypeAndLedger == Spec => [](TypeOK /\ LedgerInv)
<1>1. Init => TypeOK /\ LedgerInv
  BY LedgerInit
<1>2. TypeOK /\ LedgerInv /\ [Next]_vars => (TypeOK /\ LedgerInv)'
  BY TypeStep, LedgerStep
<1> QED
  BY <1>1, <1>2, PTL DEF Spec

(* PythonTxnRuntime.run keeps its ledger, cache transaction and trace      *)
(* variables well typed: no counter ever becomes negative.                 *)
THEOREM TypeCorrect == Spec => []TypeOK
BY TypeAndLedger, PTL

(* Work-at-start accounting holds for every limit and every mode: started  *)
(* and reserved work never exceed fixed_work, and no exit path leaks a     *)
(* reservation.                                                            *)
THEOREM BudgetTheorem == Spec => []BudgetConserved
<1>1. TypeOK /\ LedgerInv => BudgetConserved
  BY DEF LedgerInv, BudgetConserved
<1> QED
  BY <1>1, TypeAndLedger, PTL

-----------------------------------------------------------------------------
(* Control: which phase, transaction and trace belong to each point of the *)
(* loop.  It ties three things the code keeps apart: the phase of the      *)
(* candidate transaction, the cache transaction and the sealing.           *)

PhaseInv ==
  /\ pc = "loop" => phase \in {"NONE", "COMMITTED"}
  /\ pc \in {"begin", "lookup", "reserve"} => phase = "PREPARED"
  /\ pc = "start" => phase = "RESERVED"
  /\ pc \in {"evaluate", "check"} => phase = "EVALUATING"
  /\ pc \in {"decide", "commit", "verify"} => phase = "VALIDATED"

SealInv ==
  /\ pc \notin {"seal", "done"} => exit = NoExit
  /\ pc # "done" => sealed = 0
  /\ pc = "seal" /\ exit.guarded => phase \in Terminal
  /\ pc = "done" => sealed \in {0, 1}
  /\ pc = "done" /\ exit.kind = "result" => sealed = 1

OpenInv == pc \in {"loop", "begin", "seal", "done"} => ~open

ControlInv == TypeOK /\ PhaseInv /\ SealInv /\ OpenInv

LEMMA ControlInit == Init => PhaseInv /\ SealInv /\ OpenInv
BY DEF Init, PhaseInv, SealInv, OpenInv

LEMMA PhaseStep == TypeOK /\ PhaseInv /\ SealInv /\ [Next]_vars => PhaseInv'
<1> SUFFICES ASSUME TypeOK, PhaseInv, SealInv, [Next]_vars
             PROVE  PhaseInv'
  OBVIOUS
<1> USE DEF PhaseInv, vars, LoopUnchanged, SealUnchanged, traceVars, Transition,
            Leave, EndRound, AbortRound, OuterHandler, FailRound
<1>1. CASE Round
  <2>1. CASE StopMaxRounds
    BY <2>1 DEF StopMaxRounds
  <2>2. CASE StopDeadline
    BY <2>2 DEF StopDeadline
  <2>3. CASE ProposeNothing
    BY <2>3 DEF ProposeNothing
  <2>4. CASE ProposeRaises
    BY <2>4 DEF ProposeRaises
  <2>5. CASE NothingAdmissible
    BY <2>5 DEF NothingAdmissible
  <2>6. ASSUME NEW keys \in SUBSET Keys, Admit(keys)
       PROVE  PhaseInv'
    BY <2>6 DEF Admit
  <2> HIDE DEF PhaseInv
  <2> QED
    BY <1>1, <2>1, <2>2, <2>3, <2>4, <2>5, <2>6 DEF Round
<1>2. CASE Prepare
  <2>1. CASE BeginRaises
    BY <2>1 DEF BeginRaises
  <2>2. CASE Begin
    BY <2>2 DEF Begin
  <2>3. CASE LookupRaises
    BY <2>3 DEF LookupRaises
  <2>4. CASE Lookup
    BY <2>4 DEF Lookup
  <2>5. CASE WorkUnitsRaise
    BY <2>5 DEF WorkUnitsRaise
  <2>6. CASE Reserve
    BY <2>6 DEF Reserve
  <2>7. CASE LookupStale
    BY <2>7 DEF LookupStale
  <2>8. CASE ReserveRefused
    BY <2>8 DEF ReserveRefused
  <2> HIDE DEF PhaseInv
  <2> QED
    BY <1>2, <2>1, <2>2, <2>3, <2>4, <2>5, <2>6, <2>7, <2>8 DEF Prepare
<1>3. CASE EvaluateStep
  <2>1. CASE StartEvaluation
    BY <2>1 DEF StartEvaluation
  <2>2. CASE Evaluate
    BY <2>2 DEF Evaluate
  <2>3. CASE EvaluateMalformed
    BY <2>3 DEF EvaluateMalformed
  <2>4. ASSUME NEW submitted \in SUBSET Missing,
             NEW unfinished \in SUBSET submitted,
             NEW cause \in {"timeout", "worker", "error"},
             EvaluateAborts(submitted, unfinished, cause)
       PROVE  PhaseInv'
    BY <2>4 DEF EvaluateAborts
  <2> HIDE DEF PhaseInv
  <2> QED
    BY <1>3, <2>1, <2>2, <2>3, <2>4 DEF EvaluateStep
<1>4. CASE ResolveStep
  <2>1. CASE ValidateRaises
    BY <2>1 DEF ValidateRaises
  <2>2. CASE Validate
    BY <2>2 DEF Validate
  <2>3. CASE DecideRaises
    BY <2>3 DEF DecideRaises
  <2>4. CASE DeadlineAfterEvaluation
    BY <2>4 DEF DeadlineAfterEvaluation
  <2>5. CASE ValidationFails
    BY <2>5 DEF ValidationFails
  <2>6. ASSUME NEW s \in States, Decide(s)
       PROVE  PhaseInv'
    BY <2>6 DEF Decide
  <2> HIDE DEF PhaseInv
  <2> QED
    BY <1>4, <2>1, <2>2, <2>3, <2>4, <2>5, <2>6 DEF ResolveStep
<1>5. CASE CommitStep
  <2>1. CASE CommitStale
    BY <2>1 DEF CommitStale
  <2>2. CASE CommitCallbackFails
    BY <2>2 DEF CommitCallbackFails
  <2>3. CASE CommitRaises
    BY <2>3 DEF CommitRaises
  <2>4. ASSUME NEW fault \in {"none"} \cup (Faults \cap {"malformed", "leaky"}),
             CommitPublishes(fault)
       PROVE  PhaseInv'
    BY <2>4 DEF CommitPublishes
  <2>5. ASSUME NEW fault \in Faults \cap {"forged", "swallowed"},
             CommitForged(fault)
       PROVE  PhaseInv'
    BY <2>5 DEF CommitForged
  <2> HIDE DEF PhaseInv
  <2> QED
    BY <1>5, <2>1, <2>2, <2>3, <2>4, <2>5 DEF CommitStep
<1>6. CASE VerifyStep
  <2>1. CASE VerifyCommit
    BY <2>1 DEF VerifyCommit, PublishState
  <2>2. CASE VerifyPublished
    BY <2>2 DEF VerifyPublished
  <2>3. CASE VerifyUnknown
    BY <2>3 DEF VerifyUnknown
  <2>4. CASE VerifyFails
    BY <2>4 DEF VerifyFails
  <2> HIDE DEF PhaseInv
  <2> QED
    BY <1>6, <2>1, <2>2, <2>3, <2>4 DEF VerifyStep
<1>7. CASE SealStep
  <2>1. CASE Seal
    BY <2>1 DEF Seal
  <2>2. ASSUME NEW delivered \in {0, 1}, SinkRaises(delivered)
       PROVE  PhaseInv'
    <3>1. pc' \in {"seal", "done"}
      <4>1. CASE HandlerAborts
        BY <4>1, <2>2 DEF SinkRaises
      <4>2. CASE ~HandlerAborts
        BY <4>2, <2>2 DEF SinkRaises
      <4> QED
        BY <4>1, <4>2
    <3> QED
      BY <3>1
  <2> HIDE DEF PhaseInv
  <2> QED
    BY <1>7, <2>1, <2>2 DEF SealStep
<1>8. CASE Environment
  <2>1. CASE Expire
    BY <2>1 DEF Expire
  <2>2. ASSUME NEW k \in Keys, NEW s \in States,
             ExternalCommit(k, s)
       PROVE  PhaseInv'
    BY <2>2 DEF ExternalCommit
  <2> HIDE DEF PhaseInv
  <2> QED
    BY <1>8, <2>1, <2>2 DEF Environment
<1>9. CASE UNCHANGED vars \/ Finished
  BY <1>9 DEF Finished
<1> HIDE DEF PhaseInv
<1> QED
  BY <1>1, <1>2, <1>3, <1>4, <1>5, <1>6, <1>7, <1>8, <1>9 DEF Next, Run

LEMMA SealStepInv == TypeOK /\ PhaseInv /\ SealInv /\ [Next]_vars => SealInv'
<1> SUFFICES ASSUME TypeOK, PhaseInv, SealInv, [Next]_vars
             PROVE  SealInv'
  OBVIOUS
<1> USE DEF SealInv, NoExit, Terminal, vars, exitVars, LoopUnchanged,
            SealUnchanged, traceVars, Transition, Leave, EndRound, AbortRound,
            OuterHandler, FailRound
<1>1. CASE Round
  <2>1. CASE StopMaxRounds
    BY <2>1 DEF StopMaxRounds
  <2>2. CASE StopDeadline
    BY <2>2 DEF StopDeadline
  <2>3. CASE ProposeNothing
    BY <2>3 DEF ProposeNothing
  <2>4. CASE ProposeRaises
    BY <2>4 DEF ProposeRaises
  <2>5. CASE NothingAdmissible
    BY <2>5 DEF NothingAdmissible
  <2>6. ASSUME NEW keys \in SUBSET Keys, Admit(keys)
       PROVE  SealInv'
    BY <2>6 DEF Admit
  <2> HIDE DEF SealInv
  <2> QED
    BY <1>1, <2>1, <2>2, <2>3, <2>4, <2>5, <2>6 DEF Round
<1>2. CASE Prepare
  <2>1. CASE BeginRaises
    BY <2>1 DEF BeginRaises
  <2>2. CASE Begin
    BY <2>2 DEF Begin
  <2>3. CASE LookupRaises
    BY <2>3 DEF LookupRaises
  <2>4. CASE Lookup
    BY <2>4 DEF Lookup
  <2>5. CASE WorkUnitsRaise
    BY <2>5 DEF WorkUnitsRaise
  <2>6. CASE Reserve
    BY <2>6 DEF Reserve
  <2>7. CASE LookupStale
    BY <2>7 DEF LookupStale
  <2>8. CASE ReserveRefused
    BY <2>8 DEF ReserveRefused
  <2> HIDE DEF SealInv
  <2> QED
    BY <1>2, <2>1, <2>2, <2>3, <2>4, <2>5, <2>6, <2>7, <2>8 DEF Prepare
<1>3. CASE EvaluateStep
  <2>1. CASE StartEvaluation
    BY <2>1 DEF StartEvaluation
  <2>2. CASE Evaluate
    BY <2>2 DEF Evaluate
  <2>3. CASE EvaluateMalformed
    BY <2>3 DEF EvaluateMalformed
  <2>4. ASSUME NEW submitted \in SUBSET Missing,
             NEW unfinished \in SUBSET submitted,
             NEW cause \in {"timeout", "worker", "error"},
             EvaluateAborts(submitted, unfinished, cause)
       PROVE  SealInv'
    BY <2>4 DEF EvaluateAborts
  <2> HIDE DEF SealInv
  <2> QED
    BY <1>3, <2>1, <2>2, <2>3, <2>4 DEF EvaluateStep
<1>4. CASE ResolveStep
  <2>1. CASE ValidateRaises
    BY <2>1 DEF ValidateRaises
  <2>2. CASE Validate
    BY <2>2 DEF Validate
  <2>3. CASE DecideRaises
    BY <2>3 DEF DecideRaises
  <2>4. CASE DeadlineAfterEvaluation
    BY <2>4 DEF DeadlineAfterEvaluation
  <2>5. CASE ValidationFails
    BY <2>5 DEF ValidationFails
  <2>6. ASSUME NEW s \in States, Decide(s)
       PROVE  SealInv'
    BY <2>6 DEF Decide
  <2> HIDE DEF SealInv
  <2> QED
    BY <1>4, <2>1, <2>2, <2>3, <2>4, <2>5, <2>6 DEF ResolveStep
<1>5. CASE CommitStep
  <2>1. CASE CommitStale
    BY <2>1 DEF CommitStale
  <2>2. CASE CommitCallbackFails
    BY <2>2 DEF CommitCallbackFails
  <2>3. CASE CommitRaises
    BY <2>3 DEF CommitRaises
  <2>4. ASSUME NEW fault \in {"none"} \cup (Faults \cap {"malformed", "leaky"}),
             CommitPublishes(fault)
       PROVE  SealInv'
    BY <2>4 DEF CommitPublishes
  <2>5. ASSUME NEW fault \in Faults \cap {"forged", "swallowed"},
             CommitForged(fault)
       PROVE  SealInv'
    BY <2>5 DEF CommitForged
  <2> HIDE DEF SealInv
  <2> QED
    BY <1>5, <2>1, <2>2, <2>3, <2>4, <2>5 DEF CommitStep
<1>6. CASE VerifyStep
  <2>1. CASE VerifyCommit
    BY <2>1 DEF VerifyCommit
  <2>2. CASE VerifyPublished
    BY <2>2 DEF VerifyPublished, PublishState
  <2>3. CASE VerifyUnknown
    BY <2>3 DEF VerifyUnknown
  <2>4. CASE VerifyFails
    BY <2>4 DEF VerifyFails
  <2> HIDE DEF SealInv
  <2> QED
    BY <1>6, <2>1, <2>2, <2>3, <2>4 DEF VerifyStep
<1>7. CASE SealStep
  <2>1. CASE Seal
    BY <2>1 DEF Seal
  <2>2. ASSUME NEW delivered \in {0, 1}, SinkRaises(delivered)
       PROVE  SealInv'
    <3>1. ~HandlerAborts
      BY <2>2 DEF SinkRaises, HandlerAborts
    <3>2. exit' = [exit EXCEPT !.kind = "raise"] /\ pc' = "done"
          /\ sealed' = sealed + delivered /\ sealed = 0
      BY <3>1, <2>2 DEF SinkRaises
    <3>3. exit'.kind = "raise"
      BY <3>2 DEF TypeOK
    <3> QED
      BY <3>2, <3>3
  <2> HIDE DEF SealInv
  <2> QED
    BY <1>7, <2>1, <2>2 DEF SealStep
<1>8. CASE Environment
  <2>1. CASE Expire
    BY <2>1 DEF Expire
  <2>2. ASSUME NEW k \in Keys, NEW s \in States,
             ExternalCommit(k, s)
       PROVE  SealInv'
    BY <2>2 DEF ExternalCommit
  <2> HIDE DEF SealInv
  <2> QED
    BY <1>8, <2>1, <2>2 DEF Environment
<1>9. CASE UNCHANGED vars \/ Finished
  BY <1>9 DEF Finished
<1> HIDE DEF SealInv
<1> QED
  BY <1>1, <1>2, <1>3, <1>4, <1>5, <1>6, <1>7, <1>8, <1>9 DEF Next, Run

LEMMA OpenStep == TypeOK /\ OpenInv /\ [Next]_vars => OpenInv'
<1> SUFFICES ASSUME TypeOK, OpenInv, [Next]_vars
             PROVE  OpenInv'
  OBVIOUS
<1> USE DEF OpenInv, vars, cacheTxn, LoopUnchanged, SealUnchanged, Leave,
            CloseTxn, EndRound, AbortRound, OuterHandler, FailRound
<1>1. CASE Round
  <2>1. CASE StopMaxRounds
    BY <2>1 DEF StopMaxRounds
  <2>2. CASE StopDeadline
    BY <2>2 DEF StopDeadline
  <2>3. CASE ProposeNothing
    BY <2>3 DEF ProposeNothing
  <2>4. CASE ProposeRaises
    BY <2>4 DEF ProposeRaises
  <2>5. CASE NothingAdmissible
    BY <2>5 DEF NothingAdmissible
  <2>6. ASSUME NEW keys \in SUBSET Keys, Admit(keys)
       PROVE  OpenInv'
    BY <2>6 DEF Admit
  <2> HIDE DEF OpenInv
  <2> QED
    BY <1>1, <2>1, <2>2, <2>3, <2>4, <2>5, <2>6 DEF Round
<1>2. CASE Prepare
  <2>1. CASE BeginRaises
    BY <2>1 DEF BeginRaises
  <2>2. CASE Begin
    BY <2>2 DEF Begin
  <2>3. CASE LookupRaises
    BY <2>3 DEF LookupRaises
  <2>4. CASE Lookup
    BY <2>4 DEF Lookup
  <2>5. CASE WorkUnitsRaise
    BY <2>5 DEF WorkUnitsRaise
  <2>6. CASE Reserve
    BY <2>6 DEF Reserve
  <2>7. CASE LookupStale
    BY <2>7 DEF LookupStale
  <2>8. CASE ReserveRefused
    BY <2>8 DEF ReserveRefused
  <2> HIDE DEF OpenInv
  <2> QED
    BY <1>2, <2>1, <2>2, <2>3, <2>4, <2>5, <2>6, <2>7, <2>8 DEF Prepare
<1>3. CASE EvaluateStep
  <2>1. CASE StartEvaluation
    BY <2>1 DEF StartEvaluation
  <2>2. CASE Evaluate
    BY <2>2 DEF Evaluate
  <2>3. CASE EvaluateMalformed
    BY <2>3 DEF EvaluateMalformed
  <2>4. ASSUME NEW submitted \in SUBSET Missing,
             NEW unfinished \in SUBSET submitted,
             NEW cause \in {"timeout", "worker", "error"},
             EvaluateAborts(submitted, unfinished, cause)
       PROVE  OpenInv'
    BY <2>4 DEF EvaluateAborts
  <2> HIDE DEF OpenInv
  <2> QED
    BY <1>3, <2>1, <2>2, <2>3, <2>4 DEF EvaluateStep
<1>4. CASE ResolveStep
  <2>1. CASE ValidateRaises
    BY <2>1 DEF ValidateRaises
  <2>2. CASE Validate
    BY <2>2 DEF Validate
  <2>3. CASE DecideRaises
    BY <2>3 DEF DecideRaises
  <2>4. CASE DeadlineAfterEvaluation
    BY <2>4 DEF DeadlineAfterEvaluation
  <2>5. CASE ValidationFails
    BY <2>5 DEF ValidationFails
  <2>6. ASSUME NEW s \in States, Decide(s)
       PROVE  OpenInv'
    BY <2>6 DEF Decide
  <2> HIDE DEF OpenInv
  <2> QED
    BY <1>4, <2>1, <2>2, <2>3, <2>4, <2>5, <2>6 DEF ResolveStep
<1>5. CASE CommitStep
  <2>1. CASE CommitStale
    BY <2>1 DEF CommitStale
  <2>2. CASE CommitCallbackFails
    BY <2>2 DEF CommitCallbackFails
  <2>3. CASE CommitRaises
    BY <2>3 DEF CommitRaises
  <2>4. ASSUME NEW fault \in {"none"} \cup (Faults \cap {"malformed", "leaky"}),
             CommitPublishes(fault)
       PROVE  OpenInv'
    BY <2>4 DEF CommitPublishes
  <2>5. ASSUME NEW fault \in Faults \cap {"forged", "swallowed"},
             CommitForged(fault)
       PROVE  OpenInv'
    BY <2>5 DEF CommitForged
  <2> HIDE DEF OpenInv
  <2> QED
    BY <1>5, <2>1, <2>2, <2>3, <2>4, <2>5 DEF CommitStep
<1>6. CASE VerifyStep
  <2>1. CASE VerifyCommit
    BY <2>1 DEF VerifyCommit
  <2>2. CASE VerifyPublished
    BY <2>2 DEF VerifyPublished
  <2>3. CASE VerifyUnknown
    BY <2>3 DEF VerifyUnknown
  <2>4. CASE VerifyFails
    BY <2>4 DEF VerifyFails
  <2> HIDE DEF OpenInv
  <2> QED
    BY <1>6, <2>1, <2>2, <2>3, <2>4 DEF VerifyStep
<1>7. CASE SealStep
  <2>1. CASE Seal
    BY <2>1 DEF Seal
  <2>2. ASSUME NEW delivered \in {0, 1}, SinkRaises(delivered)
       PROVE  OpenInv'
    <3>1. CASE HandlerAborts
      BY <3>1, <2>2 DEF SinkRaises
    <3>2. CASE ~HandlerAborts
      BY <3>2, <2>2 DEF SinkRaises
    <3> QED
      BY <3>1, <3>2
  <2> HIDE DEF OpenInv
  <2> QED
    BY <1>7, <2>1, <2>2 DEF SealStep
<1>8. CASE Environment
  <2>1. CASE Expire
    BY <2>1 DEF Expire
  <2>2. ASSUME NEW k \in Keys, NEW s \in States,
             ExternalCommit(k, s)
       PROVE  OpenInv'
    BY <2>2 DEF ExternalCommit
  <2> HIDE DEF OpenInv
  <2> QED
    BY <1>8, <2>1, <2>2 DEF Environment
<1>9. CASE UNCHANGED vars \/ Finished
  BY <1>9 DEF Finished
<1> HIDE DEF OpenInv
<1> QED
  BY <1>1, <1>2, <1>3, <1>4, <1>5, <1>6, <1>7, <1>8, <1>9 DEF Next, Run

(* The phases each program point of run allows, and where its cache        *)
(* transaction may be open.                                                *)
THEOREM Control == Spec => []ControlInv
<1>1. Init => ControlInv
  BY LedgerInit, ControlInit DEF ControlInv
<1>2. ControlInv /\ LedgerInv /\ [Next]_vars => ControlInv'
  BY TypeStep, PhaseStep, SealStepInv, OpenStep DEF ControlInv
<1> QED
  BY <1>1, <1>2, TypeAndLedger, PTL DEF Spec

(* No exit path of run, by result or exception, leaves its cache           *)
(* transaction open.                                                       *)
THEOREM NoLeakTheorem == Spec => []NoOpenTransactionLeaks
<1>1. ControlInv => NoOpenTransactionLeaks
  BY DEF ControlInv, OpenInv, NoOpenTransactionLeaks
<1> QED
  BY <1>1, Control, PTL

(* The semantic trace is sealed at most once, and once whenever run        *)
(* returns, whichever sink raises.                                         *)
THEOREM SealedOnceTheorem == Spec => []SealedOnce
<1>1. ControlInv => SealedOnce
  BY DEF ControlInv, TypeOK, SealInv, SealedOnce
<1> QED
  BY <1>1, Control, PTL

LEMMA PhaseOrderStep ==
  TypeOK /\ PhaseInv /\ SealInv /\ [Next]_vars
    => [phase' # phase => phase' \in AllowedTransitions[phase]]_vars
<1> SUFFICES ASSUME TypeOK, PhaseInv, SealInv, [Next]_vars, phase' # phase
             PROVE  phase' \in AllowedTransitions[phase]
  OBVIOUS
<1> USE DEF AllowedTransitions, PhaseInv, SealInv, vars, LoopUnchanged,
            SealUnchanged, traceVars, Transition, Leave, EndRound, AbortRound,
            OuterHandler, FailRound
<1>1. CASE Round
  <2>1. CASE StopMaxRounds
    BY <2>1 DEF StopMaxRounds
  <2>2. CASE StopDeadline
    BY <2>2 DEF StopDeadline
  <2>3. CASE ProposeNothing
    BY <2>3 DEF ProposeNothing
  <2>4. CASE ProposeRaises
    BY <2>4 DEF ProposeRaises
  <2>5. CASE NothingAdmissible
    BY <2>5 DEF NothingAdmissible
  <2>6. ASSUME NEW keys \in SUBSET Keys, Admit(keys)
       PROVE  phase' \in AllowedTransitions[phase]
    BY <2>6 DEF Admit
  <2> HIDE DEF AllowedTransitions
  <2> QED
    BY <1>1, <2>1, <2>2, <2>3, <2>4, <2>5, <2>6 DEF Round
<1>2. CASE Prepare
  <2>1. CASE BeginRaises
    BY <2>1 DEF BeginRaises
  <2>2. CASE Begin
    BY <2>2 DEF Begin
  <2>3. CASE LookupRaises
    BY <2>3 DEF LookupRaises
  <2>4. CASE Lookup
    BY <2>4 DEF Lookup
  <2>5. CASE WorkUnitsRaise
    BY <2>5 DEF WorkUnitsRaise
  <2>6. CASE Reserve
    BY <2>6 DEF Reserve
  <2>7. CASE LookupStale
    BY <2>7 DEF LookupStale
  <2>8. CASE ReserveRefused
    BY <2>8 DEF ReserveRefused
  <2> HIDE DEF AllowedTransitions
  <2> QED
    BY <1>2, <2>1, <2>2, <2>3, <2>4, <2>5, <2>6, <2>7, <2>8 DEF Prepare
<1>3. CASE EvaluateStep
  <2>1. CASE StartEvaluation
    BY <2>1 DEF StartEvaluation
  <2>2. CASE Evaluate
    BY <2>2 DEF Evaluate
  <2>3. CASE EvaluateMalformed
    BY <2>3 DEF EvaluateMalformed
  <2>4. ASSUME NEW submitted \in SUBSET Missing,
             NEW unfinished \in SUBSET submitted,
             NEW cause \in {"timeout", "worker", "error"},
             EvaluateAborts(submitted, unfinished, cause)
       PROVE  phase' \in AllowedTransitions[phase]
    BY <2>4 DEF EvaluateAborts
  <2> HIDE DEF AllowedTransitions
  <2> QED
    BY <1>3, <2>1, <2>2, <2>3, <2>4 DEF EvaluateStep
<1>4. CASE ResolveStep
  <2>1. CASE ValidateRaises
    BY <2>1 DEF ValidateRaises
  <2>2. CASE Validate
    BY <2>2 DEF Validate
  <2>3. CASE DecideRaises
    BY <2>3 DEF DecideRaises
  <2>4. CASE DeadlineAfterEvaluation
    BY <2>4 DEF DeadlineAfterEvaluation
  <2>5. CASE ValidationFails
    BY <2>5 DEF ValidationFails
  <2>6. ASSUME NEW s \in States, Decide(s)
       PROVE  phase' \in AllowedTransitions[phase]
    BY <2>6 DEF Decide
  <2> HIDE DEF AllowedTransitions
  <2> QED
    BY <1>4, <2>1, <2>2, <2>3, <2>4, <2>5, <2>6 DEF ResolveStep
<1>5. CASE CommitStep
  <2>1. CASE CommitStale
    BY <2>1 DEF CommitStale
  <2>2. CASE CommitCallbackFails
    BY <2>2 DEF CommitCallbackFails
  <2>3. CASE CommitRaises
    BY <2>3 DEF CommitRaises
  <2>4. ASSUME NEW fault \in {"none"} \cup (Faults \cap {"malformed", "leaky"}),
             CommitPublishes(fault)
       PROVE  phase' \in AllowedTransitions[phase]
    BY <2>4 DEF CommitPublishes
  <2>5. ASSUME NEW fault \in Faults \cap {"forged", "swallowed"},
             CommitForged(fault)
       PROVE  phase' \in AllowedTransitions[phase]
    BY <2>5 DEF CommitForged
  <2> HIDE DEF AllowedTransitions
  <2> QED
    BY <1>5, <2>1, <2>2, <2>3, <2>4, <2>5 DEF CommitStep
<1>6. CASE VerifyStep
  <2>1. CASE VerifyCommit
    BY <2>1 DEF VerifyCommit, PublishState
  <2>2. CASE VerifyPublished
    BY <2>2 DEF VerifyPublished, PublishState
  <2>3. CASE VerifyUnknown
    BY <2>3 DEF VerifyUnknown
  <2>4. CASE VerifyFails
    BY <2>4 DEF VerifyFails
  <2> HIDE DEF AllowedTransitions
  <2> QED
    BY <1>6, <2>1, <2>2, <2>3, <2>4 DEF VerifyStep
<1>7. CASE SealStep
  <2>1. CASE Seal
    BY <2>1 DEF Seal
  <2>2. ASSUME NEW delivered \in {0, 1}, SinkRaises(delivered)
       PROVE  phase' \in AllowedTransitions[phase]
    <3>1. ~HandlerAborts
      BY <2>2 DEF SinkRaises, HandlerAborts
    <3> QED
      BY <3>1, <2>2 DEF SinkRaises
  <2> HIDE DEF AllowedTransitions
  <2> QED
    BY <1>7, <2>1, <2>2 DEF SealStep
<1>8. CASE Environment
  <2>1. CASE Expire
    BY <2>1 DEF Expire
  <2>2. ASSUME NEW k \in Keys, NEW s \in States,
             ExternalCommit(k, s)
       PROVE  phase' \in AllowedTransitions[phase]
    BY <2>2 DEF ExternalCommit
  <2> HIDE DEF AllowedTransitions
  <2> QED
    BY <1>8, <2>1, <2>2 DEF Environment
<1>9. CASE UNCHANGED vars \/ Finished
  BY <1>9 DEF Finished
<1> HIDE DEF AllowedTransitions
<1> QED
  BY <1>1, <1>2, <1>3, <1>4, <1>5, <1>6, <1>7, <1>8, <1>9 DEF Next, Run

(* CandidateTxn.transition never refuses a step run asks for, and a round  *)
(* follows another one only when that one committed.                       *)
THEOREM PhaseOrderTheorem == Spec => PhaseOrder
BY PhaseOrderStep, Control, PTL DEF Spec, ControlInv, PhaseOrder

-----------------------------------------------------------------------------
(* Publication: how the store's generation relates to committed rounds.    *)

(* The backend keeps its side of the cache contract as far as it can be    *)
(* checked at all: what it publishes it closes, and it does not claim the  *)
(* generation another owner published.                                     *)
BackendKeepsContract ==
  /\ "leaky" \notin Faults
  /\ MaxExternal > 0 => "forged" \notin Faults /\ "swallowed" \notin Faults

InTransaction == pc \in {"lookup", "reserve", "start", "evaluate", "check",
                         "decide", "commit", "verify"}

PubInv ==
  /\ ext <= MaxExternal
  /\ generation = ext + CommittedRounds
       + (IF attempt.published /\ exit.reason # "published" THEN 1 ELSE 0)
  /\ attempt.published =>
       \/ pc = "verify" /\ ~open
       \/ pc \in {"seal", "done"}
          /\ exit.reason \in {"published", "cache_outcome_unknown"}
  /\ exit.reason = "published" => attempt.published
  /\ pc = "verify" /\ ~attempt.published => MaxExternal = 0
  /\ InTransaction /\ MaxExternal = 0 =>
       generation = expected + (IF attempt.published THEN 1 ELSE 0)

LEMMA PubInit == Init => PubInv
BY ConfigAssumption
   DEF Init, PubInv, CommittedRounds, NoAttempt, NoExit, InTransaction

LEMMA PubStep ==
  ASSUME BackendKeepsContract, TypeOK, SealInv, PubInv, [Next]_vars
  PROVE  PubInv'
<1>b. /\ "leaky" \notin Faults
      /\ MaxExternal > 0 => "forged" \notin Faults /\ "swallowed" \notin Faults
  BY DEF BackendKeepsContract
<1>t. /\ generation \in Nat /\ ext \in Nat /\ round \in Nat /\ expected \in Nat
      /\ MaxExternal \in Nat
  BY ConfigAssumption DEF TypeOK
<1> USE DEF PubInv, SealInv, CommittedRounds, InTransaction, NoAttempt, NoExit,
            vars, loopVars, storeVars, cacheTxn, exitVars, LoopUnchanged,
            SealUnchanged, Leave, CloseTxn, EndRound, AbortRound, OuterHandler,
            FailRound
<1>1. CASE Round
  <2>1. CASE StopMaxRounds
    BY <2>1, <1>t DEF StopMaxRounds
  <2>2. CASE StopDeadline
    BY <2>2, <1>t DEF StopDeadline
  <2>3. CASE ProposeNothing
    BY <2>3, <1>t DEF ProposeNothing
  <2>4. CASE ProposeRaises
    BY <2>4, <1>t DEF ProposeRaises
  <2>5. CASE NothingAdmissible
    BY <2>5, <1>t DEF NothingAdmissible
  <2>6. ASSUME NEW keys \in SUBSET Keys, Admit(keys)
       PROVE  PubInv'
    BY <2>6, <1>t DEF Admit
  <2> HIDE DEF PubInv
  <2> QED
    BY <1>1, <2>1, <2>2, <2>3, <2>4, <2>5, <2>6 DEF Round
<1>2. CASE Prepare
  <2>1. CASE BeginRaises
    BY <2>1, <1>t DEF BeginRaises
  <2>2. CASE Begin
    BY <2>2, <1>t DEF Begin
  <2>3. CASE LookupRaises
    BY <2>3, <1>t DEF LookupRaises
  <2>4. CASE Lookup
    BY <2>4, <1>t DEF Lookup
  <2>5. CASE WorkUnitsRaise
    BY <2>5, <1>t DEF WorkUnitsRaise
  <2>6. CASE Reserve
    BY <2>6, <1>t DEF Reserve
  <2>7. CASE LookupStale
    BY <2>7, <1>t DEF LookupStale
  <2>8. CASE ReserveRefused
    BY <2>8, <1>t DEF ReserveRefused
  <2> HIDE DEF PubInv
  <2> QED
    BY <1>2, <2>1, <2>2, <2>3, <2>4, <2>5, <2>6, <2>7, <2>8 DEF Prepare
<1>3. CASE EvaluateStep
  <2>1. CASE StartEvaluation
    BY <2>1, <1>t DEF StartEvaluation
  <2>2. CASE Evaluate
    BY <2>2, <1>t DEF Evaluate
  <2>3. CASE EvaluateMalformed
    BY <2>3, <1>t DEF EvaluateMalformed
  <2>4. ASSUME NEW submitted \in SUBSET Missing,
             NEW unfinished \in SUBSET submitted,
             NEW cause \in {"timeout", "worker", "error"},
             EvaluateAborts(submitted, unfinished, cause)
       PROVE  PubInv'
    BY <2>4, <1>t DEF EvaluateAborts
  <2> HIDE DEF PubInv
  <2> QED
    BY <1>3, <2>1, <2>2, <2>3, <2>4 DEF EvaluateStep
<1>4. CASE ResolveStep
  <2>1. CASE ValidateRaises
    BY <2>1, <1>t DEF ValidateRaises
  <2>2. CASE Validate
    BY <2>2, <1>t DEF Validate
  <2>3. CASE DecideRaises
    BY <2>3, <1>t DEF DecideRaises
  <2>4. CASE DeadlineAfterEvaluation
    BY <2>4, <1>t DEF DeadlineAfterEvaluation
  <2>5. CASE ValidationFails
    BY <2>5, <1>t DEF ValidationFails
  <2>6. ASSUME NEW s \in States, Decide(s)
       PROVE  PubInv'
    BY <2>6, <1>t DEF Decide
  <2> HIDE DEF PubInv
  <2> QED
    BY <1>4, <2>1, <2>2, <2>3, <2>4, <2>5, <2>6 DEF ResolveStep
<1>5. CASE CommitStep
  <2>1. CASE CommitStale
    BY <2>1, <1>t DEF CommitStale
  <2>2. CASE CommitCallbackFails
    BY <2>2, <1>t DEF CommitCallbackFails
  <2>3. CASE CommitRaises
    BY <2>3, <1>t DEF CommitRaises
  <2>4. ASSUME NEW fault \in {"none"} \cup (Faults \cap {"malformed", "leaky"}),
             CommitPublishes(fault)
       PROVE  PubInv'
    <3>1. fault # "leaky"
      BY <1>b
    <3>2. /\ pc = "commit" /\ pc' = "verify" /\ open' = FALSE
          /\ attempt'.published /\ generation' = generation + 1
          /\ generation = expected /\ expected' = expected
          /\ UNCHANGED <<round, ext, exit>>
      BY <3>1, <2>4 DEF CommitPublishes
    <3>3. exit.reason # "published" /\ ~attempt.published
      BY <3>2
    <3> QED
      BY <1>t, <3>2, <3>3
  <2>5. ASSUME NEW fault \in Faults \cap {"forged", "swallowed"},
             CommitForged(fault)
       PROVE  PubInv'
    BY <2>5, <1>t, <1>b DEF CommitForged
  <2> HIDE DEF PubInv
  <2> QED
    BY <1>5, <2>1, <2>2, <2>3, <2>4, <2>5 DEF CommitStep
<1>6. CASE VerifyStep
  <2>1. CASE VerifyCommit
    BY <2>1, <1>t DEF VerifyCommit, PublishState, SnapshotMatches
  <2>2. CASE VerifyPublished
    BY <2>2, <1>t DEF VerifyPublished, PublishState, SnapshotMatches
  <2>3. CASE VerifyUnknown
    BY <2>3, <1>t DEF VerifyUnknown
  <2>4. CASE VerifyFails
    BY <2>4, <1>t DEF VerifyFails
  <2> HIDE DEF PubInv
  <2> QED
    BY <1>6, <2>1, <2>2, <2>3, <2>4 DEF VerifyStep
<1>7. CASE SealStep
  <2>1. CASE Seal
    BY <2>1, <1>t DEF Seal
  <2>2. ASSUME NEW delivered \in {0, 1}, SinkRaises(delivered)
       PROVE  PubInv'
    <3>1. ~HandlerAborts
      BY <2>2 DEF SinkRaises, HandlerAborts, SealInv
    <3>2. /\ pc = "seal" /\ pc' = "done"
          /\ exit' = [exit EXCEPT !.kind = "raise"]
          /\ UNCHANGED <<cacheTxn, storeVars, loopVars>>
      BY <3>1, <2>2 DEF SinkRaises
    <3>3. exit'.reason = exit.reason
      BY <3>2 DEF TypeOK
    <3> QED
      BY <3>2, <3>3
  <2> HIDE DEF PubInv
  <2> QED
    BY <1>7, <2>1, <2>2 DEF SealStep
<1>8. CASE Environment
  <2>1. CASE Expire
    BY <2>1, <1>t DEF Expire
  <2>2. ASSUME NEW k \in Keys, NEW s \in States,
             ExternalCommit(k, s)
       PROVE  PubInv'
    BY <2>2, <1>t DEF ExternalCommit
  <2> HIDE DEF PubInv
  <2> QED
    BY <1>8, <2>1, <2>2 DEF Environment
<1>9. CASE UNCHANGED vars \/ Finished
  BY <1>9, <1>t DEF Finished
<1> HIDE DEF PubInv
<1> QED
  BY <1>1, <1>2, <1>3, <1>4, <1>5, <1>6, <1>7, <1>8, <1>9 DEF Next, Run

(* With a backend that keeps its contract, the generation of the store is  *)
(* what run believes it to be, or run ends in a way that says otherwise.   *)
THEOREM Publication ==
  ASSUME BackendKeepsContract
  PROVE  Spec => [](ControlInv /\ PubInv)
<1>1. Init => PubInv
  BY PubInit
<1>2. ControlInv /\ PubInv /\ [Next]_vars => PubInv'
  BY PubStep DEF ControlInv
<1> QED
  BY <1>1, <1>2, Control, PTL DEF Spec

(* A round that ends ABORTED or INTERRUPTED has published nothing, and the *)
(* store holds exactly one generation of this run per committed round,     *)
(* unless the run itself reports an unknown cache outcome.                 *)
THEOREM NoPhantomTheorem ==
  ASSUME BackendKeepsContract
  PROVE  Spec => []NoPhantomPublication
<1>1. ControlInv /\ PubInv => NoPhantomPublication
  BY DEF ControlInv, SealInv, PubInv, NoPhantomPublication, NoExit,
         CommittedRounds
<1> QED
  BY <1>1, Publication, PTL

-----------------------------------------------------------------------------
(* Refinement: every step of run is a step of CommitPrefix or a stutter.   *)

LEMMA PrefixInit == Init => Prefix!Init
BY ConfigAssumption DEF Init, Prefix!Init, CommittedRounds, NoAttempt, NoExit

LEMMA PrefixStep ==
  ASSUME BackendKeepsContract, ControlInv, PubInv, [Next]_vars
  PROVE  [Prefix!Next]_(Prefix!vars)
<1>t. /\ generation \in Nat /\ ext \in Nat /\ round \in Nat
      /\ expected \in Nat /\ next \in States /\ TypeOK /\ SealInv
  BY DEF ControlInv, TypeOK
<1> USE DEF PubInv, SealInv, CommittedRounds, NoAttempt, NoExit, vars, loopVars,
            storeVars, cacheTxn, exitVars, LoopUnchanged, SealUnchanged, Leave,
            CloseTxn, EndRound, AbortRound, OuterHandler, FailRound,
            Prefix!Next, Prefix!vars, Prefix!CommitRound, Prefix!Stop,
            Prefix!StopUnknown
<1>1. CASE Round
  <2>1. CASE StopMaxRounds
    BY <2>1, <1>t DEF StopMaxRounds
  <2>2. CASE StopDeadline
    BY <2>2, <1>t DEF StopDeadline
  <2>3. CASE ProposeNothing
    BY <2>3, <1>t DEF ProposeNothing
  <2>4. CASE ProposeRaises
    BY <2>4, <1>t DEF ProposeRaises
  <2>5. CASE NothingAdmissible
    BY <2>5, <1>t DEF NothingAdmissible
  <2>6. ASSUME NEW keys \in SUBSET Keys, Admit(keys)
       PROVE  [Prefix!Next]_(Prefix!vars)
    BY <2>6, <1>t DEF Admit
  <2> HIDE DEF Prefix!Next, Prefix!vars
  <2> QED
    BY <1>1, <2>1, <2>2, <2>3, <2>4, <2>5, <2>6 DEF Round
<1>2. CASE Prepare
  <2>1. CASE BeginRaises
    BY <2>1, <1>t DEF BeginRaises
  <2>2. CASE Begin
    BY <2>2, <1>t DEF Begin
  <2>3. CASE LookupRaises
    BY <2>3, <1>t DEF LookupRaises
  <2>4. CASE Lookup
    BY <2>4, <1>t DEF Lookup
  <2>5. CASE WorkUnitsRaise
    BY <2>5, <1>t DEF WorkUnitsRaise
  <2>6. CASE Reserve
    BY <2>6, <1>t DEF Reserve
  <2>7. CASE LookupStale
    BY <2>7, <1>t DEF LookupStale
  <2>8. CASE ReserveRefused
    BY <2>8, <1>t DEF ReserveRefused
  <2> HIDE DEF Prefix!Next, Prefix!vars
  <2> QED
    BY <1>2, <2>1, <2>2, <2>3, <2>4, <2>5, <2>6, <2>7, <2>8 DEF Prepare
<1>3. CASE EvaluateStep
  <2>1. CASE StartEvaluation
    BY <2>1, <1>t DEF StartEvaluation
  <2>2. CASE Evaluate
    BY <2>2, <1>t DEF Evaluate
  <2>3. CASE EvaluateMalformed
    BY <2>3, <1>t DEF EvaluateMalformed
  <2>4. ASSUME NEW submitted \in SUBSET Missing,
             NEW unfinished \in SUBSET submitted,
             NEW cause \in {"timeout", "worker", "error"},
             EvaluateAborts(submitted, unfinished, cause)
       PROVE  [Prefix!Next]_(Prefix!vars)
    BY <2>4, <1>t DEF EvaluateAborts
  <2> HIDE DEF Prefix!Next, Prefix!vars
  <2> QED
    BY <1>3, <2>1, <2>2, <2>3, <2>4 DEF EvaluateStep
<1>4. CASE ResolveStep
  <2>1. CASE ValidateRaises
    BY <2>1, <1>t DEF ValidateRaises
  <2>2. CASE Validate
    BY <2>2, <1>t DEF Validate
  <2>3. CASE DecideRaises
    BY <2>3, <1>t DEF DecideRaises
  <2>4. CASE DeadlineAfterEvaluation
    BY <2>4, <1>t DEF DeadlineAfterEvaluation
  <2>5. CASE ValidationFails
    BY <2>5, <1>t DEF ValidationFails
  <2>6. ASSUME NEW s \in States, Decide(s)
       PROVE  [Prefix!Next]_(Prefix!vars)
    BY <2>6, <1>t DEF Decide
  <2> HIDE DEF Prefix!Next, Prefix!vars
  <2> QED
    BY <1>4, <2>1, <2>2, <2>3, <2>4, <2>5, <2>6 DEF ResolveStep
<1>5. CASE CommitStep
  <2>1. CASE CommitStale
    BY <2>1, <1>t DEF CommitStale
  <2>2. CASE CommitCallbackFails
    BY <2>2, <1>t DEF CommitCallbackFails
  <2>3. CASE CommitRaises
    BY <2>3, <1>t DEF CommitRaises
  <2>4. ASSUME NEW fault \in {"none"} \cup (Faults \cap {"malformed", "leaky"}),
             CommitPublishes(fault)
       PROVE  [Prefix!Next]_(Prefix!vars)
    BY <2>4, <1>t DEF CommitPublishes
  <2>5. ASSUME NEW fault \in Faults \cap {"forged", "swallowed"},
             CommitForged(fault)
       PROVE  [Prefix!Next]_(Prefix!vars)
    BY <2>5, <1>t DEF CommitForged
  <2> HIDE DEF Prefix!Next, Prefix!vars
  <2> QED
    BY <1>5, <2>1, <2>2, <2>3, <2>4, <2>5 DEF CommitStep
<1>6. CASE VerifyStep
  <2>1. CASE VerifyCommit
    <3>1. /\ pc = "verify" /\ generation = expected + 1
          /\ UNCHANGED <<generation, ext>> /\ state' = next
      BY <2>1 DEF VerifyCommit, PublishState, SnapshotMatches
    <3>2. attempt.published
      <4> SUFFICES ASSUME ~attempt.published PROVE FALSE
        OBVIOUS
      <4>1. MaxExternal = 0
        BY <3>1
      <4>2. generation = expected
        BY <1>t, <3>1, <4>1 DEF InTransaction
      <4> QED
        BY <1>t, <3>1, <4>2
    <3>3. exit = NoExit /\ exit.reason = "none"
      BY <1>t, <3>1
    <3>4. /\ pc' = "loop" /\ round' = round + 1 /\ exit' = exit
          /\ ~attempt'.published
      BY <2>1 DEF VerifyCommit
    <3>5. CommittedRounds = round /\ CommittedRounds' = round + 1
      BY <1>t, <3>3, <3>4
    <3>6. Prefix!CommitRound
      BY <1>t, <3>1, <3>2, <3>3, <3>4, <3>5
    <3> QED
      BY <3>6
  <2>2. CASE VerifyPublished
    <3>1. /\ pc = "verify" /\ generation = expected + 1
          /\ UNCHANGED <<generation, ext>> /\ state' = next
      BY <2>2 DEF VerifyPublished, PublishState, SnapshotMatches
    <3>2. attempt.published
      <4> SUFFICES ASSUME ~attempt.published PROVE FALSE
        OBVIOUS
      <4>1. MaxExternal = 0
        BY <3>1
      <4>2. generation = expected
        BY <1>t, <3>1, <4>1 DEF InTransaction
      <4> QED
        BY <1>t, <3>1, <4>2
    <3>3. exit = NoExit /\ exit.reason = "none"
      BY <1>t, <3>1
    <3>4. /\ pc' = "seal" /\ round' = round /\ exit'.reason = "published"
      BY <2>2 DEF VerifyPublished
    <3>5. CommittedRounds = round /\ CommittedRounds' = round + 1
      BY <1>t, <3>3, <3>4
    <3>6. Prefix!CommitRound
      BY <1>t, <3>1, <3>2, <3>3, <3>4, <3>5
    <3> QED
      BY <3>6
  <2>3. CASE VerifyUnknown
    BY <2>3, <1>t DEF VerifyUnknown
  <2>4. CASE VerifyFails
    BY <2>4, <1>t DEF VerifyFails
  <2> HIDE DEF Prefix!Next, Prefix!vars
  <2> QED
    BY <1>6, <2>1, <2>2, <2>3, <2>4 DEF VerifyStep
<1>7. CASE SealStep
  <2>1. CASE Seal
    BY <2>1, <1>t DEF Seal
  <2>2. ASSUME NEW delivered \in {0, 1}, SinkRaises(delivered)
       PROVE  [Prefix!Next]_(Prefix!vars)
    <3>1. ~HandlerAborts
      BY <1>t, <2>2 DEF SinkRaises, HandlerAborts
    <3>2. /\ pc = "seal" /\ pc' = "done"
          /\ exit' = [exit EXCEPT !.kind = "raise"]
          /\ UNCHANGED <<cacheTxn, storeVars, loopVars>>
      BY <3>1, <2>2 DEF SinkRaises
    <3>3. exit'.reason = exit.reason
      BY <1>t, <3>2 DEF TypeOK
    <3> QED
      BY <3>2, <3>3
  <2> HIDE DEF Prefix!Next, Prefix!vars
  <2> QED
    BY <1>7, <2>1, <2>2 DEF SealStep
<1>8. CASE Environment
  <2>1. CASE Expire
    BY <2>1, <1>t DEF Expire
  <2>2. ASSUME NEW k \in Keys, NEW s \in States,
             ExternalCommit(k, s)
       PROVE  [Prefix!Next]_(Prefix!vars)
    BY <2>2, <1>t DEF ExternalCommit
  <2> HIDE DEF Prefix!Next, Prefix!vars
  <2> QED
    BY <1>8, <2>1, <2>2 DEF Environment
<1>9. CASE UNCHANGED vars \/ Finished
  BY <1>9, <1>t DEF Finished
<1> HIDE DEF Prefix!Next, Prefix!vars
<1> QED
  BY <1>1, <1>2, <1>3, <1>4, <1>5, <1>6, <1>7, <1>8, <1>9 DEF Next, Run

(* PythonTxnRuntime.run implements CommitPrefix: state and cache become    *)
(* visible together, once per committed round, and every other ending      *)
(* leaves the prefix it started from.                                      *)
THEOREM RefinesPrefix ==
  ASSUME BackendKeepsContract
  PROVE  Spec => ImplementsPrefix
<1>1. Init => Prefix!Init
  BY PrefixInit
<1>2. ControlInv /\ PubInv /\ [Next]_vars => [Prefix!Next]_(Prefix!vars)
  BY PrefixStep
<1> QED
  BY <1>1, <1>2, Publication, PTL DEF Spec, ImplementsPrefix, Prefix!Spec

-----------------------------------------------------------------------------
(* Validation: what the run has resolved, decided and staged has passed    *)
(* oracle.validate before anything of it is published.                     *)

ValidInv ==
  /\ ValidatedOnly
  /\ pc \in {"decide", "commit", "verify"} =>
       \A k \in admitted : Resolved[k] \in Valid
  /\ pc \in {"commit", "verify"} =>
       next \in Valid /\ \A k \in Keys : staged[k] \in Valid \cup {NoState}

LEMMA ValidInit == Init => ValidInv
BY ConfigAssumption DEF Init, ValidInv, ValidatedOnly, NoValues

(* A step before the decision, or out of the round, has nothing to show.   *)
LEMMA ValidQuiet ==
  ASSUME ValidInv, UNCHANGED <<state, values>>,
         pc' \notin {"decide", "commit", "verify"}
  PROVE  ValidInv'
BY DEF ValidInv, ValidatedOnly

(* A step that leaves the round's results alone.                           *)
LEMMA ValidFrame ==
  ASSUME ValidInv, UNCHANGED <<pc, loopVars>>, MaxExternal = 0 => values' = values
  PROVE  ValidInv'
BY DEF ValidInv, ValidatedOnly, loopVars, Resolved

(* validate runs between the results of a round and every use of them.     *)
LEMMA ValidStep ==
  ASSUME TypeOK, ValidInv, [Next]_vars
  PROVE  ValidInv'
<1> USE DEF vars, loopVars, storeVars, cacheTxn, exitVars, LoopUnchanged,
            SealUnchanged, Leave, CloseTxn, EndRound, AbortRound, OuterHandler,
            FailRound
<1>1. CASE Round
  <2>1. UNCHANGED <<state, values>> /\ pc' \in {"seal", "done", "begin"}
    BY <1>1 DEF Round, StopMaxRounds, StopDeadline, ProposeNothing,
                ProposeRaises, NothingAdmissible, Admit
  <2> QED BY <2>1, ValidQuiet
<1>2. CASE Prepare
  <2>1. /\ UNCHANGED <<state, values>>
        /\ pc' \in {"seal", "lookup", "reserve", "start"}
    BY <1>2 DEF Prepare, BeginRaises, Begin, LookupRaises, Lookup,
                WorkUnitsRaise, Reserve, LookupStale, ReserveRefused
  <2> QED BY <2>1, ValidQuiet
<1>3. CASE EvaluateStep
  <2>1. UNCHANGED <<state, values>> /\ pc' \in {"seal", "check", "evaluate"}
    BY <1>3 DEF EvaluateStep, StartEvaluation, Evaluate, EvaluateMalformed,
                EvaluateAborts
  <2> QED BY <2>1, ValidQuiet
<1>4. CASE ResolveStep
  <2>1. CASE Validate
    <3>1. /\ UNCHANGED loopVars /\ UNCHANGED values /\ pc' = "decide"
          /\ \A k \in admitted : Resolved[k] \in Valid
      BY <2>1 DEF Validate
    <3>2. Resolved' = Resolved
      BY <3>1 DEF Resolved
    <3> QED BY <3>1, <3>2 DEF ValidInv, ValidatedOnly
  <2>2. ASSUME NEW s \in States, Decide(s)
        PROVE  ValidInv'
    <3>1. /\ UNCHANGED <<state, values, admitted, hits>>
          /\ pc = "decide" /\ pc' = "commit" /\ next' \in Valid
      BY <2>2 DEF Decide
    <3>2. Resolved' = Resolved
      BY <3>1 DEF Resolved
    <3>3. \A k \in admitted : Resolved[k] \in Valid
      BY <3>1 DEF ValidInv
    <3>4. ASSUME NEW k \in Keys
          PROVE  staged'[k] \in Valid \cup {NoState}
      <4>1. staged'[k] = IF k \in Missing THEN Eval[k] ELSE NoState
        BY <2>2 DEF Decide
      <4>2. CASE k \in Missing
        <5>1. k \in admitted /\ Resolved[k] = Eval[k]
          BY <4>2 DEF Missing, Resolved
        <5> QED BY <3>3, <4>1, <4>2, <5>1
      <4>3. CASE k \notin Missing
        BY <4>1, <4>3
      <4> QED BY <4>2, <4>3
    <3> QED BY <3>1, <3>2, <3>3, <3>4 DEF ValidInv, ValidatedOnly
  <2>3. CASE ValidateRaises \/ DecideRaises \/ DeadlineAfterEvaluation
             \/ ValidationFails
    <3>1. UNCHANGED <<state, values>> /\ pc' = "seal"
      BY <2>3 DEF ValidateRaises, DecideRaises, DeadlineAfterEvaluation,
                  ValidationFails
    <3> QED BY <3>1, ValidQuiet
  <2> QED BY <1>4, <2>1, <2>2, <2>3 DEF ResolveStep
<1>5. CASE CommitStep
  <2>1. ASSUME NEW fault \in {"none"} \cup (Faults \cap {"malformed", "leaky"}),
               CommitPublishes(fault)
        PROVE  ValidInv'
    <3>1. /\ UNCHANGED loopVars /\ values' = Overlay
          /\ pc = "commit" /\ pc' = "verify"
      BY <2>1 DEF CommitPublishes
    <3>2. Resolved' = Resolved
      BY <3>1 DEF Resolved
    <3>3. \A k \in Keys : staged[k] \in Valid \cup {NoState}
      BY <3>1 DEF ValidInv
    <3>4. ASSUME MaxExternal = 0, NEW k \in Keys
          PROVE  values'[k] \in Valid \cup {NoState}
      BY <3>1, <3>3, <3>4 DEF ValidInv, ValidatedOnly, Overlay
    <3> QED BY <3>1, <3>2, <3>4 DEF ValidInv, ValidatedOnly
  <2>2. ASSUME NEW fault \in Faults \cap {"forged", "swallowed"},
               CommitForged(fault)
        PROVE  ValidInv'
    <3>1. /\ UNCHANGED loopVars /\ UNCHANGED values
          /\ pc = "commit" /\ pc' = "verify"
      BY <2>2 DEF CommitForged
    <3>2. Resolved' = Resolved
      BY <3>1 DEF Resolved
    <3> QED BY <3>1, <3>2 DEF ValidInv, ValidatedOnly
  <2>3. CASE CommitStale \/ CommitCallbackFails \/ CommitRaises
    <3>1. UNCHANGED <<state, values>> /\ pc' = "seal"
      BY <2>3 DEF CommitStale, CommitCallbackFails, CommitRaises
    <3> QED BY <3>1, ValidQuiet
  <2> QED BY <1>5, <2>1, <2>2, <2>3 DEF CommitStep
<1>6. CASE VerifyStep
  <2>1. CASE VerifyCommit \/ VerifyPublished
    <3>1. /\ pc = "verify" /\ pc' \in {"loop", "seal"}
          /\ state' = next /\ values' = values
      BY <2>1 DEF VerifyCommit, VerifyPublished, PublishState
    <3> QED BY <3>1 DEF ValidInv, ValidatedOnly
  <2>2. CASE VerifyUnknown \/ VerifyFails
    <3>1. UNCHANGED <<state, values>> /\ pc' = "seal"
      BY <2>2 DEF VerifyUnknown, VerifyFails
    <3> QED BY <3>1, ValidQuiet
  <2> QED BY <1>6, <2>1, <2>2 DEF VerifyStep
<1>7. CASE SealStep
  <2>1. UNCHANGED <<state, values>> /\ pc' \in {"seal", "done"}
    <3>1. CASE Seal
      BY <3>1 DEF Seal
    <3>2. ASSUME NEW delivered \in {0, 1}, SinkRaises(delivered)
          PROVE  UNCHANGED <<state, values>> /\ pc' \in {"seal", "done"}
      <4>1. CASE HandlerAborts
        BY <3>2, <4>1 DEF SinkRaises
      <4>2. CASE ~HandlerAborts
        BY <3>2, <4>2 DEF SinkRaises
      <4> QED BY <4>1, <4>2
    <3> QED BY <1>7, <3>1, <3>2 DEF SealStep
  <2> QED BY <2>1, ValidQuiet
<1>8. CASE Environment
  <2>1. /\ UNCHANGED <<pc, loopVars>>
        /\ MaxExternal = 0 => values' = values
    <3>1. CASE Expire
      BY <3>1 DEF Expire
    <3>2. ASSUME NEW k \in Keys, NEW s \in States, ExternalCommit(k, s)
          PROVE  UNCHANGED <<pc, loopVars>> /\ MaxExternal # 0
      BY <3>2 DEF ExternalCommit, TypeOK
    <3> QED BY <1>8, <3>1, <3>2 DEF Environment
  <2> QED BY <2>1, ValidFrame
<1>9. CASE UNCHANGED vars \/ Finished
  <2>1. UNCHANGED <<pc, loopVars, values>>
    BY <1>9 DEF Finished
  <2> QED BY <2>1, ValidFrame
<1> QED
  BY <1>1, <1>2, <1>3, <1>4, <1>5, <1>6, <1>7, <1>8, <1>9 DEF Next, Run

(* The committed state, and everything a solve-local cache holds, has      *)
(* passed oracle.validate.                                                 *)
THEOREM ValidatedTheorem == Spec => []ValidatedOnly
<1>1. Init => ValidInv
  BY ValidInit
<1>2. TypeOK /\ ValidInv /\ [Next]_vars => ValidInv'
  BY ValidStep
<1>3. ValidInv => ValidatedOnly
  BY DEF ValidInv
<1> QED
  BY <1>1, <1>2, <1>3, TypeCorrect, PTL DEF Spec

-----------------------------------------------------------------------------
(* Waste: the T4 bounds of _record_waste_audit.                            *)

(* The dearest miss of a round, which its window of work is counted in.    *)
LEMMA DearestMiss ==
  ASSUME admitted \in SUBSET Keys, Missing # {}
  PROVE  MaxRequest \in Nat /\ \A k \in Missing : Work[{k}] <= MaxRequest
<1> DEFINE S == {Work[{k}] : k \in Missing}
<1>1. Missing \in SUBSET Keys /\ Work[Missing] \in Nat
  BY MissingType
<1>2. \A k \in Missing : Work[{k}] \in Nat /\ Work[{k}] <= Work[Missing]
  <2> TAKE k \in Missing
  <2>1. {k} \in SUBSET Missing
    OBVIOUS
  <2> QED BY <1>1, <2>1, WorkMonotone
<1>3. S \in SUBSET Nat /\ S # {} /\ \A x \in S : x <= Work[Missing]
  BY <1>2
<1>4. MaxRequest = Max(S)
  BY DEF MaxRequest
<1> HIDE DEF S
<1>5. Max(S) \in S /\ \A y \in S : y <= Max(S)
  BY <1>1, <1>3, GreatestElement
<1> QED BY <1>3, <1>4, <1>5 DEF S

(* A set of misses costs at most its size times the dearest of them.       *)
LEMMA WorkOfWindow ==
  ASSUME admitted \in SUBSET Keys, Missing # {}, NEW T \in SUBSET Missing
  PROVE  Cardinality(T) \in Nat /\ Work[T] <= Cardinality(T) * MaxRequest
<1>1. T \in SUBSET Keys /\ IsFiniteSet(Keys)
  BY MissingType, ConfigAssumption
<1>2. MaxRequest \in Nat /\ \A k \in T : Work[{k}] <= MaxRequest
  BY DearestMiss
<1> QED BY <1>1, <1>2, WorkAssumption, AdditiveBound

(* The mark of a round is the ledger before its evaluation, which starts   *)
(* all the work the round misses, or aborts it.                            *)
RoundInv ==
  /\ pc \in {"start", "evaluate"} => started = mark.started
  /\ pc \in {"check", "decide", "commit", "verify"} =>
       started = mark.started + Work[Missing]
  /\ Limited /\ pc \in {"start", "evaluate", "check", "decide", "commit", "verify"} =>
       Work[Missing] <= mark.remaining

WasteInv == RoundInv /\ WasteWithinBound

LEMMA WasteInit == Init => WasteInv
BY DEF Init, WasteInv, RoundInv, WasteWithinBound, NoAudit

(* An audit stays within its bound when the work it counts as discarded is *)
(* that of some misses, and the work it counts as running that of fewer    *)
(* than the submission capacity.                                           *)
LEMMA AuditWithinBound ==
  ASSUME TypeOK, WasteWithinBound, NEW d \in Nat, NEW p \in Nat, NEW c \in Nat,
         Audit(d, p, c), d <= Work[Missing],
         Limited => Work[Missing] <= mark.remaining,
         Limited /\ Missing # {} => p <= c /\ p <= Work[Missing]
  PROVE  WasteWithinBound'
<1>1. CASE ~Limited \/ Missing = {}
  BY <1>1 DEF Audit, WasteWithinBound
<1>2. CASE Limited /\ Missing # {}
  <2> DEFINE w == Cardinality(Missing) * MaxRequest
  <2>1. Work[Missing] <= w /\ w \in Nat /\ Work[Missing] \in Nat
    <3>1. admitted \in SUBSET Keys
      BY DEF TypeOK
    <3>2. Cardinality(Missing) \in Nat /\ Work[Missing] <= w
      BY <3>1, <1>2, WorkOfWindow
    <3>3. MaxRequest \in Nat
      BY <3>1, <1>2, DearestMiss
    <3> QED BY <3>1, <3>2, <3>3, MissingType, ProductGrows
  <2>2. audit' = [bound |-> TRUE, discarded |-> d, post |-> p,
                  limit |-> [discarded |-> Minimum(mark.remaining, w),
                             post |-> Minimum(c, w)]]
    BY <1>2 DEF Audit, BoundedWaste
  <2>3. mark.remaining \in Int
    BY DEF TypeOK
  <2> HIDE DEF w
  <2>4. d <= Minimum(mark.remaining, w) /\ p <= Minimum(c, w)
    BY <1>2, <2>1, <2>3 DEF Minimum
  <2> QED BY <2>2, <2>4 DEF WasteWithinBound
<1> QED BY <1>1, <1>2

(* Ending a round whose evaluation is over, or malformed: it discards what *)
(* the round started, and nothing is still running.                        *)
LEMMA EndWithinBound ==
  ASSUME TypeOK, WasteInv, NEW n \in Nat, Audit(n - mark.started, 0, 0),
         n = mark.started + Work[Missing],
         Limited => Work[Missing] <= mark.remaining
  PROVE  WasteWithinBound'
<1>1. Work[Missing] \in Nat /\ mark.started \in Nat
  BY MissingType DEF TypeOK
<1>2. n - mark.started = Work[Missing]
  BY <1>1
<1>3. Audit(Work[Missing], 0, 0)
  BY <1>2
<1> QED BY <1>1, <1>3, AuditWithinBound DEF WasteInv

LEMMA FailWithinBound ==
  ASSUME TypeOK, WasteInv, pc \in {"check", "decide", "commit", "verify"},
         Audit(started - mark.started, 0, 0)
  PROVE  WasteWithinBound'
<1>1. /\ started \in Nat /\ started = mark.started + Work[Missing]
      /\ Limited => Work[Missing] <= mark.remaining
  BY DEF TypeOK, WasteInv, RoundInv
<1> QED BY <1>1, EndWithinBound

(* An aborted evaluation: what it had started is discarded, and what was   *)
(* unfinished is within the submission capacity of the mode.               *)
LEMMA AbortWithinBound ==
  ASSUME TypeOK, WasteInv, NEW submitted \in SUBSET Missing,
         NEW unfinished \in SUBSET submitted,
         NEW cause \in {"timeout", "worker", "error"},
         EvaluateAborts(submitted, unfinished, cause)
  PROVE  WasteWithinBound'
<1>1. /\ Missing \in SUBSET Keys /\ Work[Missing] \in Nat
      /\ admitted \in SUBSET Keys
  BY MissingType DEF TypeOK
<1>2. submitted # {} /\ Missing # {} /\ unfinished \in SUBSET Missing
  BY DEF EvaluateAborts
<1>3. /\ Work[submitted] \in Nat /\ Work[submitted] <= Work[Missing]
      /\ Work[unfinished] \in Nat /\ Work[unfinished] <= Work[Missing]
  BY <1>1, <1>2, WorkMonotone
<1>4. Audit(Work[submitted], Work[unfinished], Capacity)
  BY DEF EvaluateAborts
<1>5. Limited => Work[Missing] <= mark.remaining
  BY DEF EvaluateAborts, WasteInv, RoundInv
<1>6. Capacity \in Nat /\ Work[unfinished] <= Capacity
  <2>1. CASE Mode = "serial"
    <3>1. unfinished = {} /\ Capacity = 0
      BY <2>1 DEF EvaluateAborts, Capacity
    <3> QED BY <3>1, WorkAssumption
  <2>2. CASE Mode = "barrier"
    BY <1>1, <1>3, <2>2 DEF Capacity
  <2>3. CASE Mode = "ordered"
    <3> DEFINE u == Cardinality(unfinished)  m == Cardinality(Missing)
               w == Minimum(Width, m)
    <3>1. u \in Nat /\ Work[unfinished] <= u * MaxRequest
      BY <1>1, <1>2, WorkOfWindow
    <3>2. m \in Nat /\ u <= m
      BY <1>1, <1>2, ConfigAssumption, FS_Subset, FS_CardinalityType
    <3>3. u < Width /\ Width \in Nat
      BY <2>3, ConfigAssumption DEF EvaluateAborts
    <3>4. MaxRequest \in Nat
      BY <1>1, <1>2, DearestMiss
    <3>5. Capacity = w * MaxRequest
      BY <2>3 DEF Capacity
    <3> HIDE DEF u, m
    <3>6. w \in Nat /\ u <= w
      BY <3>1, <3>2, <3>3 DEF Minimum
    <3> HIDE DEF w
    <3>7. u * MaxRequest \in Nat /\ w * MaxRequest \in Nat
          /\ u * MaxRequest <= w * MaxRequest
      BY <3>1, <3>4, <3>6, ProductGrows
    <3> QED BY <3>1, <3>5, <3>7, <1>3
  <2> QED BY <2>1, <2>2, <2>3, ConfigAssumption
<1> QED BY <1>3, <1>4, <1>5, <1>6, AuditWithinBound DEF WasteInv

(* A step out of the evaluation, or before it, that audits nothing.        *)
LEMMA WasteQuiet ==
  ASSUME WasteInv, audit' = audit,
         pc' \notin {"start", "evaluate", "check", "decide", "commit", "verify"}
  PROVE  WasteInv'
BY DEF WasteInv, RoundInv, WasteWithinBound

LEMMA WasteEnds ==
  ASSUME WasteWithinBound',
         pc' \notin {"start", "evaluate", "check", "decide", "commit", "verify"}
  PROVE  WasteInv'
BY DEF WasteInv, RoundInv

(* A step within the second half of a round that audits nothing.           *)
LEMMA WasteFrame ==
  ASSUME WasteInv, UNCHANGED <<audit, started, mark, admitted, hits>>,
         \/ pc' = pc
         \/ /\ pc \in {"check", "decide", "commit", "verify"}
            /\ pc' \in {"check", "decide", "commit", "verify"}
         \/ pc = "start" /\ pc' = "evaluate"
  PROVE  WasteInv'
<1>1. Missing' = Missing
  BY MissingFrame
<1> QED BY <1>1 DEF WasteInv, RoundInv, WasteWithinBound, Limited

(* Each audit of a round stays within the bound recorded with it.          *)
LEMMA WasteStep ==
  ASSUME ControlInv, WasteInv, [Next]_vars
  PROVE  WasteInv'
<1>t. TypeOK /\ SealInv /\ started \in Nat /\ reserved \in Nat /\ Limit \in Nat
  BY ConfigAssumption DEF ControlInv, TypeOK
<1>m. Missing \in SUBSET Keys /\ Work[Missing] \in Nat
  BY <1>t, MissingType DEF TypeOK
<1> USE DEF vars, loopVars, storeVars, cacheTxn, exitVars, budgetVars,
            LoopUnchanged, SealUnchanged, Leave, CloseTxn, EndRound, AbortRound
<1>1. CASE Round
  <2>1. audit' = audit /\ pc' \in {"seal", "done", "begin"}
    BY <1>1 DEF Round, StopMaxRounds, StopDeadline, ProposeNothing,
                ProposeRaises, NothingAdmissible, Admit
  <2> QED BY <2>1, WasteQuiet
<1>2. CASE Prepare
  <2>1. CASE Reserve
    <3>1. /\ UNCHANGED <<audit, started, admitted, hits>> /\ pc' = "start"
          /\ mark' = [remaining |-> Remaining, started |-> started]
          /\ Limited => Work[Missing] <= Remaining
      BY <2>1 DEF Reserve
    <3>2. Missing' = Missing
      BY <3>1, MissingFrame
    <3> QED BY <3>1, <3>2 DEF WasteInv, RoundInv, WasteWithinBound, Limited
  <2>2. CASE BeginRaises \/ Begin \/ LookupRaises \/ Lookup \/ WorkUnitsRaise
             \/ LookupStale \/ ReserveRefused
    <3>1. audit' = audit /\ pc' \in {"seal", "lookup", "reserve"}
      BY <2>2 DEF BeginRaises, Begin, LookupRaises, Lookup, WorkUnitsRaise,
                  LookupStale, ReserveRefused
    <3> QED BY <3>1, WasteQuiet
  <2> QED BY <1>2, <2>1, <2>2 DEF Prepare
<1>3. CASE EvaluateStep
  <2>1. CASE StartEvaluation
    <3>1. /\ UNCHANGED <<audit, started, mark, admitted, hits>> /\ pc = "start"
          /\ pc' = IF Missing = {} THEN "check" ELSE "evaluate"
      BY <2>1 DEF StartEvaluation
    <3>2. CASE Missing = {}
      <4>1. Work[Missing] = 0 /\ mark.started \in Nat
        BY <1>t, <3>2, WorkAssumption DEF TypeOK
      <4>2. Missing' = Missing
        BY <3>1, MissingFrame
      <4> QED BY <3>1, <3>2, <4>1, <4>2
              DEF WasteInv, RoundInv, WasteWithinBound, Limited
    <3>3. CASE Missing # {}
      BY <3>1, <3>3, WasteFrame
    <3> QED BY <3>2, <3>3
  <2>2. CASE Evaluate
    <3>1. /\ UNCHANGED <<audit, mark, admitted, hits>>
          /\ started' = started + Work[Missing]
          /\ pc = "evaluate" /\ pc' = "check"
      BY <2>2 DEF Evaluate, StartWork
    <3>2. Missing' = Missing
      BY <3>1, MissingFrame
    <3> QED BY <3>1, <3>2 DEF WasteInv, RoundInv, WasteWithinBound, Limited
  <2>3. CASE EvaluateMalformed
    <3> DEFINE n == started + Work[Missing]
    <3>1. pc = "evaluate" /\ OuterHandler(n)
      BY <2>3 DEF EvaluateMalformed
    <3>2. /\ started = mark.started
          /\ Limited => Work[Missing] <= mark.remaining
      BY <3>1 DEF WasteInv, RoundInv
    <3>3. n \in Nat /\ n = mark.started + Work[Missing]
      BY <1>t, <1>m, <3>2
    <3> HIDE DEF n
    <3>4. Audit(n - mark.started, 0, 0) /\ pc' = "seal"
      BY <3>1 DEF OuterHandler
    <3>5. WasteWithinBound'
      BY <1>t, <3>2, <3>3, <3>4, EndWithinBound
    <3> QED BY <3>4, <3>5, WasteEnds
  <2>4. ASSUME NEW submitted \in SUBSET Missing,
               NEW unfinished \in SUBSET submitted,
               NEW cause \in {"timeout", "worker", "error"},
               EvaluateAborts(submitted, unfinished, cause)
        PROVE  WasteInv'
    <3>1. WasteWithinBound'
      BY <1>t, <2>4, AbortWithinBound
    <3>2. pc' = "seal"
      BY <2>4 DEF EvaluateAborts
    <3> QED BY <3>1, <3>2, WasteEnds
  <2> QED BY <1>3, <2>1, <2>2, <2>3, <2>4 DEF EvaluateStep
<1>4. CASE ResolveStep
  <2>1. CASE Validate \/ \E s \in States : Decide(s)
    <3>1. /\ UNCHANGED <<audit, started, mark, admitted, hits>>
          /\ \/ pc = "check" /\ pc' = "decide"
             \/ pc = "decide" /\ pc' = "commit"
      BY <2>1 DEF Validate, Decide
    <3> QED BY <3>1, WasteFrame
  <2>2. CASE ValidateRaises \/ DecideRaises \/ DeadlineAfterEvaluation
             \/ ValidationFails
    <3>1. /\ pc \in {"check", "decide"} /\ pc' = "seal"
          /\ Audit(started - mark.started, 0, 0)
      BY <2>2 DEF ValidateRaises, DecideRaises, DeadlineAfterEvaluation,
                  ValidationFails, FailRound, OuterHandler
    <3> QED BY <1>t, <3>1, FailWithinBound, WasteEnds
  <2> QED BY <1>4, <2>1, <2>2 DEF ResolveStep
<1>5. CASE CommitStep
  <2>1. CASE \/ \E fault \in {"none"} \cup (Faults \cap {"malformed", "leaky"}) :
                  CommitPublishes(fault)
             \/ \E fault \in Faults \cap {"forged", "swallowed"} :
                  CommitForged(fault)
    <3>1. /\ UNCHANGED <<audit, started, mark, admitted, hits>>
          /\ pc = "commit" /\ pc' = "verify"
      BY <2>1 DEF CommitPublishes, CommitForged
    <3> QED BY <3>1, WasteFrame
  <2>2. CASE CommitStale \/ CommitCallbackFails \/ CommitRaises
    <3>1. /\ pc = "commit" /\ pc' = "seal"
          /\ Audit(started - mark.started, 0, 0)
      BY <2>2 DEF CommitStale, CommitCallbackFails, CommitRaises, FailRound,
                  OuterHandler
    <3> QED BY <1>t, <3>1, FailWithinBound, WasteEnds
  <2> QED BY <1>5, <2>1, <2>2 DEF CommitStep
<1>6. CASE VerifyStep
  <2>1. CASE VerifyCommit \/ VerifyPublished
    <3>1. audit' = audit /\ pc' \in {"loop", "seal"}
      BY <2>1 DEF VerifyCommit, VerifyPublished
    <3> QED BY <3>1, WasteQuiet
  <2>2. CASE VerifyUnknown \/ VerifyFails
    <3>1. /\ pc = "verify" /\ pc' = "seal"
          /\ Audit(started - mark.started, 0, 0)
      BY <2>2 DEF VerifyUnknown, VerifyFails, OuterHandler
    <3> QED BY <1>t, <3>1, FailWithinBound, WasteEnds
  <2> QED BY <1>6, <2>1, <2>2 DEF VerifyStep
<1>7. CASE SealStep
  <2>1. audit' = audit /\ pc' = "done"
    <3>1. CASE Seal
      BY <3>1 DEF Seal
    <3>2. ASSUME NEW delivered \in {0, 1}, SinkRaises(delivered)
          PROVE  audit' = audit /\ pc' = "done"
      <4>1. ~HandlerAborts
        BY <1>t, <3>2 DEF SinkRaises, HandlerAborts, SealInv
      <4> QED BY <3>2, <4>1 DEF SinkRaises
    <3> QED BY <1>7, <3>1, <3>2 DEF SealStep
  <2> QED BY <2>1, WasteQuiet
<1>8. CASE Environment
  <2>1. UNCHANGED <<pc, audit, started, mark, admitted, hits>>
    BY <1>8 DEF Environment, Expire, ExternalCommit
  <2> QED BY <2>1, WasteFrame
<1>9. CASE UNCHANGED vars \/ Finished
  <2>1. UNCHANGED <<pc, audit, started, mark, admitted, hits>>
    BY <1>9 DEF Finished
  <2> QED BY <2>1, WasteFrame
<1> QED
  BY <1>1, <1>2, <1>3, <1>4, <1>5, <1>6, <1>7, <1>8, <1>9 DEF Next, Run

(* audit_waste never has cause to raise WasteBoundViolation: what a failed *)
(* round discards, and what still runs when it fails, are within the T4    *)
(* bounds recorded with them, in every mode and at every width.            *)
THEOREM WasteTheorem == Spec => []WasteWithinBound
<1>1. Init => WasteInv
  BY WasteInit
<1>2. ControlInv /\ WasteInv /\ [Next]_vars => WasteInv'
  BY WasteStep
<1>3. WasteInv => WasteWithinBound
  BY DEF WasteInv
<1> QED
  BY <1>1, <1>2, <1>3, Control, PTL DEF Spec

-----------------------------------------------------------------------------
(* The review of a sealed trace.  The replay is a recursive function of    *)
(* the number of events taken; it exists because each longer replay is     *)
(* made from the one before it, and a replay of a longer trace begins with *)
(* the replay of the shorter one.                                          *)

(* What the replay holds after n events, from what it held before.         *)
AfterEvents(first, events, r, n) ==
  IF n = 0 THEN Review!ReplayInit(first)
  ELSE Review!ReplayEvent(r[n - 1], events[n])

LEMMA ReplayExists ==
  ASSUME NEW first, NEW events
  PROVE  \A m \in Nat : \E r : r = [n \in 0..m |-> AfterEvents(first, events, r, n)]
<1> DEFINE S == {m \in Nat : \E r : r = [n \in 0..m |-> AfterEvents(first, events, r, n)]}
<1>1. 0 \in S
  <2> DEFINE r == [n \in 0..0 |-> Review!ReplayInit(first)]
  <2>1. r = [n \in 0..0 |-> AfterEvents(first, events, r, n)]
    BY DEF AfterEvents
  <2> HIDE DEF r
  <2> QED BY <2>1
<1>2. ASSUME NEW m \in Nat, m \in S
      PROVE  m + 1 \in S
  <2>1. PICK f : f = [n \in 0..m |-> AfterEvents(first, events, f, n)]
    BY <1>2
  <2> DEFINE g == [n \in 0..(m + 1) |->
                     IF n = m + 1 THEN AfterEvents(first, events, f, n) ELSE f[n]]
  <2>2. \A n \in 0..(m + 1) : g[n] = AfterEvents(first, events, g, n)
    <3> TAKE n \in 0..(m + 1)
    <3>1. CASE n = 0
      <4>1. g[n] = f[0] /\ f[0] = AfterEvents(first, events, f, 0)
        BY <2>1, <3>1
      <4> QED BY <4>1, <3>1 DEF AfterEvents
    <3>2. CASE n # 0
      <4>1. n - 1 \in 0..m /\ g[n - 1] = f[n - 1]
        BY <3>2
      <4>2. g[n] = AfterEvents(first, events, f, n)
        <5>1. CASE n = m + 1
          BY <5>1
        <5>2. CASE n # m + 1
          <6>1. n \in 0..m /\ g[n] = f[n]
            BY <5>2
          <6> HIDE DEF g
          <6> QED BY <6>1, <2>1
        <5> QED BY <5>1, <5>2
      <4> HIDE DEF g
      <4> QED BY <4>1, <4>2, <3>2 DEF AfterEvents
    <3> QED BY <3>1, <3>2
  <2>3. g = [n \in 0..(m + 1) |-> g[n]]
    OBVIOUS
  <2> HIDE DEF g
  <2>4. g = [n \in 0..(m + 1) |-> AfterEvents(first, events, g, n)]
    BY <2>2, <2>3
  <2> QED BY <2>4
<1> HIDE DEF S
<1>3. \A m \in Nat : m \in S
  BY <1>1, <1>2, EveryNatural
<1> QED BY <1>3 DEF S

LEMMA ReplayStatesAre ==
  ASSUME NEW first, NEW events, Len(events) \in Nat
  PROVE  LET r == Review!ReplayStates(first, events) IN
         r = [n \in 0..Len(events) |-> AfterEvents(first, events, r, n)]
<1>1. \E r : r = [n \in 0..Len(events) |-> AfterEvents(first, events, r, n)]
  BY ReplayExists
<1> QED BY <1>1 DEF Review!ReplayStates, AfterEvents
(* The replay of the trace so far.                                         *)
Seen(events) == Review!ReplayStates(InitState, events)[Len(events)]

Phases == {"PREPARED", "RESERVED", "EVALUATING", "VALIDATED"} \cup Terminal

(* The events a run appends to its trace, by their fields.                 *)
TraceEvents ==
  [event : {"candidate_screening"}, admitted_count : Nat]
  \cup [event : {"round_terminated"}]
  \cup [event : {"candidate_transaction"}, txn : Nat, phase : Phases,
        snapshot : States, keys : SUBSET Keys]
  \cup [event : {"candidate_transaction"}, txn : Nat, phase : Phases,
        snapshot : States, keys : SUBSET Keys, state_digest : States,
        started_work : Nat, cache_generation : Nat]
  \cup [event : {"candidate_transaction"}, txn : Nat, phase : Phases,
        snapshot : States, keys : SUBSET Keys, cache_outcome : {"unknown"}]

PhaseTables == UNION {[D -> Phases] : D \in SUBSET Nat}

ReplayType ==
  [ok : BOOLEAN, visible : States, generation : Nat, started : Nat,
   phases : PhaseTables, keys : SUBSET Keys, active : Nat \cup {-1},
   pending : Nat \cup {-1}, committed : Nat, aborted : Nat, interrupted : Nat,
   proven : BOOLEAN]

Uncommitted == pc \in {"begin", "lookup", "reserve", "start", "evaluate", "check",
                       "decide", "commit", "verify"}

(* Over a store nobody else writes to the generation counts the rounds.    *)
GenerationInv ==
  /\ ext <= MaxExternal
  /\ ext = 0 =>
       /\ pc = "loop" \/ (Uncommitted /\ pc # "verify") => generation = round
       /\ Uncommitted /\ pc # "begin" => expected = round

Agrees(r) ==
  /\ r.ok /\ r.visible = state /\ r.pending = -1
  /\ r.generation = CommittedRounds /\ r.committed = CommittedRounds
  /\ r.started <= started
  /\ exit.reason = "cache_outcome_unknown" => ~r.proven

Others(r, txns) ==
  \A t \in txns : t <= round /\ r.phases[t] \in Terminal

Stands(r) ==
  IF Uncommitted
  THEN /\ r.active = round /\ round \in DOMAIN r.phases
       /\ r.phases[round] = phase
       /\ r.keys = admitted /\ admitted # {}
       /\ Others(r, DOMAIN r.phases \ {round})
  ELSE /\ r.active = -1
       /\ Others(r, DOMAIN r.phases)
       /\ pc = "loop" => round \notin DOMAIN r.phases

(* The replay takes up an event where the events before it left it.        *)
LEMMA ReplayExtends ==
  ASSUME NEW E, NEW s \in Seq(E), NEW e \in E
  PROVE  Seen(Append(s, e)) = Review!ReplayEvent(Seen(s), e)
<1> DEFINE a == Append(s, e)
           r == Review!ReplayStates(InitState, s)
           q == Review!ReplayStates(InitState, a)
<1>1. /\ Len(s) \in Nat /\ Len(a) = Len(s) + 1 /\ a[Len(a)] = e
      /\ \A i \in 1..Len(s) : a[i] = s[i]
  OBVIOUS
<1> HIDE DEF a
<1>2. r = [n \in 0..Len(s) |-> AfterEvents(InitState, s, r, n)]
  BY <1>1, ReplayStatesAre
<1>3. q = [n \in 0..Len(a) |-> AfterEvents(InitState, a, q, n)]
  BY <1>1, ReplayStatesAre
<1> DEFINE S == {n \in Nat : n \in 0..Len(s) => q[n] = r[n]}
<1> HIDE DEF r, q
<1>4. 0 \in S
  BY <1>1, <1>2, <1>3 DEF AfterEvents
<1>5. ASSUME NEW n \in Nat, n \in S PROVE n + 1 \in S
  <2> SUFFICES ASSUME n + 1 \in 0..Len(s) PROVE q[n + 1] = r[n + 1]
    OBVIOUS
  <2>0. n + 1 \in 0..Len(s) /\ n + 1 \in 0..Len(a)
    BY <1>1
  <2>a. q[n + 1] = AfterEvents(InitState, a, q, n + 1)
    BY <1>3, <2>0, Zenon
  <2>1. q[n + 1] = AfterEvents(InitState, a, q, n + 1) /\ r[n + 1] = AfterEvents(InitState, s, r, n + 1)
    BY <1>2, <2>0, <2>a, Zenon
  <2>2. q[n] = r[n] /\ a[n + 1] = s[n + 1]
    BY <1>1, <1>5
  <2>3. n + 1 # 0 /\ (n + 1) - 1 = n
    OBVIOUS
  <2> QED BY <2>1, <2>2, <2>3 DEF AfterEvents
<1>6. \A n \in Nat : n \in S
  <2> HIDE DEF S
  <2> QED BY <1>4, <1>5, EveryNatural
<1>7. q[Len(s)] = r[Len(s)]
  BY <1>1, <1>6
<1>8. q[Len(a)] = AfterEvents(InitState, a, q, Len(a))
  BY <1>1, <1>3
<1>9. Len(a) # 0 /\ Len(a) - 1 = Len(s)
  BY <1>1
<1>10. q[Len(a)] = Review!ReplayEvent(q[Len(s)], e)
  BY <1>1, <1>8, <1>9 DEF AfterEvents
<1> QED BY <1>7, <1>10 DEF Seen, a, q, r

(* Before the first event the reviewer holds what it starts from.          *)
LEMMA ReplayStarts == Seen(<<>>) = Review!ReplayInit(InitState)
<1>1. Len(<<>>) = 0
  OBVIOUS
<1> QED BY <1>1, ReplayStatesAre DEF Seen, AfterEvents

LEMMA CaseOfEvent ==
  ASSUME NEW r, NEW e, r.ok
  PROVE  /\ e.event = "candidate_screening" =>
              Review!ReplayEvent(r, e) = Review!ReplayScreening(r, e)
         /\ e.event = "round_terminated" =>
              Review!ReplayEvent(r, e) = Review!ReplayRoundTerminated(r, e)
         /\ e.event = "candidate_transaction" =>
              Review!ReplayEvent(r, e) = Review!ReplayTransaction(r, e)
BY DEF Review!ReplayEvent

(* What an event of a transaction changes in a replay that takes it.       *)
LEMMA TransactionReplayed ==
  ASSUME NEW r \in ReplayType, r.ok, NEW e,
         e.event = "candidate_transaction", e.txn \in Nat, e.phase \in Phases,
         e.keys \in SUBSET Keys, e.keys # {}, Review!OutcomeAllowed(e),
         IF e.txn \notin DOMAIN r.phases THEN Review!Opens(r, e)
         ELSE Review!Continues(r, e),
         IF e.phase = "COMMITTED"
         THEN /\ Review!AtomicCommit(r, e) /\ e.state_digest \in States
              /\ e.cache_generation \in Nat /\ e.started_work \in Nat
         ELSE ~Review!TouchesVisible(e)
  PROVE  LET q == Review!ReplayEvent(r, e) IN
         /\ q \in ReplayType /\ q.ok /\ q.keys = e.keys
         /\ q.pending = IF e.txn \notin DOMAIN r.phases THEN -1 ELSE r.pending
         /\ q.active = IF e.phase \in Terminal THEN -1 ELSE e.txn
         /\ q.visible = IF e.phase = "COMMITTED" THEN e.state_digest ELSE r.visible
         /\ q.generation = IF e.phase = "COMMITTED" THEN e.cache_generation
                           ELSE r.generation
         /\ q.started = IF e.phase = "COMMITTED" THEN e.started_work ELSE r.started
         /\ q.committed = IF e.phase = "COMMITTED" THEN r.committed + 1
                          ELSE r.committed
         /\ q.proven = (r.proven /\ ~Review!Has(e, "cache_outcome"))
         /\ DOMAIN q.phases = DOMAIN r.phases \cup {e.txn}
         /\ \A t \in DOMAIN r.phases \cup {e.txn} :
              q.phases[t] = IF t = e.txn THEN e.phase ELSE r.phases[t]
<1> DEFINE Table == [t \in DOMAIN r.phases \cup {e.txn} |->
                       IF t = e.txn THEN e.phase ELSE r.phases[t]]
           Commits == e.phase = "COMMITTED"
           Pending == IF e.txn \notin DOMAIN r.phases THEN -1 ELSE r.pending
           Active == IF e.phase \in Review!TerminalPhases THEN -1 ELSE e.txn
           Visible == IF Commits THEN e.state_digest ELSE r.visible
           Generation == IF Commits THEN e.cache_generation ELSE r.generation
           Started == IF Commits THEN e.started_work ELSE r.started
           Committed == IF Commits THEN r.committed + 1 ELSE r.committed
           Aborted == IF e.phase = "ABORTED" THEN r.aborted + 1 ELSE r.aborted
           Interrupted == IF e.phase = "INTERRUPTED" THEN r.interrupted + 1
                          ELSE r.interrupted
           Proven == r.proven /\ ~Review!Has(e, "cache_outcome")
           q == [r EXCEPT !.phases = Table, !.keys = e.keys, !.pending = Pending,
                          !.active = Active, !.visible = Visible,
                          !.generation = Generation, !.started = Started,
                          !.committed = Committed, !.aborted = Aborted,
                          !.interrupted = Interrupted, !.proven = Proven]
<1>1. Review!ReplayEvent(r, e) = q
  <2>1. Review!ReplayEvent(r, e) = Review!ReplayTransaction(r, e)
    BY CaseOfEvent
  <2>2. /\ e.phase = "COMMITTED" => Review!AtomicCommit(r, e)
        /\ e.phase # "COMMITTED" => ~Review!TouchesVisible(e)
        /\ e.txn \notin DOMAIN r.phases => Review!Opens(r, e)
        /\ e.txn \in DOMAIN r.phases => Review!Continues(r, e)
    OBVIOUS
  <2>3. Review!ReplayTransaction(r, e) = q
    BY <2>2, Zenon DEF Review!ReplayTransaction
  <2> QED BY <2>1, <2>3
<1>2. Terminal = Review!TerminalPhases
  BY DEF Terminal, Review!TerminalPhases
<1>3. /\ DOMAIN Table = DOMAIN r.phases \cup {e.txn}
      /\ \A t \in DOMAIN r.phases \cup {e.txn} :
           Table[t] = IF t = e.txn THEN e.phase ELSE r.phases[t]
      /\ Table \in PhaseTables
  <2>1. PICK D \in SUBSET Nat : r.phases \in [D -> Phases]
    BY DEF ReplayType, PhaseTables
  <2>2. Table \in [D \cup {e.txn} -> Phases] /\ D \cup {e.txn} \in SUBSET Nat
    BY <2>1
  <2>3. DOMAIN Table = DOMAIN r.phases \cup {e.txn}
        /\ \A t \in DOMAIN r.phases \cup {e.txn} :
             Table[t] = IF t = e.txn THEN e.phase ELSE r.phases[t]
    OBVIOUS
  <2> HIDE DEF Table
  <2> QED BY <2>2, <2>3 DEF PhaseTables
<1>4. Proven = (r.proven /\ ~Review!Has(e, "cache_outcome")) /\ Proven \in BOOLEAN
  <2>1. r.proven \in BOOLEAN
    BY DEF ReplayType
  <2> QED BY <2>1
<1>5. /\ Pending \in Nat \cup {-1} /\ Visible \in States
      /\ Generation \in Nat /\ Started \in Nat /\ Committed \in Nat
      /\ Active \in Nat \cup {-1} /\ Aborted \in Nat /\ Interrupted \in Nat
  BY DEF ReplayType
<1>6. Active = IF e.phase \in Terminal THEN -1 ELSE e.txn
  BY <1>2
<1> HIDE DEF Table, Pending, Active, Visible, Generation, Started, Committed,
             Aborted, Interrupted, Proven
<1>7. q \in ReplayType
  BY <1>3, <1>4, <1>5 DEF ReplayType
<1>8. /\ q.ok = r.ok /\ q.phases = Table /\ q.keys = e.keys
      /\ q.pending = Pending /\ q.active = Active /\ q.visible = Visible
      /\ q.generation = Generation /\ q.started = Started
      /\ q.committed = Committed /\ q.proven = Proven
  BY DEF ReplayType
<1> HIDE DEF q
<1>9. r.ok = TRUE
  BY DEF ReplayType
<1> QED
  BY <1>1, <1>3, <1>4, <1>6, <1>7, <1>8, <1>9, Zenon
     DEF Pending, Visible, Generation, Started, Committed

(* What a step does to the trace and to what a reviewer compares it with.  *)
Keeps == UNCHANGED <<round, state, admitted>> /\ started <= started'

Quiet ==
  /\ Keeps /\ UNCHANGED <<trace, phase>>
  /\ Uncommitted' <=> Uncommitted
  /\ pc' = "loop" => pc = "loop"
  /\ CommittedRounds' = CommittedRounds
  /\ exit'.reason = "cache_outcome_unknown" => exit.reason = "cache_outcome_unknown"

Moves(p) ==
  /\ Uncommitted /\ p \in Review!Transitions[phase] \ {"COMMITTED"}
  /\ Keeps /\ phase' = p
  /\ trace' = Append(trace, PhaseEvent(p, admitted))
  /\ IF p \in Terminal THEN pc' = "seal" ELSE Uncommitted'
  /\ exit'.reason \notin {"published", "cache_outcome_unknown"}

Commits ==
  /\ pc = "verify" /\ generation = expected + 1
  /\ trace' = Append(trace, CommittedEvent)
  /\ state' = next /\ started' = started /\ phase' = "COMMITTED"
  /\ \/ pc' = "loop" /\ round' = round + 1 /\ exit' = exit
     \/ pc' = "seal" /\ round' = round /\ exit'.reason = "published"

LosesTrack ==
  /\ pc = "verify" /\ Keeps /\ phase' = "INTERRUPTED"
  /\ trace' = Append(trace, UnknownEvent)
  /\ pc' = "seal" /\ exit'.reason = "cache_outcome_unknown"

Effect ==
  \/ Quiet \/ (\E p \in Phases : Moves(p)) \/ Commits \/ LosesTrack
  \/ NothingAdmissible \/ \E keys \in SUBSET Keys : Admit(keys)

(* From every phase inside a transaction the round may fail.               *)
LEMMA MayFail ==
  ASSUME TypeOK, PhaseInv, Uncommitted
  PROVE  /\ "ABORTED" \in Review!Transitions[phase]
         /\ "INTERRUPTED" \in Review!Transitions[phase]
         /\ phase \notin Terminal
BY DEF PhaseInv, Uncommitted, Review!Transitions, Terminal

LEMMA EndMoves ==
  ASSUME TypeOK, PhaseInv, Uncommitted, Keeps,
         \/ \E p \in {"ABORTED", "INTERRUPTED"}, g \in BOOLEAN,
               reason \in Reasons \ {"published", "cache_outcome_unknown"} :
              EndRound(p, reason, g)
         \/ \E g \in BOOLEAN : AbortRound(g)
  PROVE  Effect
<1>1. \A p \in {"ABORTED", "INTERRUPTED"} :
        Transition(p) /\ pc' = "seal"
        /\ exit'.reason \notin {"published", "cache_outcome_unknown"} => Moves(p)
  BY MayFail DEF Moves, Transition, Terminal
<1>2. CASE \E p \in {"ABORTED", "INTERRUPTED"}, g \in BOOLEAN,
               reason \in Reasons \ {"published", "cache_outcome_unknown"} :
              EndRound(p, reason, g)
  <2>1. PICK p \in {"ABORTED", "INTERRUPTED"}, g \in BOOLEAN,
               reason \in Reasons \ {"published", "cache_outcome_unknown"} :
              EndRound(p, reason, g)
    BY <1>2
  <2>2. Moves(p)
    BY <1>1, <2>1 DEF EndRound, Leave
  <2> QED BY <2>2 DEF Effect, Phases, Terminal
<1>3. CASE \E g \in BOOLEAN : AbortRound(g)
  <2>1. PICK g \in BOOLEAN : AbortRound(g)
    BY <1>3
  <2>2. Moves("ABORTED")
    BY <1>1, <2>1 DEF AbortRound, Leave
  <2> QED BY <2>2 DEF Effect, Phases, Terminal
<1> QED BY <1>2, <1>3

LEMMA HandlerEnds ==
  ASSUME TypeOK, PhaseInv, Uncommitted, Keeps, NEW n, OuterHandler(n)
  PROVE  Effect
BY EndMoves DEF OuterHandler

LEMMA FailEnds ==
  ASSUME TypeOK, PhaseInv, Uncommitted,
         NEW p \in {"ABORTED", "INTERRUPTED"},
         NEW reason \in Reasons \ {"published", "cache_outcome_unknown"},
         FailRound(p, reason)
  PROVE  Effect
<1>1. Keeps
  BY DEF FailRound, Keeps, loopVars, TypeOK
<1>2. CASE OuterHandler(started)
  BY <1>1, <1>2, HandlerEnds
<1>3. CASE EndRound(p, reason, TRUE)
  BY <1>1, <1>3, EndMoves
<1> QED BY <1>2, <1>3 DEF FailRound

LEMMA EffectStep ==
  TypeOK /\ PhaseInv /\ SealInv /\ [Next]_vars => Effect
<1> SUFFICES ASSUME TypeOK, PhaseInv, SealInv, [Next]_vars
             PROVE  Effect
  OBVIOUS
<1>m. Missing \in SUBSET Keys /\ Work[Missing] \in Nat
  BY MissingType DEF TypeOK
<1>t. started \in Nat /\ round \in Nat
  BY DEF TypeOK
<1>r. {"stale_snapshot", "fixed_work_exhausted", "worker_failure", "deadline",
       "validation_failure", "cache_write_failure"}
      \subseteq Reasons \ {"published", "cache_outcome_unknown"}
  BY DEF Reasons
<1>e. pc \notin {"seal", "done"} => exit = NoExit /\ exit.reason = "none"
  BY DEF SealInv, NoExit
<1> USE DEF loopVars, LoopUnchanged, SealUnchanged, traceVars, exitVars, budgetVars
<1>1. CASE Round
  <2> USE <1>t, <1>e DEF Quiet, Keeps, Uncommitted, CommittedRounds, Leave
  <2>1. CASE StopMaxRounds
    BY <2>1 DEF StopMaxRounds, Effect
  <2>2. CASE StopDeadline
    BY <2>2 DEF StopDeadline, Effect
  <2>3. CASE ProposeNothing
    BY <2>3 DEF ProposeNothing, Effect
  <2>4. CASE ProposeRaises
    BY <2>4 DEF ProposeRaises, Effect
  <2> QED
    BY <1>1, <2>1, <2>2, <2>3, <2>4 DEF Round, Effect
<1>2. CASE Prepare
  <2>k. UNCHANGED <<round, state, admitted, started>>
        => Keeps
    BY <1>t DEF Keeps
  <2>1. CASE BeginRaises
    <3>1. AbortRound(FALSE) /\ Uncommitted /\ Keeps
      BY <2>1, <2>k DEF BeginRaises, Uncommitted
    <3> QED BY <3>1, EndMoves
  <2>2. CASE Begin
    BY <2>2, <2>k, <1>e DEF Begin, Effect, Quiet, Uncommitted, CommittedRounds
  <2>3. CASE LookupRaises
    <3>1. AbortRound(FALSE) /\ Uncommitted /\ Keeps
      BY <2>3, <2>k DEF LookupRaises, Uncommitted
    <3> QED BY <3>1, EndMoves
  <2>4. CASE Lookup
    BY <2>4, <2>k, <1>e DEF Lookup, Effect, Quiet, Uncommitted, CommittedRounds
  <2>5. CASE WorkUnitsRaise
    <3>1. AbortRound(FALSE) /\ Uncommitted /\ Keeps
      BY <2>5, <2>k DEF WorkUnitsRaise, Uncommitted
    <3> QED BY <3>1, EndMoves
  <2>6. CASE Reserve
    <3>1. "RESERVED" \in Review!Transitions[phase] \ {"COMMITTED"}
      BY <2>6 DEF Reserve, PhaseInv, Review!Transitions
    <3>2. Moves("RESERVED")
      BY <2>6, <2>k, <3>1, <1>e
         DEF Reserve, Moves, Transition, Uncommitted, Terminal
    <3> QED BY <3>2 DEF Effect, Phases
  <2>7. CASE LookupStale
    <3>1. Uncommitted /\ Keeps
      BY <2>7, <2>k DEF LookupStale, Uncommitted
    <3> QED BY <2>7, <3>1, <1>r, EndMoves DEF LookupStale
  <2>8. CASE ReserveRefused
    <3>1. Uncommitted /\ Keeps
      BY <2>8, <2>k DEF ReserveRefused, Uncommitted
    <3> QED BY <2>8, <3>1, <1>r, EndMoves DEF ReserveRefused
  <2> QED
    BY <1>2, <2>1, <2>2, <2>3, <2>4, <2>5, <2>6, <2>7, <2>8 DEF Prepare
<1>3. CASE EvaluateStep
  <2>1. CASE StartEvaluation
    <3>1. "EVALUATING" \in Review!Transitions[phase] \ {"COMMITTED"}
      BY <2>1 DEF StartEvaluation, PhaseInv, Review!Transitions
    <3>2. Moves("EVALUATING")
      BY <2>1, <3>1, <1>e, <1>t
         DEF StartEvaluation, Moves, Transition, Uncommitted, Terminal, Keeps
    <3> QED BY <3>2 DEF Effect, Phases
  <2>2. CASE Evaluate
    <3>1. Keeps
      BY <2>2, <1>m, <1>t DEF Evaluate, StartWork, Keeps
    <3> QED BY <2>2, <3>1, <1>e DEF Evaluate, Effect, Quiet, Uncommitted, CommittedRounds
  <2>3. CASE EvaluateMalformed
    <3>1. Uncommitted /\ Keeps
      BY <2>3, <1>m, <1>t DEF EvaluateMalformed, Uncommitted, Keeps
    <3> QED BY <2>3, <3>1, HandlerEnds DEF EvaluateMalformed
  <2>4. ASSUME NEW submitted \in SUBSET Missing,
             NEW unfinished \in SUBSET submitted,
             NEW cause \in {"timeout", "worker", "error"},
             EvaluateAborts(submitted, unfinished, cause)
       PROVE  Effect
    <3>1. Work[submitted] \in Nat
      BY <1>m, WorkMonotone
    <3>2. Uncommitted /\ Keeps
      BY <2>4, <3>1, <1>t DEF EvaluateAborts, Uncommitted, Keeps
    <3> QED BY <2>4, <3>2, <1>r, EndMoves DEF EvaluateAborts
  <2> QED
    BY <1>3, <2>1, <2>2, <2>3, <2>4 DEF EvaluateStep
<1>4. CASE ResolveStep
  <2>k. UNCHANGED <<round, state, admitted, started>> => Keeps
    BY <1>t DEF Keeps
  <2>1. CASE ValidateRaises
    <3>1. Uncommitted /\ Keeps
      BY <2>1, <2>k DEF ValidateRaises, Uncommitted
    <3> QED BY <2>1, <3>1, HandlerEnds DEF ValidateRaises
  <2>2. CASE Validate
    <3>1. "VALIDATED" \in Review!Transitions[phase] \ {"COMMITTED"}
      BY <2>2 DEF Validate, PhaseInv, Review!Transitions
    <3>2. Moves("VALIDATED")
      BY <2>2, <2>k, <3>1, <1>e
         DEF Validate, Moves, Transition, Uncommitted, Terminal
    <3> QED BY <3>2 DEF Effect, Phases
  <2>3. CASE DecideRaises
    <3>1. Uncommitted /\ Keeps
      BY <2>3, <2>k DEF DecideRaises, Uncommitted
    <3> QED BY <2>3, <3>1, HandlerEnds DEF DecideRaises
  <2>4. CASE DeadlineAfterEvaluation
    BY <2>4, <1>r, FailEnds DEF DeadlineAfterEvaluation, Uncommitted
  <2>5. CASE ValidationFails
    BY <2>5, <1>r, FailEnds DEF ValidationFails, Uncommitted
  <2>6. ASSUME NEW s \in States, Decide(s)
       PROVE  Effect
    BY <2>6, <2>k, <1>e DEF Decide, Effect, Quiet, Uncommitted, CommittedRounds
  <2> QED
    BY <1>4, <2>1, <2>2, <2>3, <2>4, <2>5, <2>6 DEF ResolveStep
<1>5. CASE CommitStep
  <2>k. UNCHANGED <<round, state, admitted, started>> => Keeps
    BY <1>t DEF Keeps
  <2>1. CASE CommitStale
    BY <2>1, <1>r, FailEnds DEF CommitStale, Uncommitted
  <2>2. CASE CommitCallbackFails
    BY <2>2, <1>r, FailEnds DEF CommitCallbackFails, Uncommitted
  <2>3. CASE CommitRaises
    <3>1. Uncommitted /\ Keeps
      BY <2>3, <2>k DEF CommitRaises, Uncommitted
    <3> QED BY <2>3, <3>1, HandlerEnds DEF CommitRaises
  <2>4. ASSUME NEW fault, CommitPublishes(fault)
       PROVE  Effect
    BY <2>4, <2>k, <1>e DEF CommitPublishes, Effect, Quiet, Uncommitted, CommittedRounds
  <2>5. ASSUME NEW fault, CommitForged(fault)
       PROVE  Effect
    BY <2>5, <2>k, <1>e DEF CommitForged, Effect, Quiet, Uncommitted, CommittedRounds
  <2> QED
    BY <1>5, <2>1, <2>2, <2>3, <2>4, <2>5 DEF CommitStep
<1>6. CASE VerifyStep
  <2>1. CASE VerifyCommit
    BY <2>1 DEF VerifyCommit, PublishState, SnapshotMatches, Effect, Commits
  <2>2. CASE VerifyPublished
    BY <2>2 DEF VerifyPublished, PublishState, SnapshotMatches, Effect, Commits, Leave
  <2>3. CASE VerifyUnknown
    BY <2>3, <1>t DEF VerifyUnknown, Effect, LosesTrack, Leave, Keeps
  <2>4. CASE VerifyFails
    <3>1. Uncommitted /\ Keeps
      BY <2>4, <1>t DEF VerifyFails, Uncommitted, Keeps
    <3> QED BY <2>4, <3>1, HandlerEnds DEF VerifyFails
  <2> QED
    BY <1>6, <2>1, <2>2, <2>3, <2>4 DEF VerifyStep
<1>7. CASE SealStep
  <2>1. CASE Seal
    BY <2>1, <1>t DEF Seal, Effect, Quiet, Keeps, Uncommitted, CommittedRounds
  <2>2. ASSUME NEW delivered \in {0, 1}, SinkRaises(delivered)
       PROVE  Effect
    <3>1. ~HandlerAborts
      BY <2>2 DEF SinkRaises, HandlerAborts, SealInv
    <3>2. /\ pc = "seal" /\ pc' = "done"
          /\ exit' = [exit EXCEPT !.kind = "raise"]
          /\ UNCHANGED <<round, state, admitted, started, trace, phase>>
      BY <2>2, <3>1 DEF SinkRaises
    <3>3. exit'.reason = exit.reason
      BY <3>2 DEF TypeOK
    <3> QED
      BY <3>2, <3>3, <1>t DEF Effect, Quiet, Keeps, Uncommitted, CommittedRounds
  <2> QED
    BY <1>7, <2>1, <2>2 DEF SealStep
<1>8. CASE Environment
  <2>1. CASE Expire
    BY <2>1, <1>t DEF Expire, Effect, Quiet, Keeps, Uncommitted, CommittedRounds
  <2>2. ASSUME NEW k \in Keys, NEW s \in States, ExternalCommit(k, s)
       PROVE  Effect
    BY <2>2, <1>t DEF ExternalCommit, Effect, Quiet, Keeps, Uncommitted, CommittedRounds
  <2> QED
    BY <1>8, <2>1, <2>2 DEF Environment
<1>9. CASE UNCHANGED vars \/ Finished
  BY <1>9, <1>t DEF vars, Finished, Effect, Quiet, Keeps, Uncommitted, CommittedRounds
<1> QED
  BY <1>1, <1>2, <1>3, <1>4, <1>5, <1>6, <1>7, <1>8, <1>9 DEF Next, Run

(* Every event a run appends has the fields of its kind.                   *)
LEMMA EventTypes ==
  ASSUME TypeOK
  PROVE  /\ \A n \in Nat : Screening(n) \in TraceEvents
         /\ RoundTerminated \in TraceEvents
         /\ \A p \in Phases, keys \in SUBSET Keys :
              PhaseEvent(p, keys) \in TraceEvents
         /\ CommittedEvent \in TraceEvents
         /\ UnknownEvent \in TraceEvents
<1> USE DEF TypeOK, TraceEvents, Phases, Terminal
<1>1. \A n \in Nat : Screening(n) \in TraceEvents
  BY DEF Screening
<1>2. RoundTerminated \in TraceEvents
  BY DEF RoundTerminated
<1>3. \A p \in Phases, keys \in SUBSET Keys : PhaseEvent(p, keys) \in TraceEvents
  BY DEF PhaseEvent
<1>4. CommittedEvent \in TraceEvents
  BY DEF CommittedEvent
<1>5. UnknownEvent \in TraceEvents
  BY DEF UnknownEvent
<1> QED BY <1>1, <1>2, <1>3, <1>4, <1>5

(* Two events appended at once are appended one after the other.           *)
LEMMA AppendTwo ==
  ASSUME NEW E, NEW s \in Seq(E), NEW d \in E, NEW e \in E
  PROVE  s \o <<d, e>> = Append(Append(s, d), e) /\ s \o <<d, e>> \in Seq(E)
OBVIOUS

LEMMA TraceStep ==
  TypeOK /\ trace \in Seq(TraceEvents) /\ Effect => trace' \in Seq(TraceEvents)
<1> SUFFICES ASSUME TypeOK, trace \in Seq(TraceEvents), Effect
             PROVE  trace' \in Seq(TraceEvents)
  OBVIOUS
<1>e. /\ \A n \in Nat : Screening(n) \in TraceEvents
      /\ RoundTerminated \in TraceEvents
      /\ \A p \in Phases, keys \in SUBSET Keys :
           PhaseEvent(p, keys) \in TraceEvents
      /\ CommittedEvent \in TraceEvents
      /\ UnknownEvent \in TraceEvents
  BY EventTypes
<1>a. admitted \in SUBSET Keys /\ "PREPARED" \in Phases
  BY DEF TypeOK, Phases
<1>1. CASE Quiet
  BY <1>1 DEF Quiet
<1>2. CASE \E p \in Phases : Moves(p)
  <2>1. PICK p \in Phases : trace' = Append(trace, PhaseEvent(p, admitted))
    BY <1>2 DEF Moves
  <2>2. PhaseEvent(p, admitted) \in TraceEvents
    BY <1>e, <1>a
  <2> QED BY <2>1, <2>2
<1>3. CASE Commits
  BY <1>3, <1>e DEF Commits
<1>4. CASE LosesTrack
  BY <1>4, <1>e DEF LosesTrack
<1>5. CASE NothingAdmissible
  <2>1. trace' = trace \o <<Screening(0), RoundTerminated>>
    BY <1>5 DEF NothingAdmissible
  <2> QED BY <2>1, <1>e, AppendTwo
<1>6. CASE \E keys \in SUBSET Keys : Admit(keys)
  <2>1. PICK keys \in SUBSET Keys : Admit(keys)
    BY <1>6
  <2>2. Cardinality(keys) \in Nat
    BY ConfigAssumption, FS_Subset, FS_CardinalityType
  <2>3. trace' = trace \o <<Screening(Cardinality(keys)), PhaseEvent("PREPARED", keys)>>
    BY <2>1 DEF Admit
  <2>4. /\ Screening(Cardinality(keys)) \in TraceEvents
        /\ PhaseEvent("PREPARED", keys) \in TraceEvents
    BY <1>e, <1>a, <2>2
  <2> QED BY <2>3, <2>4, AppendTwo
<1> QED BY <1>1, <1>2, <1>3, <1>4, <1>5, <1>6 DEF Effect

LEMMA GenerationStep ==
  TypeOK /\ GenerationInv /\ [Next]_vars => GenerationInv' /\ (ext' = 0 => ext = 0)
<1> SUFFICES ASSUME TypeOK, GenerationInv, [Next]_vars
             PROVE  GenerationInv' /\ (ext' = 0 => ext = 0)
  OBVIOUS
<1> DEFINE Goal == GenerationInv' /\ (ext' = 0 => ext = 0)
<1>t. /\ ext \in Nat /\ generation \in Nat /\ expected \in Nat
      /\ round \in Nat /\ MaxExternal \in Nat
  BY ConfigAssumption DEF TypeOK
<1> USE <1>t DEF GenerationInv, Uncommitted, vars, loopVars, storeVars, cacheTxn,
            LoopUnchanged, SealUnchanged, Leave, EndRound, AbortRound,
            CloseTxn, OuterHandler, FailRound
<1>1. CASE Round
  <2>1. ASSUME NEW keys \in SUBSET Keys, Admit(keys) PROVE Goal
    BY <2>1 DEF Admit
  <2>2. CASE StopMaxRounds
    BY <2>2 DEF StopMaxRounds
  <2>3. CASE StopDeadline
    BY <2>3 DEF StopDeadline
  <2>4. CASE ProposeNothing
    BY <2>4 DEF ProposeNothing
  <2>5. CASE ProposeRaises
    BY <2>5 DEF ProposeRaises
  <2>6. CASE NothingAdmissible
    BY <2>6 DEF NothingAdmissible
  <2> HIDE DEF Goal
  <2> QED BY <1>1, <2>1, <2>2, <2>3, <2>4, <2>5, <2>6 DEF Round, Goal
<1>2. CASE Prepare
  <2>1. CASE BeginRaises
    BY <2>1 DEF BeginRaises
  <2>2. CASE Begin
    BY <2>2 DEF Begin
  <2>3. CASE LookupRaises
    BY <2>3 DEF LookupRaises
  <2>4. CASE Lookup
    BY <2>4 DEF Lookup
  <2>5. CASE WorkUnitsRaise
    BY <2>5 DEF WorkUnitsRaise
  <2>6. CASE Reserve
    BY <2>6 DEF Reserve
  <2>7. CASE LookupStale
    BY <2>7 DEF LookupStale
  <2>8. CASE ReserveRefused
    BY <2>8 DEF ReserveRefused
  <2> QED
    BY <1>2, <2>1, <2>2, <2>3, <2>4, <2>5, <2>6, <2>7, <2>8 DEF Prepare
<1>3. CASE EvaluateStep
  <2>1. CASE StartEvaluation
    BY <2>1 DEF StartEvaluation
  <2>2. CASE Evaluate
    BY <2>2 DEF Evaluate
  <2>3. CASE EvaluateMalformed
    BY <2>3 DEF EvaluateMalformed
  <2>4. ASSUME NEW submitted, NEW unfinished, NEW cause,
             EvaluateAborts(submitted, unfinished, cause)
       PROVE  Goal
    BY <2>4 DEF EvaluateAborts
  <2> QED
    BY <1>3, <2>1, <2>2, <2>3, <2>4 DEF EvaluateStep
<1>4. CASE ResolveStep
  <2>1. CASE ValidateRaises
    BY <2>1 DEF ValidateRaises
  <2>2. CASE Validate
    BY <2>2 DEF Validate
  <2>3. CASE DecideRaises
    BY <2>3 DEF DecideRaises
  <2>4. CASE DeadlineAfterEvaluation
    BY <2>4 DEF DeadlineAfterEvaluation
  <2>5. CASE ValidationFails
    BY <2>5 DEF ValidationFails
  <2>6. ASSUME NEW s, Decide(s) PROVE Goal
    BY <2>6 DEF Decide
  <2> QED
    BY <1>4, <2>1, <2>2, <2>3, <2>4, <2>5, <2>6 DEF ResolveStep
<1>5. CASE CommitStep
  <2>1. CASE CommitStale
    BY <2>1 DEF CommitStale
  <2>2. CASE CommitCallbackFails
    BY <2>2 DEF CommitCallbackFails
  <2>3. CASE CommitRaises
    BY <2>3 DEF CommitRaises
  <2>4. ASSUME NEW fault, CommitPublishes(fault) PROVE Goal
    BY <2>4 DEF CommitPublishes
  <2>5. ASSUME NEW fault, CommitForged(fault) PROVE Goal
    BY <2>5 DEF CommitForged
  <2> QED
    BY <1>5, <2>1, <2>2, <2>3, <2>4, <2>5 DEF CommitStep
<1>6. CASE VerifyStep
  <2>1. CASE VerifyCommit
    BY <2>1 DEF VerifyCommit, SnapshotMatches
  <2>2. CASE VerifyPublished
    BY <2>2 DEF VerifyPublished
  <2>3. CASE VerifyUnknown
    BY <2>3 DEF VerifyUnknown
  <2>4. CASE VerifyFails
    BY <2>4 DEF VerifyFails
  <2> QED
    BY <1>6, <2>1, <2>2, <2>3, <2>4 DEF VerifyStep
<1>7. CASE SealStep
  <2>1. CASE Seal
    BY <2>1 DEF Seal
  <2>2. ASSUME NEW delivered, SinkRaises(delivered) PROVE Goal
    <3>1. pc' \in {"seal", "done"} /\ ext' = ext
      <4>1. CASE HandlerAborts
        BY <4>1, <2>2 DEF SinkRaises
      <4>2. CASE ~HandlerAborts
        BY <4>2, <2>2 DEF SinkRaises
      <4> QED BY <4>1, <4>2
    <3> QED BY <3>1
  <2> QED
    BY <1>7, <2>1, <2>2 DEF SealStep
<1>8. CASE Environment
  <2>1. CASE Expire
    BY <2>1 DEF Expire
  <2>2. ASSUME NEW k, NEW s, ExternalCommit(k, s) PROVE Goal
    BY <2>2 DEF ExternalCommit
  <2> QED
    BY <1>8, <2>1, <2>2 DEF Environment
<1>9. CASE UNCHANGED vars \/ Finished
  BY <1>9 DEF Finished
<1> QED
  BY <1>1, <1>2, <1>3, <1>4, <1>5, <1>6, <1>7, <1>8, <1>9 DEF Next, Run

(* A step that adds no event leaves the reviewer in agreement.             *)
LEMMA QuietAgrees ==
  ASSUME TypeOK, TypeOK', NEW r \in ReplayType, Agrees(r), Stands(r), Quiet
  PROVE  Agrees(r)' /\ Stands(r)'
<1>t. started \in Nat /\ started' \in Nat /\ started' >= started /\ r.started \in Nat
  BY DEF TypeOK, Quiet, Keeps, ReplayType
<1>1. Agrees(r)'
  BY <1>t DEF Agrees, Quiet, Keeps
<1>2. Stands(r)'
  BY DEF Stands, Quiet, Keeps, Others
<1> QED BY <1>1, <1>2

LEMMA MovesAgrees ==
  ASSUME TypeOK, TypeOK', SealInv, NEW r \in ReplayType, Agrees(r), Stands(r),
         NEW p \in Phases, Moves(p),
         NEW q, q = Review!ReplayEvent(r, PhaseEvent(p, admitted))
  PROVE  q \in ReplayType /\ Agrees(q)' /\ Stands(q)'
<1> DEFINE e == PhaseEvent(p, admitted)
<1>1. /\ e.event = "candidate_transaction" /\ e.txn = round /\ e.phase = p
      /\ e.snapshot = state /\ e.keys = admitted
      /\ DOMAIN e = {"event", "txn", "phase", "snapshot", "keys"}
  BY DEF PhaseEvent
<1>q. q = Review!ReplayEvent(r, e)
  OBVIOUS
<1> HIDE DEF e
<1>2. /\ Uncommitted /\ p \in Review!Transitions[phase] /\ p # "COMMITTED"
      /\ UNCHANGED <<round, state, admitted>> /\ phase' = p
      /\ exit = NoExit
  BY DEF Moves, Keeps, SealInv, Uncommitted
<1>3. /\ r.active = round /\ round \in DOMAIN r.phases /\ r.phases[round] = phase
      /\ r.keys = admitted /\ admitted # {} /\ Others(r, DOMAIN r.phases \ {round})
  BY <1>2 DEF Stands
<1>4. r.ok /\ r.visible = state /\ r.pending = -1
      /\ r.generation = CommittedRounds /\ r.committed = CommittedRounds
      /\ r.started <= started
  BY DEF Agrees
<1>5. Review!Continues(r, e)
  BY <1>1, <1>2, <1>3, <1>4 DEF Review!Continues
<1>6. Review!OutcomeAllowed(e) /\ ~Review!TouchesVisible(e)
      /\ ~Review!Has(e, "cache_outcome")
  BY <1>1 DEF Review!OutcomeAllowed, Review!TouchesVisible, Review!Has
<1>7. round \in Nat /\ admitted \in SUBSET Keys /\ started \in Nat
      /\ started' \in Nat
  BY DEF TypeOK
<1>8. /\ q \in ReplayType /\ q.ok /\ q.keys = admitted /\ q.pending = -1
      /\ q.active = IF p \in Terminal THEN -1 ELSE round
      /\ q.visible = r.visible /\ q.generation = r.generation
      /\ q.started = r.started /\ q.committed = r.committed
      /\ DOMAIN q.phases = DOMAIN r.phases \cup {round}
      /\ \A t \in DOMAIN r.phases \cup {round} :
           q.phases[t] = IF t = round THEN p ELSE r.phases[t]
  BY <1>1, <1>2, <1>3, <1>4, <1>5, <1>6, <1>7, <1>q, TransactionReplayed
<1>9. CommittedRounds' = CommittedRounds
  BY <1>2 DEF Moves, CommittedRounds, NoExit
<1>10. Agrees(q)'
  <2>1. q.started <= started' /\ exit'.reason # "cache_outcome_unknown"
    BY <1>4, <1>7, <1>8 DEF Moves, Keeps, ReplayType
  <2> QED BY <1>2, <1>4, <1>8, <1>9, <2>1 DEF Agrees
<1>11. Stands(q)'
  <2>1. DOMAIN q.phases = DOMAIN r.phases /\ q.phases[round] = p
        /\ \A t \in DOMAIN r.phases \ {round} : q.phases[t] = r.phases[t]
    BY <1>3, <1>8
  <2>2. Others(q, DOMAIN q.phases \ {round})
    BY <1>3, <2>1 DEF Others
  <2>3. CASE p \in Terminal
    <3>1. Others(q, DOMAIN q.phases)
      BY <2>1, <2>2, <2>3, <1>7 DEF Others
    <3>2. pc' = "seal" /\ ~Uncommitted'
      BY <2>3 DEF Moves, Uncommitted
    <3> QED BY <1>2, <1>8, <2>3, <3>1, <3>2 DEF Stands, Others
  <2>4. CASE p \notin Terminal
    <3>1. Uncommitted'
      BY <2>4 DEF Moves
    <3> QED BY <1>2, <1>3, <1>8, <2>1, <2>2, <2>4, <3>1 DEF Stands, Others
  <2> QED BY <2>3, <2>4
<1> QED BY <1>8, <1>10, <1>11

LEMMA CommitsAgrees ==
  ASSUME TypeOK, TypeOK', SealInv, PhaseInv, NEW r \in ReplayType, Agrees(r), Stands(r),
         Commits, expected = round,
         NEW q, q = Review!ReplayEvent(r, CommittedEvent)
  PROVE  q \in ReplayType /\ Agrees(q)' /\ Stands(q)'
<1> DEFINE e == CommittedEvent
<1>1. /\ e.event = "candidate_transaction" /\ e.txn = round /\ e.phase = "COMMITTED"
      /\ e.snapshot = state /\ e.keys = admitted
      /\ e.state_digest = next /\ e.started_work = started
      /\ e.cache_generation = expected + 1
      /\ DOMAIN e = {"event", "txn", "phase", "snapshot", "keys", "state_digest",
                     "started_work", "cache_generation"}
  BY DEF CommittedEvent
<1>q. q = Review!ReplayEvent(r, e)
  OBVIOUS
<1> HIDE DEF e
<1>2. Uncommitted /\ phase = "VALIDATED" /\ exit = NoExit /\ CommittedRounds = round
  BY DEF Commits, Uncommitted, PhaseInv, SealInv, CommittedRounds, NoExit, TypeOK
<1>3. /\ r.active = round /\ round \in DOMAIN r.phases /\ r.phases[round] = phase
      /\ r.keys = admitted /\ admitted # {} /\ Others(r, DOMAIN r.phases \ {round})
  BY <1>2 DEF Stands
<1>4. r.ok /\ r.visible = state /\ r.pending = -1
      /\ r.generation = round /\ r.committed = round
      /\ r.started <= started
  BY <1>2 DEF Agrees
<1>5. Review!Continues(r, e)
  BY <1>1, <1>2, <1>3, <1>4 DEF Review!Continues, Review!Transitions
<1>6. Review!OutcomeAllowed(e) /\ ~Review!Has(e, "cache_outcome")
      /\ Review!AtomicCommit(r, e)
  BY <1>1, <1>4 DEF Review!OutcomeAllowed, Review!AtomicCommit, Review!Has
<1>7. round \in Nat /\ admitted \in SUBSET Keys /\ started \in Nat /\ next \in States
      /\ "COMMITTED" \in Phases /\ "COMMITTED" \in Terminal
  BY DEF TypeOK, Phases, Terminal
<1>8. /\ q \in ReplayType /\ q.ok /\ q.pending = -1 /\ q.active = -1
      /\ q.visible = next /\ q.generation = round + 1
      /\ q.started = started /\ q.committed = round + 1
      /\ DOMAIN q.phases = DOMAIN r.phases \cup {round}
      /\ \A t \in DOMAIN r.phases \cup {round} :
           q.phases[t] = IF t = round THEN "COMMITTED" ELSE r.phases[t]
  <2>1. e.cache_generation \in Nat /\ e.cache_generation = round + 1
    BY <1>1, <1>7
  <2> QED BY <1>1, <1>3, <1>4, <1>5, <1>6, <1>7, <2>1, <1>q, TransactionReplayed
<1>9. CommittedRounds' = round + 1 /\ ~Uncommitted'
      /\ exit'.reason # "cache_outcome_unknown"
  BY <1>2, <1>7 DEF Commits, CommittedRounds, NoExit, Uncommitted
<1>10. Agrees(q)'
  BY <1>7, <1>8, <1>9 DEF Agrees, Commits
<1>11. Stands(q)'
  <2>1. DOMAIN q.phases = DOMAIN r.phases /\ q.phases[round] = "COMMITTED"
        /\ \A t \in DOMAIN r.phases \ {round} : q.phases[t] = r.phases[t]
    BY <1>3, <1>8
  <2>2. Others(q, DOMAIN q.phases)
    BY <1>3, <1>7, <2>1 DEF Others
  <2>3. \A t \in DOMAIN q.phases : t \in Nat
    <3>1. PICK D \in SUBSET Nat : q.phases \in [D -> Phases]
      BY <1>8 DEF ReplayType, PhaseTables
    <3> QED BY <3>1
  <2>4. Others(q, DOMAIN q.phases)' /\ (pc' = "loop" => round' \notin DOMAIN q.phases)
    BY <2>2, <2>3, <1>7 DEF Others, Commits
  <2> QED BY <1>8, <1>9, <2>4 DEF Stands
<1> QED BY <1>8, <1>10, <1>11

LEMMA LosesAgrees ==
  ASSUME TypeOK, TypeOK', SealInv, PhaseInv, NEW r \in ReplayType, Agrees(r), Stands(r),
         LosesTrack,
         NEW q, q = Review!ReplayEvent(r, UnknownEvent)
  PROVE  q \in ReplayType /\ Agrees(q)' /\ Stands(q)'
<1> DEFINE e == UnknownEvent
<1>1. /\ e.event = "candidate_transaction" /\ e.txn = round /\ e.phase = "INTERRUPTED"
      /\ e.snapshot = state /\ e.keys = admitted /\ e.cache_outcome = "unknown"
      /\ DOMAIN e = {"event", "txn", "phase", "snapshot", "keys", "cache_outcome"}
  BY DEF UnknownEvent
<1>q. q = Review!ReplayEvent(r, e)
  OBVIOUS
<1> HIDE DEF e
<1>2. Uncommitted /\ phase = "VALIDATED" /\ exit = NoExit /\ CommittedRounds = round
      /\ UNCHANGED <<round, state>> /\ started <= started'
  BY DEF LosesTrack, Keeps, Uncommitted, PhaseInv, SealInv, CommittedRounds, NoExit, TypeOK
<1>3. /\ r.active = round /\ round \in DOMAIN r.phases /\ r.phases[round] = phase
      /\ r.keys = admitted /\ admitted # {} /\ Others(r, DOMAIN r.phases \ {round})
  BY <1>2 DEF Stands
<1>4. r.ok /\ r.visible = state /\ r.pending = -1
      /\ r.generation = round /\ r.committed = round
      /\ r.started <= started
  BY <1>2 DEF Agrees
<1>5. Review!Continues(r, e)
  BY <1>1, <1>2, <1>3, <1>4 DEF Review!Continues, Review!Transitions
<1>6. Review!OutcomeAllowed(e) /\ ~Review!TouchesVisible(e)
      /\ Review!Has(e, "cache_outcome")
  BY <1>1 DEF Review!OutcomeAllowed, Review!TouchesVisible, Review!Has
<1>7. round \in Nat /\ admitted \in SUBSET Keys /\ started \in Nat
      /\ started' \in Nat
      /\ "INTERRUPTED" \in Phases /\ "INTERRUPTED" \in Terminal
  BY DEF TypeOK, Phases, Terminal
<1>8. /\ q \in ReplayType /\ q.ok /\ q.pending = -1 /\ q.active = -1
      /\ q.visible = state /\ q.generation = round
      /\ q.started = r.started /\ q.committed = round
      /\ DOMAIN q.phases = DOMAIN r.phases \cup {round}
      /\ \A t \in DOMAIN r.phases \cup {round} :
           q.phases[t] = IF t = round THEN "INTERRUPTED" ELSE r.phases[t]
  BY <1>1, <1>3, <1>4, <1>5, <1>6, <1>7, <1>q, TransactionReplayed
<1>p. ~q.proven
  <2>1. q.proven = (r.proven /\ ~Review!Has(e, "cache_outcome"))
    BY <1>1, <1>3, <1>4, <1>5, <1>6, <1>7, <1>q, TransactionReplayed
  <2> QED BY <2>1, <1>6, Zenon
<1>9. CommittedRounds' = round /\ ~Uncommitted' /\ pc' = "seal"
  BY <1>2, <1>7 DEF LosesTrack, CommittedRounds, Uncommitted
<1>10. Agrees(q)'
  <2>1. q.started <= started'
    BY <1>2, <1>4, <1>7, <1>8 DEF ReplayType
  <2> QED BY <1>2, <1>8, <1>9, <1>p, <2>1 DEF Agrees
<1>11. Stands(q)'
  <2>1. DOMAIN q.phases = DOMAIN r.phases /\ q.phases[round] = "INTERRUPTED"
        /\ \A t \in DOMAIN r.phases \ {round} : q.phases[t] = r.phases[t]
    BY <1>3, <1>8
  <2>2. Others(q, DOMAIN q.phases)
    BY <1>3, <1>7, <2>1 DEF Others
  <2> QED BY <1>2, <1>8, <1>9, <2>2 DEF Stands, Others
<1> QED BY <1>8, <1>10, <1>11

(* A screening that admits nothing is followed by the end of the round.    *)
LEMMA NothingAgrees ==
  ASSUME TypeOK, TypeOK', SealInv, NEW r \in ReplayType, Agrees(r), Stands(r),
         NothingAdmissible,
         NEW m, m = Review!ReplayEvent(r, Screening(0)),
         NEW q, q = Review!ReplayEvent(m, RoundTerminated)
  PROVE  q \in ReplayType /\ Agrees(q)' /\ Stands(q)'
<1>1. /\ pc = "loop" /\ pc' = "seal" /\ exit = NoExit
      /\ exit'.reason = "no_admissible_candidates"
      /\ UNCHANGED <<round, state, admitted, phase, started>>
      /\ ~Uncommitted /\ ~Uncommitted' /\ CommittedRounds' = CommittedRounds
  BY DEF NothingAdmissible, LoopUnchanged, loopVars, budgetVars, Leave, SealInv,
         Uncommitted, CommittedRounds, NoExit
<1>2. r.ok /\ r.active = -1 /\ r.pending = -1
  BY <1>1 DEF Agrees, Stands
<1> DEFINE e == Screening(0)
<1>3. e.event = "candidate_screening" /\ e.admitted_count = 0
      /\ ~Review!TouchesVisible(e)
  BY DEF Screening, Review!TouchesVisible, Review!Has
<1>m. m = Review!ReplayEvent(r, e)
  OBVIOUS
<1> HIDE DEF e
<1>4. m = [r EXCEPT !.ok = TRUE, !.pending = 0]
  <2>1. m = Review!ReplayScreening(r, e)
    BY <1>m, <1>2, <1>3, CaseOfEvent
  <2>2. (/\ r.active = -1 /\ r.pending = -1
         /\ e.admitted_count >= 0 /\ ~Review!TouchesVisible(e)) = TRUE
    BY <1>2, <1>3
  <2> QED BY <2>1, <2>2, <1>3 DEF Review!ReplayScreening
<1>5. m \in ReplayType /\ m.ok /\ m.pending = 0 /\ m.active = -1
      /\ m.visible = r.visible /\ m.generation = r.generation
      /\ m.committed = r.committed /\ m.started = r.started
      /\ m.phases = r.phases /\ m.proven = r.proven
  <2> DEFINE n == 0
  <2>2. m = [r EXCEPT !.ok = TRUE, !.pending = n] /\ n \in Nat
    BY <1>4
  <2> HIDE DEF n
  <2>3. m \in ReplayType /\ m.ok /\ m.pending = n /\ m.active = -1
        /\ m.visible = r.visible /\ m.generation = r.generation
        /\ m.committed = r.committed /\ m.started = r.started
        /\ m.phases = r.phases /\ m.proven = r.proven
    BY <1>2, <2>2 DEF ReplayType
  <2> QED BY <2>3 DEF n
<1> DEFINE f == RoundTerminated
<1>6. f.event = "round_terminated" /\ ~Review!TouchesVisible(f)
  BY DEF RoundTerminated, Review!TouchesVisible, Review!Has
<1>n. q = Review!ReplayEvent(m, f)
  OBVIOUS
<1> HIDE DEF f
<1>7. q = [m EXCEPT !.ok = TRUE, !.pending = -1]
  <2>1. q = Review!ReplayRoundTerminated(m, f)
    BY <1>n, <1>5, <1>6, CaseOfEvent
  <2>2. (/\ m.active = -1 /\ m.pending \in {-1, 0}
         /\ ~Review!TouchesVisible(f)) = TRUE
    BY <1>5, <1>6
  <2> QED BY <2>1, <2>2 DEF Review!ReplayRoundTerminated
<1>8. q \in ReplayType /\ q.ok /\ q.pending = -1 /\ q.active = -1
      /\ q.visible = r.visible /\ q.generation = r.generation
      /\ q.committed = r.committed /\ q.started = r.started
      /\ q.phases = r.phases
  <2>1. q \in ReplayType
    BY <1>5, <1>7 DEF ReplayType
  <2>2. q.ok /\ q.pending = -1
    BY <1>5, <1>7 DEF ReplayType
  <2>3. q.active = m.active /\ q.visible = m.visible /\ q.generation = m.generation
    BY <1>5, <1>7 DEF ReplayType
  <2>4. q.committed = m.committed /\ q.started = m.started /\ q.phases = m.phases
    BY <1>5, <1>7 DEF ReplayType
  <2> QED BY <1>5, <2>1, <2>2, <2>3, <2>4
<1>9. Agrees(q)'
  BY <1>1, <1>8 DEF Agrees
<1>10. Stands(q)'
  BY <1>1, <1>8 DEF Stands, Others
<1> QED BY <1>8, <1>9, <1>10

(* The admitted keys are the transaction the reviewer then expects.        *)
LEMMA AdmitAgrees ==
  ASSUME TypeOK, TypeOK', SealInv, NEW r \in ReplayType, Agrees(r), Stands(r),
         NEW keys \in SUBSET Keys, Admit(keys),
         NEW m, m = Review!ReplayEvent(r, Screening(Cardinality(keys))),
         NEW q, q = Review!ReplayEvent(m, PhaseEvent("PREPARED", keys))
  PROVE  q \in ReplayType /\ Agrees(q)' /\ Stands(q)'
<1>1. /\ pc = "loop" /\ pc' = "begin" /\ exit = NoExit /\ exit' = exit
      /\ UNCHANGED <<round, state, started>> /\ phase' = "PREPARED"
      /\ admitted' = keys /\ keys # {}
      /\ ~Uncommitted /\ Uncommitted' /\ CommittedRounds' = CommittedRounds
  BY DEF Admit, budgetVars, exitVars, SealInv, Uncommitted, CommittedRounds, NoExit
<1>2. /\ r.ok /\ r.active = -1 /\ r.pending = -1 /\ r.visible = state
      /\ round \notin DOMAIN r.phases /\ Others(r, DOMAIN r.phases)
  BY <1>1 DEF Agrees, Stands
<1>c. Cardinality(keys) \in Nat
  BY ConfigAssumption, FS_Subset, FS_CardinalityType
<1> DEFINE n == Cardinality(keys)
           e == Screening(n)
<1>3. e.event = "candidate_screening" /\ e.admitted_count = n
      /\ ~Review!TouchesVisible(e)
  BY DEF Screening, Review!TouchesVisible, Review!Has
<1>m. m = Review!ReplayEvent(r, e)
  OBVIOUS
<1> HIDE DEF e
<1>4. m = [r EXCEPT !.ok = TRUE, !.pending = n]
  <2>1. m = Review!ReplayScreening(r, e)
    BY <1>m, <1>2, <1>3, CaseOfEvent
  <2>2. (/\ r.active = -1 /\ r.pending = -1
         /\ e.admitted_count >= 0 /\ ~Review!TouchesVisible(e)) = TRUE
    BY <1>2, <1>3, <1>c
  <2> QED BY <2>1, <2>2, <1>3 DEF Review!ReplayScreening
<1>5. m \in ReplayType /\ m.ok /\ m.pending = n /\ m.active = -1
      /\ m.visible = r.visible /\ m.generation = r.generation
      /\ m.committed = r.committed /\ m.started = r.started
      /\ m.phases = r.phases /\ m.proven = r.proven
  <2> HIDE DEF n
  <2>1. n \in Nat
    BY <1>c DEF n
  <2> QED BY <1>2, <1>4, <2>1 DEF ReplayType
<1> DEFINE f == PhaseEvent("PREPARED", keys)
<1>6. /\ f.event = "candidate_transaction" /\ f.txn = round /\ f.phase = "PREPARED"
      /\ f.snapshot = state /\ f.keys = keys
      /\ DOMAIN f = {"event", "txn", "phase", "snapshot", "keys"}
  BY DEF PhaseEvent
<1>n. q = Review!ReplayEvent(m, f)
  OBVIOUS
<1> HIDE DEF f
<1>7. Review!Opens(m, f)
  <2>1. Cardinality(f.keys) = m.pending
    BY <1>5, <1>6
  <2>2. m.active = -1 /\ f.phase = "PREPARED" /\ f.snapshot = m.visible
    BY <1>2, <1>5, <1>6
  <2>3. Review!Cardinality(f.keys) = Cardinality(f.keys)
    BY DEF Cardinality, Review!Cardinality
  <2> QED BY <2>1, <2>2, <2>3, Zenon DEF Review!Opens
<1>8. Review!OutcomeAllowed(f) /\ ~Review!TouchesVisible(f)
      /\ ~Review!Has(f, "cache_outcome")
  BY <1>6 DEF Review!OutcomeAllowed, Review!TouchesVisible, Review!Has
<1>9. round \in Nat /\ "PREPARED" \in Phases /\ "PREPARED" \notin Terminal
      /\ started \in Nat
  BY DEF TypeOK, Phases, Terminal
<1>10. /\ q \in ReplayType /\ q.ok /\ q.keys = keys /\ q.pending = -1
       /\ q.active = round
       /\ q.visible = m.visible /\ q.generation = m.generation
       /\ q.started = m.started /\ q.committed = m.committed
       /\ DOMAIN q.phases = DOMAIN m.phases \cup {round}
       /\ \A t \in DOMAIN m.phases \cup {round} :
            q.phases[t] = IF t = round THEN "PREPARED" ELSE m.phases[t]
  BY <1>1, <1>2, <1>5, <1>6, <1>7, <1>8, <1>9, <1>n, TransactionReplayed
<1>11. Agrees(q)'
  <2>1. exit'.reason # "cache_outcome_unknown"
    BY <1>1 DEF NoExit
  <2> QED BY <1>1, <1>5, <1>10, <2>1 DEF Agrees
<1>12. Stands(q)'
  BY <1>1, <1>2, <1>5, <1>10 DEF Stands, Others
<1> QED BY <1>10, <1>11, <1>12

-----------------------------------------------------------------------------

ReviewerInv ==
  ext = 0 =>
    Seen(trace) \in ReplayType /\ Agrees(Seen(trace)) /\ Stands(Seen(trace))

(* What the reviewer would hold at every point of the run.                 *)
ReviewInv == trace \in Seq(TraceEvents) /\ GenerationInv /\ ReviewerInv

LEMMA ReviewInit == Init => ReviewInv
<1> SUFFICES ASSUME Init PROVE ReviewInv
  OBVIOUS
<1>1. trace \in Seq(TraceEvents) /\ GenerationInv
  BY ConfigAssumption DEF Init, GenerationInv, Uncommitted
<1> DEFINE r == Review!ReplayInit(InitState)
<1>2. Seen(trace) = r
  BY ReplayStarts DEF Init
<1>3. /\ r.ok = TRUE /\ r.visible = InitState /\ r.generation = 0 /\ r.started = 0
      /\ r.active = -1 /\ r.pending = -1 /\ r.committed = 0 /\ r.phases = <<>>
  BY DEF Review!ReplayInit
<1>4. r \in ReplayType
  <2>1. <<>> \in [{} -> Phases] /\ {} \in SUBSET Nat
    OBVIOUS
  <2>2. <<>> \in PhaseTables
    BY <2>1 DEF PhaseTables
  <2> QED BY <2>2, ConfigAssumption DEF Review!ReplayInit, ReplayType
<1>5. DOMAIN r.phases = {}
  BY <1>3
<1> HIDE DEF r
<1>6. Agrees(r) /\ Stands(r)
  BY <1>3, <1>5 DEF Init, NoExit, Agrees, Stands, Others, Uncommitted, CommittedRounds
<1> QED BY <1>1, <1>2, <1>4, <1>6 DEF ReviewInv, ReviewerInv

LEMMA ReviewStep ==
  TypeOK /\ TypeOK' /\ PhaseInv /\ SealInv /\ ReviewInv /\ [Next]_vars => ReviewInv'
<1> SUFFICES ASSUME TypeOK, TypeOK', PhaseInv, SealInv, ReviewInv, [Next]_vars
             PROVE  ReviewInv'
  OBVIOUS
<1>1. Effect
  BY EffectStep
<1>2. trace' \in Seq(TraceEvents) /\ trace \in Seq(TraceEvents)
  BY <1>1, TraceStep DEF ReviewInv
<1>3. GenerationInv' /\ (ext' = 0 => ext = 0)
  BY GenerationStep DEF ReviewInv
<1>4. ASSUME ext' = 0
      PROVE  (Seen(trace) \in ReplayType /\ Agrees(Seen(trace)) /\ Stands(Seen(trace)))'
  <2>1. PICK r : r = Seen(trace)
    OBVIOUS
  <2>2. PICK q : q = Seen(trace')
    OBVIOUS
  <2>3. r \in ReplayType /\ Agrees(r) /\ Stands(r)
    BY <1>3, <1>4, <2>1 DEF ReviewInv, ReviewerInv, Agrees, Stands, Others
  <2> SUFFICES q \in ReplayType /\ Agrees(q)' /\ Stands(q)'
    BY <2>2 DEF Agrees, Stands, Others
  <2>e. /\ \A n \in Nat : Screening(n) \in TraceEvents
        /\ RoundTerminated \in TraceEvents
        /\ \A p \in Phases, keys \in SUBSET Keys :
             PhaseEvent(p, keys) \in TraceEvents
        /\ CommittedEvent \in TraceEvents
        /\ UnknownEvent \in TraceEvents
    BY EventTypes
  <2>a. admitted \in SUBSET Keys /\ "PREPARED" \in Phases
    BY DEF TypeOK, Phases
  <2>4. CASE Quiet
    <3>1. q = r
      BY <2>1, <2>2, <2>4 DEF Quiet
    <3> QED BY <2>3, <2>4, <3>1, QuietAgrees
  <2>5. CASE \E p \in Phases : Moves(p)
    <3>1. PICK p \in Phases : Moves(p)
      BY <2>5
    <3>2. PhaseEvent(p, admitted) \in TraceEvents
      BY <2>e, <2>a
    <3>3. trace' = Append(trace, PhaseEvent(p, admitted))
      BY <3>1 DEF Moves
    <3>4. q = Review!ReplayEvent(r, PhaseEvent(p, admitted))
      BY <1>2, <2>1, <2>2, <3>2, <3>3, ReplayExtends
    <3> QED BY <2>3, <3>1, <3>4, MovesAgrees
  <2>6. CASE Commits
    <3>1. trace' = Append(trace, CommittedEvent)
      BY <2>6 DEF Commits
    <3>2. q = Review!ReplayEvent(r, CommittedEvent)
      BY <1>2, <2>1, <2>2, <2>e, <3>1, ReplayExtends
    <3>3. expected = round
      BY <1>3, <1>4, <2>6 DEF Commits, ReviewInv, GenerationInv, Uncommitted
    <3> QED BY <2>3, <2>6, <3>2, <3>3, CommitsAgrees
  <2>7. CASE LosesTrack
    <3>1. trace' = Append(trace, UnknownEvent)
      BY <2>7 DEF LosesTrack
    <3>2. q = Review!ReplayEvent(r, UnknownEvent)
      BY <1>2, <2>1, <2>2, <2>e, <3>1, ReplayExtends
    <3> QED BY <2>3, <2>7, <3>2, LosesAgrees
  <2>8. CASE NothingAdmissible
    <3>1. trace' = trace \o <<Screening(0), RoundTerminated>>
      BY <2>8 DEF NothingAdmissible
    <3>2. trace' = Append(Append(trace, Screening(0)), RoundTerminated)
          /\ Append(trace, Screening(0)) \in Seq(TraceEvents)
          /\ Screening(0) \in TraceEvents
      BY <1>2, <2>e, <3>1, AppendTwo
    <3>3. PICK m : m = Review!ReplayEvent(r, Screening(0))
      OBVIOUS
    <3>4. Seen(Append(trace, Screening(0))) = m
      BY <1>2, <2>1, <3>2, <3>3, ReplayExtends
    <3>5. q = Review!ReplayEvent(m, RoundTerminated)
      BY <2>2, <2>e, <3>2, <3>4, ReplayExtends
    <3> QED BY <2>3, <2>8, <3>3, <3>5, NothingAgrees
  <2>9. CASE \E keys \in SUBSET Keys : Admit(keys)
    <3>1. PICK keys \in SUBSET Keys : Admit(keys)
      BY <2>9
    <3> DEFINE d == Screening(Cardinality(keys))
               e == PhaseEvent("PREPARED", keys)
    <3>2. Cardinality(keys) \in Nat
      BY ConfigAssumption, FS_Subset, FS_CardinalityType
    <3>3. d \in TraceEvents /\ e \in TraceEvents
      BY <2>e, <2>a, <3>2
    <3>4. trace' = trace \o <<d, e>>
      BY <3>1 DEF Admit
    <3> HIDE DEF d, e
    <3>5. trace' = Append(Append(trace, d), e) /\ Append(trace, d) \in Seq(TraceEvents)
      BY <1>2, <3>3, <3>4, AppendTwo
    <3>6. PICK m : m = Review!ReplayEvent(r, d)
      OBVIOUS
    <3>7. Seen(Append(trace, d)) = m
      BY <1>2, <2>1, <3>3, <3>6, ReplayExtends
    <3>8. q = Review!ReplayEvent(m, e)
      BY <2>2, <3>3, <3>5, <3>7, ReplayExtends
    <3> QED BY <2>3, <3>1, <3>6, <3>8, AdmitAgrees DEF d, e
  <2> QED BY <1>1, <2>4, <2>5, <2>6, <2>7, <2>8, <2>9 DEF Effect
<1> QED BY <1>2, <1>3, <1>4 DEF ReviewInv, ReviewerInv

(* At every point of a run over a store nobody else writes to, an          *)
(* independent replay of the events recorded so far holds exactly what the *)
(* run holds: its visible state, its committed rounds, one generation each *)
(* and the transaction it is in.                                           *)
THEOREM ReviewTheorem == Spec => []ReviewInv
<1>1. Init => ReviewInv
  BY ReviewInit
<1>2. ControlInv /\ ControlInv' /\ ReviewInv /\ [Next]_vars => ReviewInv'
  BY ReviewStep DEF ControlInv
<1> QED
  BY <1>1, <1>2, Control, PTL DEF Spec

(* The receipt of a finished run, from the replay of its trace.            *)
LEMMA ReceiptOfReplay ==
  ASSUME TypeOK, ReviewInv, ext = 0, pc = "done"
  PROVE  /\ Receipt.ok /\ Receipt.visible = state
         /\ Receipt.committed = CommittedRounds
         /\ Receipt.generation = CommittedRounds
         /\ exit.reason = "cache_outcome_unknown" => ~Receipt.proven
<1> DEFINE r == Seen(trace)
<1>1. r \in ReplayType /\ Agrees(r) /\ Stands(r)
  BY DEF ReviewInv, ReviewerInv
<1>2. Receipt = [r EXCEPT !.ok =
         /\ r.ok
         /\ \A t \in DOMAIN r.phases : r.phases[t] \in Review!TerminalPhases
         /\ r.active = -1
         /\ r.pending \in {-1, 0}]
  BY DEF Receipt, Review!Replay, Seen
<1> HIDE DEF r
<1>3. r.ok /\ r.active = -1 /\ r.pending = -1
      /\ \A t \in DOMAIN r.phases : r.phases[t] \in Review!TerminalPhases
  BY <1>1 DEF Agrees, Stands, Others, Uncommitted, Terminal, Review!TerminalPhases
<1> DEFINE Ok == /\ r.ok
                 /\ \A t \in DOMAIN r.phases : r.phases[t] \in Review!TerminalPhases
                 /\ r.active = -1
                 /\ r.pending \in {-1, 0}
<1>4. Ok = TRUE
  BY <1>3
<1>5. Receipt = [r EXCEPT !.ok = Ok]
  BY <1>2
<1> HIDE DEF Ok
<1>6. Receipt.ok = TRUE /\ Receipt.visible = r.visible
      /\ Receipt.committed = r.committed /\ Receipt.generation = r.generation
      /\ Receipt.proven = r.proven
  BY <1>1, <1>4, <1>5 DEF ReplayType
<1>7. exit.reason = "cache_outcome_unknown" => ~Receipt.proven
  <2>1. exit.reason = "cache_outcome_unknown" => ~r.proven
    BY <1>1 DEF Agrees
  <2> QED BY <1>6, <2>1, Zenon
<1> QED BY <1>1, <1>6, <1>7 DEF Agrees

(* Over a solve-local cache the reviewer accepts the trace of every run    *)
(* that sealed one, whatever the kernel, the oracle, the clock, the sinks  *)
(* and the backend did: no failure path omits, repeats or misorders an     *)
(* event.                                                                  *)
THEOREM SealedTraceTheorem ==
  ASSUME MaxExternal = 0
  PROVE  Spec => []SealedTraceReplays
<1>1. TypeOK /\ ReviewInv => SealedTraceReplays
  <2> SUFFICES ASSUME TypeOK, ReviewInv, pc = "done", sealed = 1
               PROVE  Receipt.ok
    BY DEF SealedTraceReplays
  <2>1. ext = 0
    BY DEF TypeOK, ReviewInv, GenerationInv
  <2> QED BY <2>1, ReceiptOfReplay
<1> QED
  BY <1>1, ReviewTheorem, TypeCorrect, PTL

(* Whatever a backend that keeps its contract answers, and whoever else    *)
(* may share the store: unless another owner wrote to it, the reviewer     *)
(* rebuilds from the trace alone the state the run returned and the rounds *)
(* it committed, and certifies a prefix as proven only if the store holds  *)
(* exactly the generations it counts.                                      *)
THEOREM ReceiptTheorem ==
  ASSUME BackendKeepsContract
  PROVE  Spec => []ReceiptMatchesRun
<1>1. ControlInv /\ PubInv /\ ReviewInv => ReceiptMatchesRun
  <2> SUFFICES ASSUME ControlInv, PubInv, ReviewInv, pc = "done", ext = 0
               PROVE  /\ Receipt.visible = state
                      /\ Receipt.committed = CommittedRounds
                      /\ Receipt.proven => Receipt.generation = generation
    BY DEF ReceiptMatchesRun
  <2>1. TypeOK /\ NoPhantomPublication
    BY DEF ControlInv, SealInv, PubInv, NoPhantomPublication, NoExit,
           CommittedRounds
  <2>2. /\ Receipt.visible = state /\ Receipt.committed = CommittedRounds
        /\ Receipt.generation = CommittedRounds
        /\ exit.reason = "cache_outcome_unknown" => ~Receipt.proven
    BY <2>1, ReceiptOfReplay
  <2>3. exit.reason # "cache_outcome_unknown" => generation = CommittedRounds
    BY <2>1 DEF NoPhantomPublication, CommittedRounds, TypeOK
  <2> QED BY <2>2, <2>3, Zenon
<1> QED
  BY <1>1, Publication, ReviewTheorem, PTL

=============================================================================
