-------------------------- MODULE BatchEvaluation --------------------------
(***************************************************************************)
(* What oracle.evaluate_batch promises the runtime when it is called once, *)
(* in order, on the N candidates of a round: the results of all of them,   *)
(* or the error of the first one that fails.  Result i stands for the      *)
(* state candidate i evaluates to.                                         *)
(***************************************************************************)
EXTENDS Naturals, FiniteSetsExt

CONSTANT N

VARIABLES
  fails,   \* the candidates whose evaluation raises or has the wrong shape
  outcome

Pending == [kind |-> "pending"]
Results == [kind |-> "results", values |-> [i \in 1..N |-> i]]
Error(i) == [kind |-> "error", of |-> i]

Init ==
  /\ fails \in SUBSET (1..N)
  /\ outcome = Pending

Finish ==
  /\ outcome = Pending
  /\ outcome' = IF fails = {} THEN Results ELSE Error(Min(fails))
  /\ UNCHANGED fails

Spec == Init /\ [][Finish]_<<fails, outcome>>
=============================================================================
