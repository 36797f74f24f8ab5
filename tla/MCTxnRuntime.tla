---------------------------- MODULE MCTxnRuntime ----------------------------
(* Small instances of a reviewed run: three candidate keys of unequal cost, *)
(* one of which evaluates to a state the oracle may reject.                 *)
EXTENDS ReviewedRun, TLC

CONSTANTS k1, k2, k3, s0, s1, s2, s3

MCStates == {s0, s1, s2, s3}

(* Each key evaluates to a state of its own. *)
MCEval == k1 :> s1 @@ k2 :> s2 @@ k3 :> s3

S3Rejected == {s0, s1, s2}

(* Unequal costs, so that a bound counted in keys differs from one in work. *)
MCWork == [S \in SUBSET Keys |-> (IF k1 \in S THEN 1 ELSE 0)
                                 + (IF k2 \in S THEN 2 ELSE 0)
                                 + (IF k3 \in S THEN 1 ELSE 0)]
=============================================================================
