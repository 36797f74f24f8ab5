---------------------------- MODULE MCEvaluation ----------------------------
(* Candidates of unequal work: a bound counted in candidates would show.    *)
EXTENDS Evaluation

MCWork == [S \in SUBSET Candidates |-> SumSet(S)]
=============================================================================
