----------------------------- MODULE MCCampaign -----------------------------
(* A light entry and a heavy one, which is refused under the smaller core  *)
(* budget and needs all of the larger one.                                 *)
EXTENDS Campaign

MCWeight == [e \in Entries |-> e]
=============================================================================
