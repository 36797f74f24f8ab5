---------------------------- MODULE ReviewedRun ----------------------------
(***************************************************************************)
(* A run of the runtime followed by the independent review of the trace it *)
(* sealed: the two were written apart, and the reviewer sees nothing but   *)
(* the trace.                                                              *)
(***************************************************************************)
EXTENDS TxnRuntime

Review == INSTANCE TraceReplay

Receipt == Review!Replay(InitState, trace)

(* Whatever ends a run over a solve-local cache, the trace it seals is one *)
(* the reviewer accepts: no failure path omits, repeats or misorders an    *)
(* event.                                                                  *)
SealedTraceReplays == pc = "done" /\ sealed = 1 => Receipt.ok

(* Unless another owner wrote to the cache, the reviewer reconstructs from *)
(* the trace alone the state the run returned and the number of rounds it  *)
(* committed; and when it certifies the prefix as proven, the cache holds  *)
(* exactly the generations it counts.                                      *)
ReceiptMatchesRun ==
  pc = "done" /\ sealed = 1 /\ ext = 0 =>
    /\ Receipt.visible = state
    /\ Receipt.committed = CommittedRounds
    /\ Receipt.proven => Receipt.generation = generation
=============================================================================
