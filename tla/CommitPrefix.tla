---------------------------- MODULE CommitPrefix ----------------------------
(***************************************************************************)
(* What a run of the transaction runtime promises, without any of the      *)
(* machinery: a sequence of rounds, each of which either publishes its     *)
(* next state together with exactly one generation of the cache, or        *)
(* publishes nothing and ends the run.  The one exception the runtime      *)
(* admits is a cache backend that acknowledges a commit nobody can verify: *)
(* the run then ends with its outcome marked unknown.                      *)
(***************************************************************************)
EXTENDS Naturals

CONSTANTS States, InitState

VARIABLES
  state,         \* the last committed state
  rounds,        \* how many rounds have committed
  publications,  \* how many generations of the cache the run has published
  outcome        \* "running", "stopped" or "unknown"

vars == <<state, rounds, publications, outcome>>

Init ==
  /\ state = InitState
  /\ rounds = 0
  /\ publications = 0
  /\ outcome = "running"

(* A round commits: state and cache become visible in one step, whether or *)
(* not the run goes on afterwards.                                         *)
CommitRound ==
  /\ outcome = "running"
  /\ state' \in States
  /\ rounds' = rounds + 1
  /\ publications' = publications + 1
  /\ outcome' \in {"running", "stopped"}

(* The run ends, by exhaustion, deadline, failure or exception: nothing    *)
(* beyond the committed prefix is visible.                                 *)
Stop ==
  /\ outcome = "running"
  /\ outcome' = "stopped"
  /\ UNCHANGED <<state, rounds, publications>>

(* The run ends without knowing whether its last generation is visible.    *)
StopUnknown ==
  /\ outcome = "running"
  /\ outcome' = "unknown"
  /\ publications' \in {publications, publications + 1}
  /\ UNCHANGED <<state, rounds>>

Next == CommitRound \/ Stop \/ StopUnknown

Spec == Init /\ [][Next]_vars

=============================================================================
