-------------------------- MODULE EvidenceLifecycle --------------------------
(***************************************************************************)
(* The hash-chained state history of one evidence bundle.  A digest stands *)
(* for what it was computed over: the digest of an event is the history up *)
(* to and with it, so "previous" is the sequence of the earlier events.    *)
(***************************************************************************)
EXTENDS Naturals, Sequences

EvidenceState == {"PLANNED", "RUNNING", "SEALED", "REVIEWED", "CLASSIFIED",
                  "BLOCKED_RETENTION", "RETAINED", "CLOSED"}

Successors(s) ==
  CASE s = "PLANNED"           -> {"RUNNING"}
    [] s = "RUNNING"           -> {"SEALED"}
    [] s = "SEALED"            -> {"REVIEWED"}
    [] s = "REVIEWED"          -> {"CLASSIFIED", "BLOCKED_RETENTION"}
    [] s = "BLOCKED_RETENTION" -> {"CLASSIFIED"}
    [] s = "CLASSIFIED"        -> {"RETAINED"}
    [] s = "RETAINED"          -> {"CLOSED"}
    [] s = "CLOSED"            -> {}

LifecycleEvent(history, s, evidence) ==
  [ordinal |-> Len(history), state |-> s, evidence |-> evidence,
   previous |-> history]

Start(evidence) == <<LifecycleEvent(<<>>, "PLANNED", evidence)>>

StateOf(history) == history[Len(history)].state

CanAdvance(history, s) == s \in Successors(StateOf(history))

Advance(history, s, evidence) ==
  Append(history, LifecycleEvent(history, s, evidence))

(* What from_payload accepts: the chain recomputed event by event.         *)
Replays(history) ==
  /\ history # <<>>
  /\ \A i \in DOMAIN history :
       /\ history[i].state \in EvidenceState
       /\ history[i] = LifecycleEvent(SubSeq(history, 1, i - 1),
                                      history[i].state, history[i].evidence)
       /\ IF i = 1 THEN history[i].state = "PLANNED"
          ELSE history[i].state \in Successors(history[i - 1].state)
=============================================================================
