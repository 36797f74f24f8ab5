---------------------------- MODULE TraceReplay ----------------------------
(***************************************************************************)
(* txnopt_evidence.refinement.replay_aggregate_refinement: the reviewer's  *)
(* independent replay of a sealed semantic trace.  It accepts a trace only *)
(* if visible state, cache generation and work ledger change together on   *)
(* one COMMITTED event per transaction.  A trace is a sequence of event    *)
(* records between run_open and run_terminated; an optional field is       *)
(* present when it is in the record's DOMAIN.                              *)
(***************************************************************************)
EXTENDS Integers, Sequences, FiniteSets

LOCAL None == "none"

Transitions ==
  [PREPARED   |-> {"RESERVED", "ABORTED", "INTERRUPTED"},
   RESERVED   |-> {"EVALUATING", "ABORTED", "INTERRUPTED"},
   EVALUATING |-> {"VALIDATED", "ABORTED", "INTERRUPTED"},
   VALIDATED  |-> {"COMMITTED", "ABORTED", "INTERRUPTED"},
   COMMITTED  |-> {}, ABORTED |-> {}, INTERRUPTED |-> {}]

TerminalPhases == {"COMMITTED", "ABORTED", "INTERRUPTED"}

Has(event, field) == field \in DOMAIN event
TouchesVisible(event) == Has(event, "state_digest") \/ Has(event, "cache_generation")

(* The replay's locals: pending is the admitted count awaiting its         *)
(* transaction (-1 for None), active the open transaction.                 *)
ReplayInit(initial) ==
  [ok |-> TRUE, visible |-> initial, generation |-> 0, started |-> 0,
   phases |-> <<>>, keys |-> {}, active |-> -1, pending |-> -1,
   committed |-> 0, aborted |-> 0, interrupted |-> 0, proven |-> TRUE]

ReplayScreening(r, event) ==
  [r EXCEPT !.ok = /\ r.active = -1 /\ r.pending = -1
                   /\ event.admitted_count >= 0
                   /\ ~TouchesVisible(event),
            !.pending = event.admitted_count]

ReplayRoundTerminated(r, event) ==
  [r EXCEPT !.ok = /\ r.active = -1 /\ r.pending \in {-1, 0}
                   /\ ~TouchesVisible(event),
            !.pending = -1]

(* PREPARED opens the transaction on the visible snapshot with exactly the *)
(* admitted keys; every later phase is a legal step of the same one.       *)
Opens(r, event) ==
  /\ r.active = -1
  /\ event.phase = "PREPARED"
  /\ event.snapshot = r.visible
  /\ r.pending = Cardinality(event.keys)

Continues(r, event) ==
  /\ event.phase \in Transitions[r.phases[event.txn]]
  /\ r.active = event.txn
  /\ event.snapshot = r.visible
  /\ event.keys = r.keys

OutcomeAllowed(event) ==
  Has(event, "cache_outcome") =>
    event.phase = "INTERRUPTED" /\ event.cache_outcome = "unknown"

AtomicCommit(r, event) ==
  /\ Has(event, "state_digest") /\ Has(event, "cache_generation")
  /\ Has(event, "started_work")
  /\ event.cache_generation = r.generation + 1
  /\ event.started_work >= r.started

ReplayTransaction(r, event) ==
  LET first == event.txn \notin DOMAIN r.phases
      commits == event.phase = "COMMITTED"
      legal == /\ event.keys # {}
               /\ IF first THEN Opens(r, event) ELSE Continues(r, event)
               /\ OutcomeAllowed(event)
               /\ IF commits THEN AtomicCommit(r, event)
                  ELSE ~TouchesVisible(event)
  IN IF ~legal THEN [r EXCEPT !.ok = FALSE] ELSE
     [r EXCEPT
        !.phases = [t \in DOMAIN r.phases \cup {event.txn} |->
                      IF t = event.txn THEN event.phase ELSE r.phases[t]],
        !.keys = event.keys,
        !.pending = IF first THEN -1 ELSE r.pending,
        !.active = IF event.phase \in TerminalPhases THEN -1 ELSE event.txn,
        !.visible = IF commits THEN event.state_digest ELSE r.visible,
        !.generation = IF commits THEN event.cache_generation ELSE r.generation,
        !.started = IF commits THEN event.started_work ELSE r.started,
        !.committed = IF commits THEN r.committed + 1 ELSE r.committed,
        !.aborted = IF event.phase = "ABORTED" THEN r.aborted + 1 ELSE r.aborted,
        !.interrupted = IF event.phase = "INTERRUPTED"
                        THEN r.interrupted + 1 ELSE r.interrupted,
        !.proven = r.proven /\ ~Has(event, "cache_outcome")]

ReplayEvent(r, event) ==
  CASE ~r.ok -> r
    [] r.ok /\ event.event = "candidate_screening" -> ReplayScreening(r, event)
    [] r.ok /\ event.event = "round_terminated" -> ReplayRoundTerminated(r, event)
    [] r.ok /\ event.event = "candidate_transaction" -> ReplayTransaction(r, event)
    [] OTHER -> [r EXCEPT !.ok = FALSE]

(* What the replay holds after each prefix of the events.                  *)
ReplayStates(initial, events) ==
  LET r[n \in 0..Len(events)] ==
        IF n = 0 THEN ReplayInit(initial) ELSE ReplayEvent(r[n - 1], events[n])
  IN r

(* The receipt of a whole trace, refused when a transaction or an admitted *)
(* set is left unresolved at its end.                                      *)
Replay(initial, events) ==
  LET r == ReplayStates(initial, events)[Len(events)] IN
  [r EXCEPT !.ok = /\ r.ok
                   /\ \A t \in DOMAIN r.phases : r.phases[t] \in TerminalPhases
                   /\ r.active = -1
                   /\ r.pending \in {-1, 0}]
=============================================================================
