------------------------------ MODULE Admission ------------------------------
(***************************************************************************)
(* PythonTxnRuntime._admit_candidates: the candidates of a round are       *)
(* taken from the stream the kernel proposed in batches, those seen before *)
(* left out; a batch is screened as a whole, and what passes is admitted   *)
(* in order until the limit.  A candidate stands for its stable key, and   *)
(* sets of candidates are sets of positions in the stream.                 *)
(***************************************************************************)
EXTENDS Integers, Sequences, FiniteSets, FiniteSetsExt

CONSTANT ScreeningBatch  \* _SCREENING_BATCH_SIZE

ASSUME BatchAssumption == ScreeningBatch \in Nat \ {0}

VARIABLES
  proposals,  \* the stream of candidates
  admissible, \* those the oracle's screening accepts
  limit,      \* the admission limit; 0 is none
  adm         \* the admission so far

admissionVars == <<proposals, admissible, limit, adm>>

NoAdmission ==
  [position |-> 0, seen |-> {}, admitted |-> <<>>, screened |-> 0, admissible |-> 0]

Limited == limit > 0
BatchSize == IF Limited /\ limit < ScreeningBatch THEN limit ELSE ScreeningBatch

(* A set of positions is in the order of the stream.                       *)
Rank(S, p) == Cardinality({q \in S : q <= p})
FirstOf(S, k) == {p \in S : Rank(S, p) <= k}
Nth(S, i) == CHOOSE p \in S : Rank(S, p) = i
Picked(S) == [i \in 1..Cardinality(S) |-> proposals[Nth(S, i)]]

(* Mutant: seen-before is judged within the batch alone. *)
UnseenInBatch(p) == \A q \in adm.position + 1..p - 1 : proposals[q] # proposals[p]

(* The next batch: the first candidates not seen before, as many as fit. *)
Unseen(p) ==
  /\ proposals[p] \notin adm.seen
  /\ \A q \in adm.position + 1..p - 1 : proposals[q] # proposals[p]
NextBatch == FirstOf({p \in adm.position + 1..Len(proposals) : Unseen(p)}, BatchSize)

AdmissionOver ==
  adm.position = Len(proposals) \/ (Limited /\ Len(adm.admitted) >= limit)

AdmitBatch ==
  /\ ~AdmissionOver
  /\ LET batch == NextBatch
         kept  == {p \in batch : proposals[p] \in admissible}
         room  == limit - Len(adm.admitted)
     IN  adm' = [position   |-> IF Cardinality(batch) < BatchSize THEN Len(proposals)
                                ELSE Max(batch),
                 seen       |-> adm.seen \cup {proposals[p] : p \in batch},
                 admitted   |-> adm.admitted \o
                                  Picked(IF Limited THEN FirstOf(kept, room) ELSE kept),
                 screened   |-> adm.screened + Cardinality(batch),
                 admissible |-> adm.admissible + Cardinality(kept)]
  /\ UNCHANGED <<proposals, admissible, limit>>

(* A round brings a stream of its own. *)
Begin(stream, accepted, most) ==
  /\ proposals' = stream /\ admissible' = accepted /\ limit' = most
  /\ adm' = NoAdmission

AdmissionInit ==
  proposals = <<>> /\ admissible = {} /\ limit = 0 /\ adm = NoAdmission

AdmissionNext(Candidates) ==
  \/ AdmitBatch
  \/ \E stream \in Seq(Candidates), accepted \in SUBSET Candidates, most \in Nat :
       Begin(stream, accepted, most)

AdmissionSpec(Candidates) ==
  AdmissionInit /\ [][AdmissionNext(Candidates)]_admissionVars

-----------------------------------------------------------------------------
Distinct == {p \in 1..Len(proposals) : \A q \in 1..p - 1 : proposals[q] # proposals[p]}
Passing  == {p \in Distinct : proposals[p] \in admissible}

(* Admission is exact whatever the size of its batches: it admits the      *)
(* first admissible candidates of the stream, each once, reports what it   *)
(* screened, stops short only at the limit, and screens less than a batch  *)
(* past the last candidate it admits (_admit_candidates' contract).        *)
AdmissionIsPrefix ==
  AdmissionOver =>
    LET chosen   == IF Limited THEN FirstOf(Passing, limit) ELSE Passing
        screened == FirstOf(Distinct, adm.screened)
    IN  /\ adm.admitted = Picked(chosen)
        /\ adm.seen = {proposals[p] : p \in screened}
        /\ adm.screened = Cardinality(screened)
        /\ adm.admissible = Cardinality(Passing \cap screened)
        /\ adm.position < Len(proposals) => Limited /\ Cardinality(chosen) = limit
        /\ Limited /\ Cardinality(chosen) = limit =>
             Cardinality({p \in screened : p > Max(chosen)}) < BatchSize
=============================================================================
