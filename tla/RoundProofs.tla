----------------------------- MODULE RoundProofs -----------------------------
(***************************************************************************)
(* Proofs about what a round does with its candidates: it admits them from *)
(* the proposed stream (Admission), evaluates those that are not cached    *)
(* (Evaluation), and lets its threads look their routes up (RouteCache).   *)
(* The three share no state and none of the proofs is about two of them.   *)
(*                                                                         *)
(* Admission, for batches of any size: what has been taken from the stream *)
(* is the set of first occurrences up to a position, a batch is the next   *)
(* piece of that set, and what is picked from one set followed by another  *)
(* is what is picked from their union (RankJoin ... FirstJoin).            *)
(*                                                                         *)
(* Evaluation, for every number of candidates, threads and window, and for *)
(* every additive work function: both modes return what one ordered batch  *)
(* would, and what they charge is a function of the failing candidate.     *)
(* The tasks partition the candidates into consecutive intervals, so that  *)
(* what has been submitted, and what has been collected, is always a       *)
(* prefix of the candidates.  Prefixes are kept as facts of the state      *)
(* (Submission, Collection), one task longer after each step, which avoids *)
(* an induction over the tasks.                                            *)
(*                                                                         *)
(* RouteCache, for every capacity and set of threads: the keys of a cache  *)
(* together with those threads have taken out of it (Known) are lost only  *)
(* by an eviction, which takes one and lets one thread go (Sound).         *)
(***************************************************************************)
EXTENDS Evaluation, Admission, RouteCache, NaturalLemmas, SequenceTheorems

(* The candidates that precede task t in candidate order.                  *)
Before(t) == IF mode = "barrier" THEN Offset(t) ELSE t - 1

-----------------------------------------------------------------------------
(* The partition *)

(* Tasks are consecutive non-empty intervals that end with candidate N.    *)
LEMMA Partition ==
  ASSUME mode \in Modes
  PROVE  /\ TaskCount \in 1..N
         /\ Before(1) = 0 /\ Before(TaskCount + 1) = N
         /\ \A t \in Tasks :
              /\ Before(t) \in Nat /\ Before(t + 1) \in 1..N
              /\ Before(t) < Before(t + 1)
              /\ Span(t) = (Before(t) + 1)..Before(t + 1)
<1> USE SizeAssumption
<1>1. CASE mode = "ordered"
  BY <1>1 DEF TaskCount, Tasks, Before, Span
<1>2. CASE mode = "barrier"
  <2> DEFINE C == ChunkCount
  <2>1. C \in 1..N
    BY DEF ChunkCount, Minimum
  <2> HIDE DEF C
  <2> DEFINE q == N \div C  r == N % C
  <2>2. q \in Nat /\ r \in 0..(C - 1) /\ N = C * q + r
    <3>1. N \in Nat /\ C \in Nat \ {0}
      BY <2>1
    <3> QED BY <3>1, Division, Zenon
  <2>3. q > 0
    BY <2>1, <2>2
  <2>4. \A t \in 1..(C + 1) :
          Offset(t) = (t - 1) * q + (IF t - 1 < r THEN t - 1 ELSE r)
    BY DEF Offset, Minimum, C
  <2> HIDE DEF q, r
  <2>5. Offset(1) = 0
    BY <2>1, <2>2, <2>4
  <2>6. Offset(C + 1) = N
    BY <2>1, <2>2, <2>4
  <2>7. ASSUME NEW t \in 1..C
        PROVE  /\ Offset(t) \in Nat /\ Offset(t + 1) \in 1..N
               /\ Offset(t) < Offset(t + 1)
    <3>1. t * q = (t - 1) * q + q
      BY <2>2, ProductStep
    <3>2. (t - 1) * q \in Nat
      BY <2>2, ProductGrows
    <3>3. t * q \in Nat /\ t * q <= C * q
      BY <2>1, <2>2, ProductGrows
    <3>4. /\ Offset(t) = (t - 1) * q + (IF t - 1 < r THEN t - 1 ELSE r)
          /\ Offset(t + 1) = t * q + (IF t < r THEN t ELSE r)
      BY <2>1, <2>4
    <3>5. C * q \in Nat
      BY <2>1, <2>2, ProductGrows
    <3> DEFINE x == (t - 1) * q  y == t * q  z == C * q
    <3>6. /\ x \in Nat /\ y \in Nat /\ z \in Nat /\ y = x + q /\ y <= z
          /\ N = z + r
          /\ Offset(t) = x + (IF t - 1 < r THEN t - 1 ELSE r)
          /\ Offset(t + 1) = y + (IF t < r THEN t ELSE r)
      BY <3>1, <3>2, <3>3, <3>4, <3>5, <2>2
    <3> HIDE DEF x, y, z
    <3> QED BY <3>6, <2>1, <2>2, <2>3
  <2>8. TaskCount = C
    BY <1>2 DEF TaskCount, C
  <2> QED
    BY <1>2, <2>1, <2>5, <2>6, <2>7, <2>8 DEF Tasks, Before, Span
<1> QED BY <1>1, <1>2

-----------------------------------------------------------------------------
(* The inductive invariant *)

(* What has been submitted is a prefix of the candidates and is charged;   *)
(* the rest stays reserved until the abort handler releases it.            *)
Submission ==
  /\ Spans(1..submitted) = 1..Before(submitted + 1)
  /\ started = Work[1..Before(submitted + 1)]
  /\ IF pc \in {"run", "count", "cancel"} \/ error = 0
     THEN started + reserved = Work[Candidates] ELSE reserved = 0
  /\ \A t \in Tasks : t > submitted => status[t] = "new"
  /\ mode = "ordered" => submitted - collected <= Width

(* What has been collected is a prefix of the candidates without failures; *)
(* a failure that surfaces is the least there is.                          *)
Collection ==
  /\ results = [i \in 1..Before(collected + 1) |-> i]
  /\ \A i \in fails : i > Before(collected + 1)
  /\ pc = "run" => error = 0 /\ collected < TaskCount
  /\ pc \in {"count", "cancel"} => error # 0 /\ scan # 0
  /\ pc \in {"shutdown", "done"} /\ error = 0 => collected = TaskCount
  /\ error # 0 => /\ error = Min(fails) /\ error \in fails
                  /\ SubmittedAt(error) = 1..submitted

Inv == TypeOK /\ Submission /\ Collection

(* Work is additive over consecutive intervals.                            *)
LEMMA WorkOfPrefix ==
  ASSUME NEW a \in Nat, NEW b \in Nat, a <= b, b <= N
  PROVE  /\ Work[1..a] \in Nat /\ Work[(a + 1)..b] \in Nat
         /\ Work[1..b] = Work[1..a] + Work[(a + 1)..b]
<1>1. /\ 1..a \in SUBSET Candidates /\ (a + 1)..b \in SUBSET Candidates
      /\ (1..a) \cap ((a + 1)..b) = {}
  BY SizeAssumption DEF Candidates
<1>2. (1..a) \cup ((a + 1)..b) = 1..b
  OBVIOUS
<1> QED BY <1>1, <1>2, WorkAssumption

LEMMA InvInit == Init => Inv
<1> SUFFICES ASSUME Init PROVE Inv
  OBVIOUS
<1>1. mode \in Modes
  BY DEF Init
<1>2. TaskCount \in 1..N /\ Before(1) = 0
  BY <1>1, Partition
<1>3. Work[Candidates] \in Nat /\ Work[{}] = 0
  BY WorkAssumption
<1>4. 1..0 = {}
  OBVIOUS
<1>5. TypeOK
  BY <1>1, <1>2, <1>3, SizeAssumption DEF Init, TypeOK, Tasks
<1>6. Submission
  <2>1. Before(submitted + 1) = 0 /\ 1..submitted = {}
    BY <1>2, <1>4 DEF Init
  <2>2. Spans(1..submitted) = {}
    BY <2>1 DEF Spans
  <2>3. Width \in Nat
    BY SizeAssumption DEF Width, Minimum
  <2>4. 1..Before(submitted + 1) = {}
    BY <2>1, <1>4
  <2>5. started = Work[1..Before(submitted + 1)]
    BY <2>4, <1>3 DEF Init
  <2>6. started + reserved = Work[Candidates] /\ pc = "run"
    BY <1>3 DEF Init
  <2>7. \A t \in Tasks : status[t] = "new"
    BY DEF Init
  <2>8. submitted - collected <= Width
    BY <2>3 DEF Init
  <2> QED BY <2>2, <2>4, <2>5, <2>6, <2>7, <2>8 DEF Submission
<1>7. Collection
  <2>1. Before(collected + 1) = 0
    BY <1>2 DEF Init
  <2>2. results = [i \in 1..0 |-> i]
    BY <1>4 DEF Init
  <2> QED BY <2>1, <2>2, <1>2, SizeAssumption DEF Init, Collection, Candidates
<1> QED BY <1>5, <1>6, <1>7 DEF Inv

(* Most steps leave the prefixes alone.                                    *)
LEMMA QuietStep ==
  ASSUME Inv,
         UNCHANGED <<mode, fails, submitted, collected, results, error, started>>,
         IF pc' \in {"run", "count", "cancel"} \/ error = 0
         THEN started + reserved' = Work[Candidates] ELSE reserved' = 0,
         \A t \in Tasks : t > submitted => status'[t] = "new",
         pc' \in {"shutdown", "done"} /\ error = 0 => collected = TaskCount,
         pc' = "run" => pc = "run",
         pc' \in {"count", "cancel"} => pc \in {"count", "cancel"} /\ scan' # 0
  PROVE  Submission' /\ Collection'
BY DEF Inv, Submission, Collection, Spans, Span, Before, Tasks, TaskCount,
       SubmittedAt

(* One more task is submitted: its interval follows what is submitted.     *)
LEMMA SubmitStep ==
  ASSUME Inv, Submit
  PROVE  Inv'
<1>1. /\ mode \in Modes /\ submitted \in Nat /\ submitted < TaskCount
      /\ collected \in 0..submitted /\ pc = "run"
      /\ TaskCount \in 1..N
  BY Partition DEF Inv, TypeOK, Submit, CanSubmit, TaskCount
<1>2. /\ mode' = mode /\ submitted' = submitted + 1 /\ pc' = pc
      /\ UNCHANGED <<fails, collected, results, error, scan, counted>>
      /\ TaskCount' = TaskCount /\ Tasks' = Tasks
  BY DEF Submit, abortVars, TaskCount, Tasks
<1> DEFINE k == submitted + 1
           a == Before(k)
           b == Before(k + 1)
<1>3. k \in Tasks
  BY <1>1 DEF Tasks
<1>4. /\ a \in Nat /\ b \in 1..N /\ a < b
      /\ Span(k) = (a + 1)..b
  BY <1>1, <1>3, Partition
<1>5. Before(submitted + 1)' = b
  BY <1>2 DEF Before
<1>6. /\ Spans(1..submitted) = 1..a /\ started = Work[1..a]
      /\ started + reserved = Work[Candidates]
  BY <1>1 DEF Inv, Submission
<1>7. Spans(1..submitted)' = 1..b
  <2>1. Spans(1..submitted)' = Spans(1..submitted) \cup Span(k)
    <3>1. 1..k = 1..submitted \cup {k}
      BY <1>1
    <3>2. Spans(1..submitted)' = UNION {Span(t) : t \in 1..k}
      BY <1>2 DEF Spans, Span
    <3> QED BY <3>1, <3>2 DEF Spans
  <2>2. 1..b = 1..a \cup (a + 1)..b
    BY <1>4
  <2> QED BY <2>1, <2>2, <1>4, <1>6
<1>8. /\ Work[Span(k)] \in Nat /\ Work[1..a] \in Nat
      /\ Work[1..b] = Work[1..a] + Work[Span(k)]
  BY <1>4, WorkOfPrefix
<1>9. /\ Work[Candidates] \in Nat /\ Work[1..b] \in Nat
      /\ Work[1..b] <= Work[Candidates]
  <2>1. b \in Nat /\ N \in Nat /\ b <= N
    BY <1>4, SizeAssumption
  <2> HIDE DEF b
  <2>2. /\ Work[1..b] \in Nat /\ Work[(b + 1)..N] \in Nat
        /\ Work[1..N] = Work[1..b] + Work[(b + 1)..N]
    BY <2>1, WorkOfPrefix
  <2> QED BY <2>2 DEF Candidates
<1>10. /\ started' = Work[1..b] /\ started' + reserved' = Work[Candidates]
       /\ started' \in Nat /\ reserved' \in Nat
  <2>1. started' = started + Work[Span(k)] /\ reserved' = reserved - Work[Span(k)]
    BY DEF Submit
  <2>2. reserved \in Nat /\ started \in Nat
    BY DEF Inv, TypeOK
  <2> HIDE DEF k, a, b
  <2> QED BY <2>1, <2>2, <1>6, <1>8, <1>9
<1>11. status' = [status EXCEPT ![k] = "queued"]
  BY DEF Submit
<1>12. status \in [Tasks -> {"new", "queued", "running", "done", "cancelled"}]
  BY DEF Inv, TypeOK
<1> HIDE DEF k, a, b
<1>13. TypeOK'
  BY <1>1, <1>2, <1>3, <1>10, <1>11, <1>12 DEF Inv, TypeOK, k
<1>14. Submission'
  <2>1. \A t \in Tasks : t > k => status'[t] = "new"
    BY <1>1, <1>3, <1>11, <1>12 DEF Inv, Submission, k, Tasks
  <2>2. mode = "ordered" => k - collected <= Width
    BY <1>1, SizeAssumption DEF Submit, CanSubmit, Width, Minimum, k
  <2>3. Width' = Width /\ pc' = "run" /\ submitted' = k
    BY <1>1, <1>2 DEF Width, k
  <2> QED BY <2>1, <2>2, <2>3, <1>2, <1>5, <1>7, <1>10 DEF Submission
<1>15. Collection'
  <2>1. Before(collected + 1)' = Before(collected + 1)
    BY <1>2 DEF Before
  <2>2. error = 0
    BY <1>1 DEF Inv, Collection
  <2> QED BY <1>1, <1>2, <2>1, <2>2 DEF Inv, Collection
<1> QED BY <1>13, <1>14, <1>15 DEF Inv

(* What is known of the next task in order when its future is done.        *)
LEMMA NextInterval ==
  ASSUME Inv, pc = "run", collected < TaskCount, status[NextTask] = "done"
  PROVE  /\ NextTask \in Tasks /\ NextTask <= submitted
         /\ Before(NextTask) \in Nat /\ Before(NextTask + 1) \in 1..N
         /\ Before(NextTask) < Before(NextTask + 1)
         /\ Span(NextTask) = (Before(NextTask) + 1)..Before(NextTask + 1)
         /\ \A i \in fails : i > Before(NextTask)
         /\ error = 0
<1>1. /\ mode \in Modes /\ collected \in Nat /\ submitted \in Nat
      /\ TaskCount \in 1..N
  BY Partition DEF Inv, TypeOK
<1>2. NextTask \in Tasks
  BY <1>1 DEF NextTask, Tasks
<1>3. NextTask <= submitted
  BY <1>1, <1>2 DEF Inv, Submission, NextTask, Tasks
<1>4. (\A i \in fails : i > Before(NextTask)) /\ error = 0
  BY DEF Inv, Collection, NextTask
<1> QED BY <1>1, <1>2, <1>3, <1>4, Partition

(* Two consecutive runs of results are one.                                *)
LEMMA RunsJoin ==
  ASSUME NEW a \in Nat, NEW b \in Nat, a <= b
  PROVE  [i \in 1..a |-> i] \o [k \in 1..(b - a) |-> a + k] = [i \in 1..b |-> i]
<1> DEFINE s == [i \in 1..a |-> i]
           t == [k \in 1..(b - a) |-> a + k]
           u == [i \in 1..b |-> i]
<1>1. s \in Seq(Nat) /\ Len(s) = a /\ \A i \in 1..a : s[i] = i
  OBVIOUS
<1>2. t \in Seq(Nat) /\ Len(t) = b - a /\ \A k \in 1..(b - a) : t[k] = a + k
  OBVIOUS
<1>3. u \in Seq(Nat) /\ Len(u) = b /\ \A i \in 1..b : u[i] = i
  OBVIOUS
<1> HIDE DEF s, t, u
<1>4. /\ s \o t \in Seq(Nat) /\ Len(s \o t) = b
      /\ \A i \in 1..b : (s \o t)[i] = i
  <2>1. s \o t \in Seq(Nat) /\ Len(s \o t) = Len(s) + Len(t)
    BY <1>1, <1>2, ConcatProperties
  <2>2. ASSUME NEW i \in 1..b PROVE (s \o t)[i] = i
    BY <1>1, <1>2
  <2>3. Len(s \o t) = b
    BY <2>1, <1>1, <1>2
  <2> QED BY <2>1, <2>2, <2>3
<1>5. s \o t = u
  BY <1>3, <1>4
<1> QED BY <1>5 DEF s, t, u

LEMMA CollectStep ==
  ASSUME Inv, Collect
  PROVE  Inv'
<1>1. /\ pc = "run" /\ collected < TaskCount /\ status[NextTask] = "done"
      /\ Span(NextTask) \cap fails = {} /\ collected' = NextTask
      /\ pc' = IF NextTask = TaskCount THEN "shutdown" ELSE "run"
      /\ UNCHANGED <<mode, fails, submitted, status, error, scan, counted,
                     started, reserved>>
  BY DEF Collect, taskVars, abortVars, ledgerVars
<1> DEFINE k == NextTask
           a == Before(k)
           b == Before(k + 1)
<1>2. /\ k \in Tasks /\ k <= submitted /\ a \in Nat /\ b \in 1..N /\ a < b
      /\ Span(k) = (a + 1)..b /\ (\A i \in fails : i > a) /\ error = 0
  BY <1>1, NextInterval
<1>3. Before(collected + 1)' = b /\ TaskCount' = TaskCount /\ Tasks' = Tasks
  BY <1>1 DEF Before, NextTask, TaskCount, Tasks
<1>4. results' = [i \in 1..b |-> i]
  <2>1. Cardinality(Span(k)) = b - a
    BY <1>2, FS_Interval
  <2>2. Min(Span(k)) = a + 1
    <3>1. Span(k) \in SUBSET Nat /\ Span(k) # {} /\ a + 1 \in Span(k)
      BY <1>2
    <3>2. Min(Span(k)) \in Span(k) /\ Min(Span(k)) <= a + 1
      BY <3>1, LeastElement
    <3> QED BY <3>2, <1>2
  <2>3. results = [i \in 1..a |-> i]
    BY DEF Inv, Collection, NextTask
  <2>4. results' = results \o [j \in 1..Cardinality(Span(k)) |->
                                 Min(Span(k)) + j - 1]
    BY DEF Collect
  <2> HIDE DEF k, a, b
  <2>5. [j \in 1..Cardinality(Span(k)) |-> Min(Span(k)) + j - 1]
        = [j \in 1..(b - a) |-> a + j]
    BY <2>1, <2>2, <1>2
  <2>6. b \in Nat /\ a \in Nat /\ a <= b
    BY <1>2
  <2> QED BY <2>3, <2>4, <2>5, <2>6, RunsJoin
<1>5. \A i \in fails : i \in Candidates
  BY DEF Inv, TypeOK
<1> HIDE DEF a, b
<1>6. TypeOK'
  <2>1. results' \in Seq(Candidates)
    BY <1>2, <1>4, SizeAssumption DEF Candidates
  <2>2. collected' \in 0..submitted
    BY <1>1, <1>2 DEF Inv, TypeOK, NextTask
  <2> QED BY <2>1, <2>2, <1>1, <1>3 DEF Inv, TypeOK
<1>7. Submission'
  <2>1. mode = "ordered" => submitted - k <= Width
    BY <1>1, SizeAssumption DEF Inv, TypeOK, Submission, NextTask, Width, Minimum
  <2>2. Width' = Width /\ Spans(1..submitted)' = Spans(1..submitted)
    BY <1>1 DEF Width, Spans, Span
  <2>3. Before(submitted + 1)' = Before(submitted + 1)
    BY <1>1 DEF Before
  <2> QED BY <2>1, <2>2, <2>3, <1>1, <1>2, <1>3 DEF Inv, Submission
<1>8. Collection'
  <2>1. \A i \in fails : i > b
    BY <1>1, <1>2, <1>5, SizeAssumption DEF Candidates
  <2>2. collected' = TaskCount \/ collected' < TaskCount
    <3>1. mode \in Modes /\ TaskCount \in 1..N
      BY Partition DEF Inv, TypeOK
    <3> QED BY <3>1, <1>1, <1>2 DEF Tasks
  <2> QED BY <2>1, <2>2, <1>1, <1>2, <1>3, <1>4 DEF Collection
<1> QED BY <1>6, <1>7, <1>8 DEF Inv

(* The failure that surfaces is the least, and what was submitted by then  *)
(* is what SubmittedAt says of it.                                         *)
LEMMA FailureStep ==
  ASSUME Inv, CollectFailure
  PROVE  Inv'
<1>1. /\ pc = "run" /\ collected < TaskCount /\ status[NextTask] = "done"
      /\ Span(NextTask) \cap fails # {}
      /\ error' = Min(Span(NextTask) \cap fails) /\ pc' = "count" /\ scan' = 1
      /\ UNCHANGED <<mode, fails, submitted, collected, results, status,
                     counted, started, reserved>>
      /\ ~CanSubmit
  BY DEF CollectFailure, taskVars, ledgerVars
<1> DEFINE k == NextTask
           a == Before(k)
           b == Before(k + 1)
<1>2. /\ k \in Tasks /\ k <= submitted /\ a \in Nat /\ b \in 1..N /\ a < b
      /\ Span(k) = (a + 1)..b /\ (\A i \in fails : i > a) /\ error = 0
  BY <1>1, NextInterval
<1>3. /\ mode \in Modes /\ TaskCount \in 1..N /\ submitted \in 0..TaskCount
      /\ collected \in 0..submitted /\ fails \in SUBSET Candidates
  BY Partition DEF Inv, TypeOK
<1>4. error' = Min(fails) /\ error' \in Span(k) \cap fails
  <2>1. fails \in SUBSET Nat /\ b \in Nat
    BY <1>2, <1>3, SizeAssumption DEF Candidates
  <2> HIDE DEF k, a, b
  <2>2. /\ Min(((a + 1)..b) \cap fails) = Min(fails)
        /\ Min(fails) \in ((a + 1)..b) \cap fails
    BY <1>1, <1>2, <2>1, LeastOfInterval DEF k
  <2> QED BY <1>1, <1>2, <2>2 DEF k
<1>5. error' \in Candidates /\ error' # 0
  <2>1. error' \in Candidates
    BY <1>3, <1>4
  <2> QED BY <2>1, SizeAssumption DEF Candidates
<1>6. SubmittedAt(error)' = 1..submitted
  <2>1. SubmittedAt(error)' = IF mode = "barrier" THEN Tasks
                              ELSE 1..Minimum(error' - 1 + Width, N)
    BY <1>1 DEF SubmittedAt, Tasks, TaskCount, Width
  <2>2. CASE mode = "barrier"
    BY <2>1, <2>2, <1>1, <1>3 DEF CanSubmit, Tasks
  <2>3. CASE mode # "barrier"
    <3>1. mode = "ordered"
      BY <2>3, <1>3, SizeAssumption
    <3>2. error' = collected + 1 /\ TaskCount = N
      BY <3>1, <1>4 DEF Span, NextTask, TaskCount
    <3>3. Width \in Nat
      BY SizeAssumption DEF Width, Minimum
    <3>4. submitted - collected <= Width
      BY <3>1 DEF Inv, Submission
    <3>5. submitted = N \/ submitted - collected >= Width
      BY <1>1, <1>3, <3>1, <3>2, <3>3 DEF CanSubmit
    <3>6. Minimum(collected + Width, N) = submitted
      BY <1>3, <3>2, <3>3, <3>4, <3>5, SizeAssumption DEF Minimum
    <3>7. error' - 1 + Width = collected + Width
      BY <3>2, <3>3, <1>3
    <3> QED BY <2>1, <2>3, <3>6, <3>7
  <2> QED BY <2>2, <2>3
<1>7. TaskCount' = TaskCount /\ Tasks' = Tasks /\ Width' = Width
  BY <1>1 DEF TaskCount, Tasks, Width
<1>8. TypeOK'
  BY <1>1, <1>3, <1>5, <1>7 DEF Inv, TypeOK
<1>9. /\ Before(collected + 1)' = Before(collected + 1)
      /\ Before(submitted + 1)' = Before(submitted + 1)
      /\ Spans(1..submitted)' = Spans(1..submitted)
  BY <1>1 DEF Before, Spans, Span
<1>10. Submission'
  BY <1>1, <1>2, <1>7, <1>9 DEF Inv, Submission
<1>11. Collection'
  BY <1>1, <1>4, <1>5, <1>6, <1>9 DEF Inv, Collection
<1> QED BY <1>8, <1>10, <1>11 DEF Inv

LEMMA InvStep == Inv /\ [Next]_vars => Inv'
<1> SUFFICES ASSUME Inv, [Next]_vars PROVE Inv'
  OBVIOUS
<1>t. /\ mode \in Modes /\ TaskCount \in 1..N /\ submitted \in 0..TaskCount
      /\ status \in [Tasks -> {"new", "queued", "running", "done", "cancelled"}]
      /\ scan \in 0..(TaskCount + 1) /\ counted \in SUBSET Tasks
      /\ Tasks = 1..TaskCount
  BY Partition DEF Inv, TypeOK, Tasks
<1>q. ASSUME UNCHANGED <<mode, fails, submitted, collected, results, error,
                         started>>,
             pc' \in {"run", "count", "cancel", "shutdown", "done"},
             status' \in [Tasks -> {"new", "queued", "running", "done", "cancelled"}],
             scan' \in 0..(TaskCount + 1), counted' \in SUBSET Tasks,
             reserved' \in Nat, Submission', Collection'
      PROVE  Inv'
  <2>1. TaskCount' = TaskCount /\ Tasks' = Tasks
    BY <1>q DEF TaskCount, Tasks
  <2>2. TypeOK'
    BY <1>q, <2>1 DEF Inv, TypeOK
  <2> QED BY <1>q, <2>2 DEF Inv
<1>1. CASE Submit
  BY <1>1, SubmitStep
<1>2. CASE Collect
  BY <1>2, CollectStep
<1>3. CASE CollectFailure
  BY <1>3, FailureStep
<1>4. CASE CountPending
  <2>2. scan \in Tasks
    BY <1>4, <1>t DEF CountPending, Inv, Collection
  <2>1. Submission' /\ Collection'
    BY <1>4, <1>t, <2>2, QuietStep
      DEF CountPending, Inv, Submission, Collection, taskVars, ledgerVars
  <2>3. counted' \in SUBSET Tasks
    BY <1>4, <1>t, <2>2 DEF CountPending, NotDone
  <2>4. scan' \in 0..(TaskCount + 1)
    BY <1>4, <1>t DEF CountPending
  <2> QED BY <1>4, <1>q, <1>t, <2>1, <2>3, <2>4
        DEF CountPending, Inv, TypeOK, taskVars, ledgerVars
<1>5. CASE StartCancelling
  <2>1. Submission' /\ Collection'
    BY <1>5, QuietStep DEF StartCancelling, Inv, Submission, Collection, taskVars, ledgerVars
  <2> QED BY <1>5, <1>q, <1>t, <2>1
        DEF StartCancelling, Inv, TypeOK, taskVars, ledgerVars
<1>6. CASE Cancel
  <2>1. /\ UNCHANGED <<mode, fails, pc, submitted, collected, results, error,
                       counted, started, reserved>>
        /\ pc = "cancel" /\ scan <= submitted /\ scan' = scan + 1
        /\ status' = IF status[scan] = "queued"
                     THEN [status EXCEPT ![scan] = "cancelled"] ELSE status
    BY <1>6 DEF Cancel, ledgerVars
  <2>2. status' \in [Tasks -> {"new", "queued", "running", "done", "cancelled"}]
    BY <2>1, <1>t
  <2>3. \A t \in Tasks : t > submitted => status'[t] = status[t]
    BY <2>1, <1>t
  <2>4. Submission' /\ Collection'
    BY <2>1, <2>3, <1>t, QuietStep DEF Inv, Submission, Collection
  <2>5. scan' \in 0..(TaskCount + 1)
    BY <2>1, <1>t
  <2> QED BY <2>1, <2>2, <2>4, <2>5, <1>q, <1>t DEF Inv, TypeOK
<1>7. CASE Release
  <2>1. Submission' /\ Collection'
    BY <1>7, QuietStep DEF Release, Inv, Submission, Collection, taskVars, abortVars
  <2> QED BY <1>7, <1>q, <1>t, <2>1
        DEF Release, Inv, TypeOK, taskVars, abortVars
<1>8. CASE Shutdown
  <2>1. Submission' /\ Collection'
    BY <1>8, QuietStep
      DEF Shutdown, Inv, Submission, Collection, taskVars, abortVars, ledgerVars
  <2> QED BY <1>8, <1>q, <1>t, <2>1
        DEF Shutdown, Inv, TypeOK, taskVars, abortVars, ledgerVars
<1>9. ASSUME NEW t \in Tasks, Start(t) \/ Finish(t)
      PROVE  Inv'
  <2>1. /\ UNCHANGED <<mode, fails, pc, submitted, collected, results, error,
                       scan, counted, started, reserved>>
        /\ status[t] \in {"queued", "running"}
        /\ \E v \in {"running", "done"} : status' = [status EXCEPT ![t] = v]
    BY <1>9 DEF Start, Finish, abortVars, ledgerVars
  <2>2. status' \in [Tasks -> {"new", "queued", "running", "done", "cancelled"}]
    BY <2>1, <1>t
  <2>3. \A u \in Tasks : u > submitted => status'[u] = "new"
    BY <2>1, <1>t DEF Inv, Submission
  <2>4. Submission' /\ Collection'
    BY <2>1, <2>3, QuietStep DEF Inv, Submission, Collection
  <2> QED BY <2>1, <2>2, <2>4, <1>q, <1>t DEF Inv, TypeOK
<1>10. CASE UNCHANGED vars
  <2>1. Submission' /\ Collection'
    BY <1>10, QuietStep DEF vars, Inv, Submission, Collection
  <2> QED BY <1>10, <1>q, <1>t, <2>1 DEF vars, Inv, TypeOK
<1> QED BY <1>1, <1>2, <1>3, <1>4, <1>5, <1>6, <1>7, <1>8, <1>9, <1>10
      DEF Next, Returned
-----------------------------------------------------------------------------
(* Theorems *)

LEMMA Invariance == Spec => []Inv
BY InvInit, InvStep, PTL DEF Spec

(* TypeOK: every future, counter and collected result of _evaluate_barrier *)
(* and _evaluate_ordered stays in its type, for every number of candidates *)
(* and threads and every window.                                           *)
THEOREM TypeCorrect == Spec => []TypeOK
<1>1. Inv => TypeOK
  BY DEF Inv
<1> QED BY <1>1, Invariance, PTL

(* Once every task is collected, every candidate is, and all are charged.  *)
LEMMA Complete ==
  ASSUME Inv, pc \in {"shutdown", "done"}, error = 0
  PROVE  /\ results = [i \in 1..N |-> i] /\ fails = {}
         /\ started = Work[Candidates] /\ reserved = 0
<1>1. /\ mode \in Modes /\ submitted \in 0..TaskCount
      /\ collected \in 0..submitted /\ fails \in SUBSET Candidates
      /\ started \in Nat /\ reserved \in Nat
  BY DEF Inv, TypeOK
<1>2. TaskCount \in 1..N /\ Before(TaskCount + 1) = N
  BY <1>1, Partition
<1>3. collected = TaskCount
  BY DEF Inv, Collection
<1>4. submitted = TaskCount
  BY <1>1, <1>2, <1>3, SizeAssumption
<1>5. results = [i \in 1..N |-> i] /\ \A i \in fails : i > N
  BY <1>2, <1>3 DEF Inv, Collection
<1>6. fails = {}
  BY <1>1, <1>5, SizeAssumption DEF Candidates
<1>7. started = Work[1..N] /\ started + reserved = Work[Candidates]
  BY <1>2, <1>4 DEF Inv, Submission
<1>8. reserved = 0
  BY <1>1, <1>7 DEF Candidates
<1> QED BY <1>5, <1>6, <1>7, <1>8 DEF Candidates

(* ChargeIsDeterministic: what a round is charged when the call returns is *)
(* a function of the failing candidate and never of the threads' timing,   *)
(* so that a replay of the trace charges the same.                         *)
THEOREM ChargeTheorem == Spec => []ChargeIsDeterministic
<1>1. Inv => ChargeIsDeterministic
  <2> SUFFICES ASSUME Inv, pc = "done"
               PROVE  /\ reserved = 0
                      /\ started = IF error = 0 THEN Work[Candidates]
                                   ELSE Work[Spans(SubmittedAt(error))]
    BY DEF ChargeIsDeterministic
  <2>1. CASE error = 0
    BY <2>1, Complete
  <2>2. CASE error # 0
    <3>1. SubmittedAt(error) = 1..submitted
      BY <2>2 DEF Inv, Collection
    <3>2. Spans(1..submitted) = 1..Before(submitted + 1)
      BY DEF Inv, Submission
    <3>3. started = Work[1..Before(submitted + 1)] /\ reserved = 0
      BY <2>2 DEF Inv, Submission
    <3> QED BY <2>2, <3>1, <3>2, <3>3
  <2> QED BY <2>1, <2>2
<1> QED BY <1>1, Invariance, PTL

(* ImplementsBatch: whatever the threads do and whichever failure happens  *)
(* first, the caller of _evaluate_barrier or _evaluate_ordered sees what   *)
(* one ordered call of oracle.evaluate_batch would have given it.          *)
THEOREM RefinesBatch == Spec => ImplementsBatch
<1> DEFINE Out == IF pc # "done" THEN [kind |-> "pending"]
                  ELSE IF error = 0
                       THEN [kind |-> "results", values |-> results]
                       ELSE [kind |-> "error", of |-> error]
<1>1. Init => Batch!Init
  BY DEF Init, Batch!Init, Batch!Pending, Candidates
<1>2. Inv /\ [Next]_vars => [Batch!Finish]_<<fails, Out>>
  <2> SUFFICES ASSUME Inv, [Next]_vars
               PROVE  Batch!Finish \/ UNCHANGED <<fails, Out>>
    OBVIOUS
  <2>1. CASE Shutdown
    <3>1. /\ pc = "shutdown" /\ pc' = "done"
          /\ UNCHANGED <<fails, error, results>>
      BY <2>1 DEF Shutdown, abortVars
    <3>2. Out = Batch!Pending
      BY <3>1 DEF Batch!Pending
    <3>3. CASE error = 0
      <4>1. results = [i \in 1..N |-> i] /\ fails = {}
        BY <3>1, <3>3, Complete
      <4>2. Out' = Batch!Results
        BY <4>1, <3>1, <3>3 DEF Batch!Results
      <4> QED BY <3>1, <3>2, <4>1, <4>2 DEF Batch!Finish
    <3>4. CASE error # 0
      <4>1. error = Min(fails) /\ fails # {}
        BY <3>4 DEF Inv, Collection
      <4>2. Out' = Batch!Error(error)
        BY <3>1, <3>4 DEF Batch!Error
      <4> QED BY <3>1, <3>2, <4>1, <4>2 DEF Batch!Finish, Batch!Min, Min
    <3> QED BY <3>3, <3>4
  <2>2. CASE Submit \/ Collect \/ CollectFailure \/ CountPending
               \/ StartCancelling \/ Cancel \/ Release
    BY <2>2 DEF Submit, Collect, CollectFailure, CountPending,
                StartCancelling, Cancel, Release
  <2>3. CASE \E t \in Tasks : Start(t) \/ Finish(t)
    BY <2>3 DEF Start, Finish, abortVars
  <2>4. CASE UNCHANGED vars
    BY <2>4 DEF vars
  <2> QED BY <2>1, <2>2, <2>3, <2>4 DEF Next, Returned
<1> QED BY <1>1, <1>2, Invariance, PTL DEF Spec, ImplementsBatch, Batch!Spec

-----------------------------------------------------------------------------
(* The boundary of a failed round.  The handler looks at the futures one   *)
(* at a time while the pool keeps running, so the count is exact only from *)
(* behind: what it has passed and found done stays done, and what it has   *)
(* passed and found pending is counted, whatever becomes of it.            *)

CountInv ==
  /\ \A t \in 1..collected : status[t] = "done"
  /\ error = 0 => counted = {}
  /\ error # 0 => /\ NextTask \in 1..submitted /\ status[NextTask] = "done"
                  /\ counted \subseteq (NextTask + 1)..submitted
  /\ pc = "count" =>
       \A t \in Tasks : t < scan /\ NotDone(t) => t \in counted
  /\ pc \in {"cancel", "shutdown", "done"} /\ error # 0 =>
       \A t \in Tasks : NotDone(t) => t \in counted
  /\ NoStragglers

LEMMA CountInit == Init => CountInv
BY SizeAssumption DEF Init, CountInv, NoStragglers

(* A pool thread, or the handler that cancels, never brings a future back: *)
(* what is done stays done and what is over stays over.                    *)
LEMMA CountQuiet ==
  ASSUME Inv, CountInv, pc # "done",
         UNCHANGED <<mode, submitted, collected, error, counted>>,
         pc' = "count" => pc = "count" /\ scan' = scan,
         pc' \in {"cancel", "shutdown", "done"} /\ error # 0 =>
           pc \in {"cancel", "shutdown"},
         \A t \in Tasks : status[t] = "done" => status'[t] = "done",
         \A t \in Tasks : NotDone(t)' => NotDone(t),
         NoStragglers'
  PROVE  CountInv'
<1>1. /\ Tasks' = Tasks /\ NextTask' = NextTask
      /\ Tasks = 1..TaskCount /\ submitted \in 0..TaskCount
      /\ collected \in 0..submitted /\ TaskCount \in 1..N
  BY Partition DEF Inv, TypeOK, Tasks, TaskCount, NextTask
<1>2. \A t \in 1..collected : t \in Tasks
  BY <1>1, SizeAssumption
<1>3. error # 0 => NextTask \in Tasks
  BY <1>1, SizeAssumption DEF CountInv
<1> QED BY <1>1, <1>2, <1>3 DEF CountInv

LEMMA CountStep ==
  ASSUME Inv, CountInv, [Next]_vars
  PROVE  CountInv'
<1>t. /\ mode \in Modes /\ TaskCount \in 1..N /\ Tasks = 1..TaskCount
      /\ submitted \in 0..TaskCount /\ collected \in 0..submitted
      /\ status \in [Tasks -> {"new", "queued", "running", "done", "cancelled"}]
      /\ scan \in 0..(TaskCount + 1) /\ N \in Nat
  BY Partition, SizeAssumption DEF Inv, TypeOK, Tasks
<1>n. pc # "done" => NoStragglers
  BY DEF NoStragglers
<1> USE DEF taskVars, ledgerVars, abortVars
<1>1. CASE Submit
  <2>1. /\ pc = "run" /\ pc' = "run" /\ submitted' = submitted + 1
        /\ UNCHANGED <<mode, collected, error, counted>>
        /\ status' = [status EXCEPT ![submitted + 1] = "queued"]
        /\ Tasks' = Tasks
    BY <1>1 DEF Submit, Tasks, TaskCount
  <2>2. error = 0
    BY <2>1 DEF Inv, Collection
  <2>3. \A t \in 1..collected : status'[t] = "done"
    BY <2>1, <1>t DEF CountInv
  <2> QED BY <2>1, <2>2, <2>3 DEF CountInv, NoStragglers
<1>2. CASE Collect
  <2>1. /\ pc = "run" /\ pc' \in {"run", "shutdown"}
        /\ status[NextTask] = "done" /\ collected' = NextTask
        /\ UNCHANGED <<mode, submitted, status, error, counted>>
    BY <1>2 DEF Collect
  <2>2. error = 0
    BY <2>1 DEF Inv, Collection
  <2>3. \A t \in 1..NextTask : status[t] = "done"
    BY <2>1, <1>t DEF CountInv, NextTask
  <2> QED BY <2>1, <2>2, <2>3 DEF CountInv, NoStragglers
<1>3. CASE CollectFailure
  <2>1. /\ pc = "run" /\ pc' = "count" /\ scan' = 1
        /\ status[NextTask] = "done" /\ collected < TaskCount
        /\ UNCHANGED <<mode, submitted, collected, status, counted>>
        /\ Tasks' = Tasks /\ NextTask' = NextTask
    BY <1>3 DEF CollectFailure, Tasks, TaskCount, NextTask
  <2>2. counted = {} /\ NextTask \in 1..submitted
    BY <2>1, <1>t, NextInterval DEF CountInv, NextTask
  <2>3. \A t \in Tasks : ~(t < scan')
    BY <2>1, <1>t
  <2> QED BY <2>1, <2>2, <2>3 DEF CountInv, NoStragglers
<1>4. CASE CountPending
  <2>1. /\ pc = "count" /\ pc' = "count" /\ scan <= submitted
        /\ counted' = IF NotDone(scan) THEN counted \cup {scan} ELSE counted
        /\ scan' = scan + 1
        /\ UNCHANGED <<mode, submitted, collected, status, error>>
        /\ Tasks' = Tasks /\ NextTask' = NextTask
        /\ \A t \in Tasks : NotDone(t)' = NotDone(t)
    BY <1>4 DEF CountPending, Tasks, TaskCount, NextTask, NotDone
  <2>2. error # 0 /\ scan # 0
    BY <2>1 DEF Inv, Collection
  <2>3. NotDone(scan) => scan \in (NextTask + 1)..submitted
    <3> SUFFICES ASSUME NotDone(scan) PROVE scan \in (NextTask + 1)..submitted
      OBVIOUS
    <3>1. status[scan] # "done"
      BY DEF NotDone
    <3>2. scan \notin 1..collected /\ scan # NextTask
      BY <2>2, <3>1 DEF CountInv
    <3> QED BY <1>t, <2>1, <2>2, <3>2 DEF NextTask
  <2>4. counted' \subseteq (NextTask + 1)..submitted
    BY <2>1, <2>2, <2>3 DEF CountInv
  <2>5. \A t \in Tasks : t < scan' /\ NotDone(t) => t \in counted'
    <3> SUFFICES ASSUME NEW t \in Tasks, t < scan + 1, NotDone(t)
                 PROVE  t \in counted'
      BY <2>1
    <3>1. t < scan \/ t = scan
      BY <1>t
    <3> QED BY <2>1, <3>1 DEF CountInv
  <2> QED BY <2>1, <2>2, <2>4, <2>5 DEF CountInv, NoStragglers
<1>5. CASE StartCancelling
  <2>1. /\ pc = "count" /\ pc' = "cancel" /\ scan > submitted
        /\ UNCHANGED <<mode, submitted, collected, status, error, counted>>
        /\ Tasks' = Tasks /\ NextTask' = NextTask
        /\ \A t \in Tasks : NotDone(t)' = NotDone(t)
    BY <1>5 DEF StartCancelling, Tasks, TaskCount, NextTask, NotDone
  <2>2. \A t \in Tasks : NotDone(t) => t \in counted
    <3> SUFFICES ASSUME NEW t \in Tasks, NotDone(t) PROVE t \in counted
      OBVIOUS
    <3>1. t <= submitted
      <4> SUFFICES ASSUME t > submitted PROVE FALSE
        BY <1>t
      <4>1. status[t] = "new"
        BY DEF Inv, Submission
      <4> QED BY <4>1 DEF NotDone
    <3>2. t < scan
      BY <3>1, <2>1, <1>t
    <3> QED BY <2>1, <3>2 DEF CountInv
  <2> QED BY <2>1, <2>2 DEF CountInv, NoStragglers
<1>6. CASE Cancel
  <2>1. /\ pc = "cancel" /\ pc' = "cancel" /\ scan <= submitted
        /\ status' = IF status[scan] = "queued"
                     THEN [status EXCEPT ![scan] = "cancelled"] ELSE status
        /\ UNCHANGED <<mode, submitted, collected, error, counted>>
    BY <1>6 DEF Cancel
  <2>2. \A t \in Tasks : \/ status'[t] = status[t]
                         \/ status[t] = "queued" /\ status'[t] = "cancelled"
    BY <2>1, <1>t
  <2> QED BY <2>1, <2>2, CountQuiet DEF NotDone, NoStragglers
<1>7. CASE Release
  <2>1. /\ pc = "cancel" /\ pc' = "shutdown"
        /\ UNCHANGED <<mode, submitted, collected, error, counted, status>>
    BY <1>7 DEF Release
  <2> QED BY <2>1, CountQuiet DEF NotDone, NoStragglers
<1>8. CASE Shutdown
  <2>1. /\ pc = "shutdown" /\ pc' = "done"
        /\ \A t \in Tasks : ~NotDone(t)
        /\ UNCHANGED <<mode, submitted, collected, error, counted, status>>
        /\ Tasks' = Tasks
    BY <1>8 DEF Shutdown, Tasks, TaskCount
  <2>2. NoStragglers'
    BY <2>1, <1>t DEF NotDone, NoStragglers
  <2> QED BY <2>1, <2>2, CountQuiet DEF NotDone
<1>9. ASSUME NEW t \in Tasks, Start(t) \/ Finish(t)
      PROVE  CountInv'
  <2>1. /\ UNCHANGED <<mode, pc, submitted, collected, error, scan, counted>>
        /\ status[t] \in {"queued", "running"}
        /\ \E v \in {"running", "done"} : status' = [status EXCEPT ![t] = v]
    BY <1>9 DEF Start, Finish
  <2>2. pc # "done"
    BY <2>1 DEF CountInv, NoStragglers
  <2>3. \A u \in Tasks : \/ status'[u] = status[u]
                         \/ NotDone(u) /\ u = t
    BY <2>1, <1>t DEF NotDone
  <2> QED BY <2>1, <2>2, <2>3, CountQuiet DEF NotDone, NoStragglers
<1>10. CASE UNCHANGED vars
  BY <1>10 DEF vars, CountInv, NoStragglers, NotDone, NextTask, Tasks, TaskCount
<1> QED BY <1>1, <1>2, <1>3, <1>4, <1>5, <1>6, <1>7, <1>8, <1>9, <1>10
      DEF Next, Returned

(* What the handler counted costs no more than the capacity it declares    *)
(* with it: every candidate, or the dearest times the window.              *)
LEMMA CountedWork ==
  ASSUME Inv, CountInv, error # 0
  PROVE  /\ Work[Spans(counted)] <= IF mode = "barrier" THEN Work[Candidates]
                                    ELSE Width * MaxRequest
         /\ mode = "ordered" => Cardinality(Spans(counted)) < Width
<1>1. /\ mode \in Modes /\ TaskCount \in 1..N /\ Tasks = 1..TaskCount
      /\ submitted \in 0..TaskCount /\ collected \in 0..submitted
      /\ counted \subseteq Tasks /\ N \in Nat
      /\ \A t \in Tasks : /\ Before(t) \in Nat /\ Before(t + 1) \in 1..N
                          /\ Span(t) = (Before(t) + 1)..Before(t + 1)
  BY Partition, SizeAssumption DEF Inv, TypeOK, Tasks
<1>2. /\ Spans(counted) \in SUBSET Candidates
      /\ Work[Spans(counted)] \in Nat /\ Work[Candidates] \in Nat
  <2>1. \A t \in counted : Span(t) \in SUBSET Candidates
    BY <1>1 DEF Candidates
  <2>2. Spans(counted) \in SUBSET Candidates
    BY <2>1 DEF Spans
  <2> QED BY <2>2, WorkAssumption
<1>3. CASE mode = "barrier"
  <2> DEFINE S == Spans(counted)  R == Candidates \ S
  <2>1. S \in SUBSET Candidates /\ R \in SUBSET Candidates /\ S \cap R = {}
        /\ S \cup R = Candidates
    BY <1>2
  <2> HIDE DEF S, R
  <2>2. Work[Candidates] = Work[S] + Work[R] /\ Work[S] \in Nat /\ Work[R] \in Nat
    BY <2>1, WorkAssumption
  <2>3. Work[S] <= Work[Candidates]
    BY <2>2
  <2> QED BY <1>3, <2>3 DEF S
<1>4. CASE mode = "ordered"
  <2>1. Spans(counted) = counted
    BY <1>4 DEF Spans, Span
  <2>2. counted \subseteq (collected + 2)..submitted
    BY <1>1 DEF CountInv, NextTask
  <2>3. Cardinality(counted) \in Nat /\ Cardinality(counted) < Width
    <3> DEFINE I == (collected + 2)..submitted
    <3>1. submitted - collected <= Width /\ Width \in Nat /\ collected < submitted
      BY <1>1, <1>4, SizeAssumption
         DEF Inv, Submission, Width, Minimum, CountInv, NextTask
    <3>2. /\ IsFiniteSet(I)
          /\ Cardinality(I) = IF collected + 2 > submitted THEN 0
                              ELSE submitted - (collected + 2) + 1
      <4>1. collected + 2 \in Int /\ submitted \in Int
        BY <1>1
      <4> QED BY <4>1, FS_Interval
    <3>3. IsFiniteSet(counted) /\ Cardinality(counted) <= Cardinality(I)
      BY <2>2, <3>2, FS_Subset
    <3>4. Cardinality(counted) \in Nat
      BY <3>3, FS_CardinalityType
    <3> HIDE DEF I
    <3> QED BY <1>1, <3>1, <3>2, <3>3, <3>4
  <2>4. MaxRequest \in Nat /\ \A i \in counted : Work[{i}] <= MaxRequest
    <3> DEFINE S == {Work[{i}] : i \in Candidates}
    <3>1. \A i \in Candidates : Work[{i}] \in Nat /\ Work[{i}] <= Work[Candidates]
      <4> TAKE i \in Candidates
      <4> DEFINE R == Candidates \ {i}
      <4>1. {i} \in SUBSET Candidates /\ R \in SUBSET Candidates
            /\ {i} \cap R = {} /\ {i} \cup R = Candidates
        OBVIOUS
      <4> HIDE DEF R
      <4>2. Work[Candidates] = Work[{i}] + Work[R] /\ Work[{i}] \in Nat
            /\ Work[R] \in Nat
        BY <4>1, WorkAssumption
      <4> QED BY <4>2
    <3>2. 1 \in Candidates
      BY SizeAssumption DEF Candidates
    <3>3. S \in SUBSET Nat /\ S # {} /\ \A x \in S : x <= Work[Candidates]
      BY <3>1, <3>2
    <3>4. MaxRequest = Max(S)
      BY DEF MaxRequest
    <3> HIDE DEF S
    <3>5. Max(S) \in S /\ \A y \in S : y <= Max(S)
      BY <1>2, <3>3, GreatestElement
    <3>6. counted \subseteq Candidates
      BY <1>2, <2>1
    <3> QED BY <3>3, <3>4, <3>5, <3>6 DEF S
  <2> DEFINE c == Cardinality(counted)
  <2>5. Work[counted] <= c * MaxRequest
    <3>1. counted \in SUBSET Candidates /\ IsFiniteSet(Candidates)
      BY <1>1, <1>2, <2>1, FS_Interval DEF Candidates
    <3> QED BY <3>1, <2>4, WorkAssumption, AdditiveBound
  <2>6. Width \in Nat
    BY SizeAssumption DEF Width, Minimum
  <2>7. c \in Nat /\ c < Width
    BY <2>3
  <2> HIDE DEF c
  <2>8. c * MaxRequest \in Nat /\ Width * MaxRequest \in Nat
        /\ c * MaxRequest <= Width * MaxRequest
    BY <2>4, <2>6, <2>7, ProductGrows
  <2>9. Work[counted] <= Width * MaxRequest
    BY <1>2, <2>1, <2>5, <2>8
  <2> QED BY <1>4, <2>1, <2>3, <2>9
<1> QED BY <1>1, <1>3, <1>4, SizeAssumption

(* BoundaryAccounted: whatever still runs once the handler has counted was *)
(* counted, the count stays within the capacity the audit is given, the    *)
(* failing task is never in it, and no thread outlives the call.           *)
THEOREM BoundaryTheorem == Spec => []BoundaryAccounted
<1>1. Inv /\ CountInv => BoundaryAccounted
  <2> SUFFICES ASSUME Inv, CountInv PROVE BoundaryAccounted
    OBVIOUS
  <2>1. NoStragglers
    BY DEF CountInv
  <2>2. RunningIsCounted
    <3> SUFFICES ASSUME pc \in {"cancel", "shutdown", "done"}, error # 0
                 PROVE  /\ {t \in Tasks : status[t] = "running"} \subseteq counted
                        /\ Work[Spans(counted)] <=
                             IF mode = "barrier" THEN Work[Candidates]
                             ELSE Width * MaxRequest
      BY DEF RunningIsCounted
    <3>1. \A t \in Tasks : status[t] = "running" => t \in counted
      BY DEF CountInv, NotDone
    <3> QED BY <3>1, CountedWork
  <2>3. WithinRuntimeStep
    <3> SUFFICES ASSUME pc = "done", error # 0
                 PROVE  /\ mode = "barrier" => submitted = TaskCount
                        /\ NextTask \notin counted /\ counted \subseteq 1..submitted
                        /\ mode = "ordered" => Cardinality(Spans(counted)) < Width
      BY DEF WithinRuntimeStep
    <3>1. /\ TaskCount \in 1..N /\ submitted \in 0..TaskCount /\ Tasks = 1..TaskCount
          /\ collected \in 0..submitted /\ N \in Nat
      BY Partition, SizeAssumption DEF Inv, TypeOK, Tasks
    <3>2. ASSUME mode = "barrier" PROVE submitted = TaskCount
      <4>1. Tasks = 1..submitted
        BY <3>2 DEF Inv, Collection, SubmittedAt
      <4>2. TaskCount \in 1..TaskCount
        BY <3>1
      <4> QED BY <3>1, <4>1, <4>2
    <3>3. counted \subseteq (NextTask + 1)..submitted /\ NextTask \in 1..submitted
      BY DEF CountInv
    <3>4. NextTask \notin counted /\ counted \subseteq 1..submitted
      BY <3>1, <3>3
    <3> QED BY <3>2, <3>4, CountedWork
  <2> QED BY <2>1, <2>2, <2>3 DEF BoundaryAccounted
<1>2. Inv /\ CountInv /\ [Next]_vars => CountInv'
  BY CountStep
<1> QED BY <1>1, <1>2, CountInit, Invariance, PTL DEF Spec

-----------------------------------------------------------------------------
(* Positions in order *)

(* The rank of a position of a set is a number up to the size of the set,  *)
(* and grows with the position.                                            *)
LEMMA Ranks ==
  ASSUME NEW b \in Nat, NEW S \in SUBSET (1..b)
  PROVE  /\ IsFiniteSet(S) /\ Cardinality(S) \in Nat
         /\ \A p \in S : Rank(S, p) \in 1..Cardinality(S)
         /\ \A p, q \in S : p < q => Rank(S, p) < Rank(S, q)
<1>1. IsFiniteSet(S) /\ Cardinality(S) \in Nat
  <2>1. 1 \in Int /\ b \in Int
    OBVIOUS
  <2>2. IsFiniteSet(1..b)
    BY <2>1, FS_Interval
  <2> QED BY <2>2, FS_Subset, FS_CardinalityType
<1>2. ASSUME NEW p \in S
      PROVE  /\ IsFiniteSet({r \in S : r <= p}) /\ Rank(S, p) \in Nat
             /\ Rank(S, p) <= Cardinality(S) /\ Rank(S, p) # 0
  <2> DEFINE B == {r \in S : r <= p}
  <2>1. B \in SUBSET S /\ p \in B
    OBVIOUS
  <2> HIDE DEF B
  <2>2. IsFiniteSet(B) /\ Cardinality(B) <= Cardinality(S)
    BY <1>1, <2>1, FS_Subset
  <2>3. Cardinality(B) \in Nat /\ Cardinality(B) # 0
    BY <2>1, <2>2, FS_CardinalityType, FS_EmptySet
  <2> QED BY <2>2, <2>3 DEF Rank, B
<1>3. ASSUME NEW p \in S, NEW q \in S, p < q PROVE Rank(S, p) < Rank(S, q)
  <2> DEFINE A == {r \in S : r <= p}  B == {r \in S : r <= q}
  <2>0. ASSUME NEW r \in S PROVE (r <= p => r <= q) /\ q <= q /\ ~(q <= p)
    BY <1>3
  <2>1. A \in SUBSET B /\ q \in B /\ q \notin A
    BY <2>0
  <2>2. IsFiniteSet(B) /\ Cardinality(A) \in Nat /\ Cardinality(B) \in Nat
    BY <1>2 DEF Rank
  <2>3. Cardinality(A) = Rank(S, p) /\ Cardinality(B) = Rank(S, q)
    BY DEF Rank
  <2> HIDE DEF A, B
  <2>4. Cardinality(A) <= Cardinality(B) /\ (Cardinality(A) = Cardinality(B) => A = B)
    BY <2>1, <2>2, FS_Subset
  <2> QED BY <2>1, <2>2, <2>3, <2>4
<1>4. ASSUME NEW p \in S PROVE Rank(S, p) \in 1..Cardinality(S)
  <2>1. Rank(S, p) \in Nat /\ Rank(S, p) <= Cardinality(S) /\ Rank(S, p) # 0
    BY <1>2
  <2> QED BY <1>1, <2>1
<1> QED BY <1>1, <1>3, <1>4

(* A finite set of positions has one of every rank: the least of those of  *)
(* rank i at least has rank i, or the one before it would be such.         *)
LEMMA RankOnto ==
  ASSUME NEW b \in Nat, NEW S \in SUBSET (1..b), NEW i \in 1..Cardinality(S)
  PROVE  /\ Nth(S, i) \in S /\ Rank(S, Nth(S, i)) = i
         /\ \A p \in S : Rank(S, p) = i => p = Nth(S, i)
<1>1. /\ IsFiniteSet(S) /\ Cardinality(S) \in Nat
      /\ \A p \in S : Rank(S, p) \in 1..Cardinality(S)
      /\ \A p, q \in S : p < q => Rank(S, p) < Rank(S, q)
  BY Ranks
<1> DEFINE High == {p \in S : Rank(S, p) >= i}
<1>2. S # {} /\ S \in SUBSET Nat /\ \A p \in S : p <= b
  BY FS_EmptySet
<1>3. Max(S) \in S /\ \A p \in S : p <= Max(S)
  BY <1>2, GreatestElement
<1>4. Rank(S, Max(S)) = Cardinality(S)
  <2>1. {q \in S : q <= Max(S)} = S
    BY <1>3
  <2> QED BY <2>1 DEF Rank
<1>5. High \in SUBSET Nat /\ High # {}
  <2>1. Max(S) \in High
    BY <1>1, <1>3, <1>4
  <2> QED BY <1>2, <2>1
<1> DEFINE p == Min(High)
<1>6. p \in High /\ \A q \in High : p <= q
  BY <1>5, LeastElement
<1> HIDE DEF p
<1>7. p \in S /\ p \in Nat /\ Rank(S, p) \in 1..Cardinality(S) /\ Rank(S, p) >= i
  BY <1>1, <1>6
<1>8. Rank(S, p) = i
  <2> SUFFICES ASSUME Rank(S, p) # i PROVE FALSE
    OBVIOUS
  <2> DEFINE B == {q \in S : q < p}  A == {q \in S : q <= p}
  <2>0. \A q \in S : q \in Nat /\ (q <= p <=> q < p \/ q = p)
    BY <1>2, <1>7
  <2>1. A = B \cup {p} /\ p \notin B /\ B \in SUBSET S /\ B \in SUBSET Nat
    <3>1. p <= p /\ ~(p < p)
      BY <1>7
    <3> QED BY <1>7, <2>0, <3>1
  <2>2. IsFiniteSet(B)
    BY <1>1, <2>1, FS_Subset
  <2>3. Cardinality(A) = Rank(S, p)
    BY DEF Rank
  <2> HIDE DEF A
  <2>4. Cardinality(A) = Cardinality(B) + 1 /\ Cardinality(B) \in Nat
    BY <2>1, <2>2, FS_AddElement, FS_CardinalityType
  <2>5. Cardinality(B) >= i
    BY <1>7, <2>3, <2>4
  <2>6. B # {}
    BY <2>5, FS_EmptySet
  <2>7. Max(B) \in B /\ \A q \in B : q <= Max(B)
    <3>1. \A q \in B : q <= p
      BY <1>7, <2>1
    <3> HIDE DEF B
    <3> QED BY <1>7, <2>1, <2>6, <3>1, GreatestElement
  <2> DEFINE m == Max(B)
  <2>8. {q \in S : q <= m} = B
    <3>1. m \in B /\ \A q \in B : q <= m
      BY <2>7
    <3> HIDE DEF m
    <3>2. m \in Nat /\ m < p
      BY <2>1, <3>1
    <3>3. \A q \in S : q <= m <=> q < p
      BY <1>7, <2>0, <3>1, <3>2
    <3> QED BY <3>3
  <2>9. Rank(S, m) >= i
    BY <2>5, <2>8 DEF Rank
  <2>10. m \in High /\ m < p /\ m \in Nat
    BY <2>1, <2>7, <2>9
  <2> QED BY <1>6, <1>7, <2>10
<1>9. ASSUME NEW q \in S, Rank(S, q) = i PROVE q = p
  <2>1. q \in Nat /\ ~(q < p) /\ ~(p < q)
    BY <1>1, <1>7, <1>8, <1>9
  <2> QED BY <1>7, <2>1
<1>10. \E q \in S : Rank(S, q) = i
  BY <1>7, <1>8
<1>11. Nth(S, i) \in S /\ Rank(S, Nth(S, i)) = i
  BY <1>10 DEF Nth
<1> QED BY <1>9, <1>11

(* The first k of a set: all of it, or those up to its k-th.               *)
LEMMA FirstOfIs ==
  ASSUME NEW b \in Nat, NEW S \in SUBSET (1..b), NEW k \in Nat
  PROVE  /\ FirstOf(S, k) \in SUBSET S /\ IsFiniteSet(FirstOf(S, k))
         /\ k >= Cardinality(S) => FirstOf(S, k) = S
         /\ k <= Cardinality(S) => Cardinality(FirstOf(S, k)) = k
         /\ k <= Cardinality(S) /\ k > 0 => FirstOf(S, k) = {p \in S : p <= Nth(S, k)}
<1>1. /\ IsFiniteSet(S) /\ Cardinality(S) \in Nat
      /\ \A p \in S : Rank(S, p) \in 1..Cardinality(S)
      /\ \A p, q \in S : p < q => Rank(S, p) < Rank(S, q)
  BY Ranks
<1>2. FirstOf(S, k) \in SUBSET S
  BY DEF FirstOf
<1>3. IsFiniteSet(FirstOf(S, k))
  BY <1>1, <1>2, FS_Subset
<1>4. k >= Cardinality(S) => FirstOf(S, k) = S
  <2>1. k >= Cardinality(S) => \A p \in S : Rank(S, p) <= k
    BY <1>1
  <2> QED BY <2>1 DEF FirstOf
<1>5. ASSUME k <= Cardinality(S), k > 0
      PROVE  FirstOf(S, k) = {p \in S : p <= Nth(S, k)} /\ Cardinality(FirstOf(S, k)) = k
  <2> DEFINE n == Nth(S, k)
  <2>1. n \in S /\ Rank(S, n) = k
    BY <1>1, <1>5, RankOnto
  <2> HIDE DEF n
  <2>2. ASSUME NEW p \in S PROVE Rank(S, p) <= k <=> p <= n
    <3>1. p \in Nat /\ n \in Nat /\ Rank(S, p) \in Nat
      BY <1>1, <2>1
    <3>2. (p < n => Rank(S, p) < k) /\ (n < p => k < Rank(S, p)) /\ (n = p => Rank(S, p) = k)
      BY <1>1, <2>1
    <3> QED BY <3>1, <3>2
  <2>3. FirstOf(S, k) = {p \in S : p <= n}
    BY <2>2 DEF FirstOf
  <2> QED BY <2>1, <2>3 DEF Rank, n
<1>6. k = 0 => Cardinality(FirstOf(S, k)) = 0
  <2> SUFFICES ASSUME k = 0 PROVE FirstOf(S, k) = {}
    BY FS_EmptySet
  <2>1. \A p \in S : ~(Rank(S, p) <= k)
    BY <1>1
  <2> QED BY <2>1 DEF FirstOf
<1> QED BY <1>1, <1>2, <1>3, <1>4, <1>5, <1>6

(* Of two sets of which one precedes the other, in their union: ranks, ... *)
LEMMA RankJoin ==
  ASSUME NEW b \in Nat, NEW S \in SUBSET (1..b), NEW T \in SUBSET (1..b),
         \A p \in S, q \in T : p < q
  PROVE  /\ IsFiniteSet(S \cup T)
         /\ Cardinality(S \cup T) = Cardinality(S) + Cardinality(T)
         /\ \A p \in S : Rank(S \cup T, p) = Rank(S, p)
         /\ \A p \in T : Rank(S \cup T, p) = Cardinality(S) + Rank(T, p)
<1>1. IsFiniteSet(S) /\ IsFiniteSet(T) /\ Cardinality(S) \in Nat /\ Cardinality(T) \in Nat
  BY Ranks
<1>2. \A p \in S, q \in T : p < q /\ ~(q <= p) /\ p <= q /\ p # q
  <2>1. \A p \in S : p \in Nat
    OBVIOUS
  <2>2. \A p \in T : p \in Nat
    OBVIOUS
  <2> QED BY <2>1, <2>2
<1>3. ASSUME NEW B \in SUBSET T
      PROVE  IsFiniteSet(S \cup B) /\ Cardinality(S \cup B) = Cardinality(S) + Cardinality(B)
  <2>1. IsFiniteSet(B) /\ Cardinality(B) \in Nat
    BY <1>1, FS_Subset, FS_CardinalityType
  <2>2. S \cap B = {} /\ Cardinality(S \cap B) = 0
    <3>1. S \cap B = {}
      BY <1>2
    <3> QED BY <3>1, FS_EmptySet
  <2>3. /\ IsFiniteSet(S \cup B)
        /\ Cardinality(S \cup B) = Cardinality(S) + Cardinality(B) - Cardinality(S \cap B)
    BY <1>1, <2>1, FS_Union
  <2> QED BY <1>1, <2>1, <2>2, <2>3
<1>4. ASSUME NEW p \in S PROVE Rank(S \cup T, p) = Rank(S, p)
  <2>1. {q \in S \cup T : q <= p} = {q \in S : q <= p}
    BY <1>2
  <2> QED BY <2>1 DEF Rank
<1>5. ASSUME NEW p \in T PROVE Rank(S \cup T, p) = Cardinality(S) + Rank(T, p)
  <2> DEFINE B == {q \in T : q <= p}
  <2>1. {q \in S \cup T : q <= p} = S \cup B
    BY <1>2
  <2>2. B \in SUBSET T
    OBVIOUS
  <2>3. Cardinality(S \cup B) = Cardinality(S) + Cardinality(B)
    BY <1>3, <2>2
  <2> QED BY <2>1, <2>3 DEF Rank
<1> QED BY <1>3, <1>4, <1>5

(* ... the i-th position, ...                                              *)
LEMMA NthJoin ==
  ASSUME NEW b \in Nat, NEW S \in SUBSET (1..b), NEW T \in SUBSET (1..b),
         \A p \in S, q \in T : p < q,
         NEW i \in 1..(Cardinality(S) + Cardinality(T))
  PROVE  Nth(S \cup T, i) = IF i <= Cardinality(S) THEN Nth(S, i)
                            ELSE Nth(T, i - Cardinality(S))
<1>1. Cardinality(S) \in Nat /\ Cardinality(T) \in Nat
  BY Ranks
<1>2. /\ Cardinality(S \cup T) = Cardinality(S) + Cardinality(T)
      /\ \A p \in S : Rank(S \cup T, p) = Rank(S, p)
      /\ \A p \in T : Rank(S \cup T, p) = Cardinality(S) + Rank(T, p)
  BY RankJoin
<1> DEFINE U == S \cup T
<1>3. U \in SUBSET (1..b) /\ i \in 1..Cardinality(U)
  BY <1>2
<1>4. \A p \in U : Rank(U, p) = i => p = Nth(U, i)
  BY <1>3, RankOnto
<1>5. CASE i <= Cardinality(S)
  <2>1. i \in 1..Cardinality(S)
    BY <1>1, <1>5
  <2>2. Nth(S, i) \in S /\ Rank(S, Nth(S, i)) = i
    BY <2>1, RankOnto
  <2> QED BY <1>2, <1>4, <1>5, <2>2
<1>6. CASE ~(i <= Cardinality(S))
  <2> DEFINE j == i - Cardinality(S)
  <2>1. j \in 1..Cardinality(T) /\ Cardinality(S) + j = i
    BY <1>1, <1>6
  <2> HIDE DEF j
  <2>2. Nth(T, j) \in T /\ Rank(T, Nth(T, j)) = j
    BY <2>1, RankOnto
  <2>3. Nth(T, j) \in U /\ Rank(U, Nth(T, j)) = i
    BY <1>2, <2>1, <2>2
  <2> QED BY <1>4, <1>6, <2>3 DEF j
<1> QED BY <1>5, <1>6

(* ... what is picked, ...                                                 *)
LEMMA PickedJoin ==
  ASSUME NEW b \in Nat, NEW S \in SUBSET (1..b), NEW T \in SUBSET (1..b),
         \A p \in S, q \in T : p < q
  PROVE  /\ Picked(S \cup T) = Picked(S) \o Picked(T)
         /\ Len(Picked(S)) = Cardinality(S)
<1>1. Cardinality(S) \in Nat /\ Cardinality(T) \in Nat
  BY Ranks
<1>2. Cardinality(S \cup T) = Cardinality(S) + Cardinality(T)
  BY RankJoin
<1> DEFINE m == Cardinality(S)  n == Cardinality(T)
           x == Picked(S)  y == Picked(T)  z == Picked(S \cup T)
<1>3. /\ x = [i \in 1..m |-> proposals[Nth(S, i)]]
      /\ y = [i \in 1..n |-> proposals[Nth(T, i)]]
      /\ z = [i \in 1..(m + n) |-> proposals[Nth(S \cup T, i)]]
  BY <1>2 DEF Picked
<1>4. \A i \in 1..(m + n) :
        Nth(S \cup T, i) = IF i <= m THEN Nth(S, i) ELSE Nth(T, i - m)
  BY NthJoin
<1> HIDE DEF m, n, x, y, z
<1>5. m \in Nat /\ n \in Nat
  BY <1>1 DEF m, n
<1>6. Len(x) = m /\ Len(y) = n
  BY <1>3, <1>5
<1>7. x \o y = [i \in 1..(m + n) |-> IF i <= m THEN x[i] ELSE y[i - m]]
  <2> DEFINE V == {x[i] : i \in 1..m} \cup {y[i] : i \in 1..n}
  <2>1. x \in [1..m -> V] /\ y \in [1..n -> V]
    BY <1>3
  <2> HIDE DEF V
  <2>2. x \in Seq(V) /\ y \in Seq(V)
    BY <1>5, <2>1
  <2> DEFINE w == x \o y
  <2>3. w \in Seq(V) /\ Len(w) = m + n
    BY <1>6, <2>2
  <2>4. \A i \in 1..(m + n) : w[i] = IF i <= m THEN x[i] ELSE y[i - m]
    BY <1>5, <1>6, <2>2
  <2> HIDE DEF w
  <2>5. w = [i \in 1..(m + n) |-> w[i]]
    BY <2>3
  <2> QED BY <2>4, <2>5 DEF w
<1>8. ASSUME NEW i \in 1..(m + n)
      PROVE  z[i] = IF i <= m THEN x[i] ELSE y[i - m]
  <2>1. i <= m => i \in 1..m
    BY <1>5
  <2>2. ~(i <= m) => i - m \in 1..n
    BY <1>5
  <2> QED BY <1>3, <1>4, <2>1, <2>2
<1>9. z = [i \in 1..(m + n) |-> IF i <= m THEN x[i] ELSE y[i - m]]
  <2>1. z = [i \in 1..(m + n) |-> z[i]]
    BY <1>3
  <2> QED BY <1>8, <2>1
<1> QED BY <1>6, <1>7, <1>9 DEF m, x, y, z

(* ... and the first k.                                                    *)
LEMMA FirstJoin ==
  ASSUME NEW b \in Nat, NEW S \in SUBSET (1..b), NEW T \in SUBSET (1..b),
         \A p \in S, q \in T : p < q, NEW k \in Nat
  PROVE  FirstOf(S \cup T, k) = IF k <= Cardinality(S) THEN FirstOf(S, k)
                               ELSE S \cup FirstOf(T, k - Cardinality(S))
<1>1. /\ Cardinality(S) \in Nat /\ Cardinality(T) \in Nat
      /\ \A p \in S : Rank(S, p) \in 1..Cardinality(S)
      /\ \A p \in T : Rank(T, p) \in 1..Cardinality(T)
  BY Ranks
<1>2. /\ \A p \in S : Rank(S \cup T, p) = Rank(S, p)
      /\ \A p \in T : Rank(S \cup T, p) = Cardinality(S) + Rank(T, p)
  BY RankJoin
<1>3. CASE k <= Cardinality(S)
  <2>1. \A p \in T : ~(Rank(S \cup T, p) <= k)
    BY <1>1, <1>2, <1>3
  <2> QED BY <1>2, <1>3, <2>1 DEF FirstOf
<1>4. CASE ~(k <= Cardinality(S))
  <2>1. ASSUME NEW p \in S PROVE Rank(S \cup T, p) <= k
    <3>1. Rank(S \cup T, p) = Rank(S, p) /\ Rank(S, p) \in 1..Cardinality(S)
      BY <1>1, <1>2
    <3> QED BY <1>1, <1>4, <3>1
  <2>2. \A p \in T : Rank(S \cup T, p) <= k <=> Rank(T, p) <= k - Cardinality(S)
    BY <1>1, <1>2, <1>4
  <2> QED BY <1>4, <2>1, <2>2 DEF FirstOf
<1> QED BY <1>3, <1>4

-----------------------------------------------------------------------------
(* Admission *)

(* What has been taken from the stream, and what of it passed.             *)
Old  == {p \in Distinct : p <= adm.position}
Good == {p \in Passing : p <= adm.position}
Chosen(S) == IF Limited THEN FirstOf(S, limit) ELSE S

AdmissionInv ==
  /\ Len(proposals) \in Nat /\ limit \in Nat
  /\ adm.position \in 0..Len(proposals)
  /\ adm.seen = {proposals[p] : p \in Old} /\ adm.screened = Cardinality(Old)
  /\ adm.admitted = Picked(Chosen(Good)) /\ adm.admissible = Cardinality(Good)
  /\ Limited /\ Cardinality(Good) >= limit =>
       Cardinality({p \in Old : p > Nth(Good, limit)}) < BatchSize

LEMMA SizeIs ==
  ASSUME limit \in Nat
  PROVE  BatchSize \in Nat /\ BatchSize > 0
BY BatchAssumption DEF BatchSize, Limited

(* A candidate ahead has been seen unless it is the first of its key.      *)
LEMMA UnseenIsDistinct ==
  ASSUME AdmissionInv, NEW p \in (adm.position + 1)..Len(proposals)
  PROVE  Unseen(p) <=> p \in Distinct
<1> DEFINE b == Len(proposals)  n == adm.position
<1>1. b \in Nat /\ n \in 0..b /\ p \in (n + 1)..b
  BY DEF AdmissionInv
<1>2. adm.seen = {proposals[q] : q \in Old}
  BY DEF AdmissionInv
<1>3. ASSUME NEW q \in 1..n PROVE proposals[q] \in adm.seen
  <2> DEFINE S == {r \in 1..n : proposals[r] = proposals[q]}
             m == Min(S)
  <2>1. S \in SUBSET Nat /\ S # {}
    OBVIOUS
  <2>2. m \in S /\ \A r \in S : m <= r
    BY <2>1, LeastElement
  <2> HIDE DEF m
  <2>3. m \in 1..n /\ proposals[m] = proposals[q]
    BY <2>2
  <2>4. \A r \in 1..(m - 1) : proposals[r] # proposals[m]
    <3> SUFFICES ASSUME NEW r \in 1..(m - 1), proposals[r] = proposals[m] PROVE FALSE
      OBVIOUS
    <3>1. r \in 1..n /\ r < m
      BY <1>1, <2>3
    <3> QED BY <2>2, <2>3, <3>1
  <2>5. m \in 1..b /\ m <= n
    BY <1>1, <2>3
  <2> QED BY <1>2, <2>3, <2>4, <2>5 DEF Old, Distinct
<1>4. ASSUME NEW q \in Old PROVE q \in 1..n
  BY <1>1 DEF Old, Distinct
<1>5. proposals[p] \in adm.seen <=> \E q \in 1..n : proposals[q] = proposals[p]
  BY <1>2, <1>3, <1>4
<1>6. \A q : q \in 1..(p - 1) <=> q \in 1..n \/ q \in (n + 1)..(p - 1)
  BY <1>1
<1>7. p \in 1..b
  BY <1>1
<1> QED BY <1>5, <1>6, <1>7 DEF Unseen, Distinct

(* The next batch is what is new up to where it ends.                      *)
LEMMA BatchIs ==
  ASSUME AdmissionInv
  PROVE  LET B == NextBatch
             end == IF Cardinality(B) < BatchSize THEN Len(proposals) ELSE Max(B)
         IN  /\ end \in adm.position..Len(proposals)
             /\ B = {p \in Distinct : adm.position < p /\ p <= end}
             /\ B \in SUBSET (1..Len(proposals))
             /\ Cardinality(B) <= BatchSize
<1> DEFINE b == Len(proposals)  n == adm.position  size == BatchSize
           A == {p \in Distinct : n < p}  B == FirstOf(A, size)
           end == IF Cardinality(B) < size THEN b ELSE Max(B)
<1>1. b \in Nat /\ n \in 0..b /\ limit \in Nat
  BY DEF AdmissionInv
<1>2. size \in Nat /\ size > 0
  BY <1>1, SizeIs
<1>3. Distinct \in SUBSET (1..b)
  BY DEF Distinct
<1>4. {p \in (n + 1)..b : Unseen(p)} = A
  <2>1. \A p \in (n + 1)..b : Unseen(p) <=> p \in Distinct
    BY UnseenIsDistinct
  <2>2. \A p \in 1..b : n < p <=> p \in (n + 1)..b
    BY <1>1
  <2>3. \A p \in (n + 1)..b : p \in 1..b
    BY <1>1
  <2> QED BY <1>3, <2>1, <2>2, <2>3
<1>5. NextBatch = B
  BY <1>4 DEF NextBatch
<1>6. A \in SUBSET (1..b)
  BY <1>3
<1> HIDE DEF size, A
<1>7. IsFiniteSet(A) /\ Cardinality(A) \in Nat
  BY <1>1, <1>6, Ranks
<1>8. /\ B \in SUBSET A /\ IsFiniteSet(B)
      /\ size >= Cardinality(A) => B = A
      /\ size <= Cardinality(A) => Cardinality(B) = size
      /\ size <= Cardinality(A) => B = {p \in A : p <= Nth(A, size)}
  BY <1>1, <1>2, <1>6, FirstOfIs
<1>9. Cardinality(B) \in Nat /\ Cardinality(B) <= Cardinality(A)
  BY <1>7, <1>8, FS_Subset, FS_CardinalityType
<1> HIDE DEF B
<1>10. Cardinality(B) <= size
  BY <1>2, <1>7, <1>8
<1>11. CASE Cardinality(B) < size
  <2>1. B = A /\ end = b
    BY <1>2, <1>7, <1>8, <1>9, <1>11
  <2>2. \A p \in Distinct : p <= b
    BY <1>1, <1>3
  <2>3. b \in n..b
    BY <1>1
  <2> QED BY <1>5, <1>6, <1>10, <2>1, <2>2, <2>3 DEF A, size
<1>12. CASE ~(Cardinality(B) < size)
  <2>1. size <= Cardinality(A) /\ end = Max(B)
    BY <1>2, <1>7, <1>9, <1>12
  <2> DEFINE m == Nth(A, size)
  <2>2. m \in A
    <3>1. size \in 1..Cardinality(A)
      BY <1>2, <1>7, <2>1
    <3> QED BY <1>1, <1>6, <3>1, RankOnto
  <2>3. B = {p \in A : p <= m}
    BY <1>8, <2>1
  <2> HIDE DEF m
  <2>4. m \in 1..b /\ n < m
    BY <1>6, <2>2 DEF A
  <2>5. m \in B /\ B \in SUBSET Nat /\ B # {} /\ \A p \in B : p <= m
    <3>1. m <= m /\ \A p \in A : p \in Nat
      BY <1>6, <2>4
    <3> QED BY <2>2, <2>3, <3>1
  <2>6. Max(B) \in B /\ \A p \in B : p <= Max(B)
    BY <2>4, <2>5, GreatestElement
  <2>7. Max(B) = m
    <3> DEFINE x == Max(B)
    <3>1. x \in Nat /\ m \in Nat /\ x <= m /\ m <= x
      BY <2>5, <2>6
    <3> HIDE DEF x
    <3>2. x = m
      BY <3>1
    <3> QED BY <3>2 DEF x
  <2>8. end \in n..b
    BY <1>1, <2>1, <2>4, <2>7
  <2>9. B = {p \in Distinct : n < p /\ p <= end}
    BY <2>1, <2>3, <2>7 DEF A
  <2>10. B \in SUBSET (1..b)
    BY <1>6, <1>8
  <2> QED BY <1>5, <1>10, <2>8, <2>9, <2>10 DEF size
<1> QED BY <1>11, <1>12

LEMMA AdmitPreserves == AdmissionInv /\ AdmitBatch => AdmissionInv'
<1> SUFFICES ASSUME AdmissionInv, AdmitBatch PROVE AdmissionInv'
  OBVIOUS
<1> DEFINE b == Len(proposals)  n == adm.position  B == NextBatch
           kept == {p \in B : proposals[p] \in admissible}
           end == IF Cardinality(B) < BatchSize THEN b ELSE Max(B)
           room == limit - Len(adm.admitted)
           news == IF Limited THEN FirstOf(kept, room) ELSE kept
<1>1. /\ b \in Nat /\ limit \in Nat /\ n \in 0..b
      /\ adm.seen = {proposals[p] : p \in Old} /\ adm.screened = Cardinality(Old)
      /\ adm.admitted = Picked(Chosen(Good)) /\ adm.admissible = Cardinality(Good)
      /\ Limited /\ Cardinality(Good) >= limit =>
           Cardinality({p \in Old : p > Nth(Good, limit)}) < BatchSize
  BY DEF AdmissionInv
<1>2. /\ ~AdmissionOver
      /\ adm'.position = end
      /\ adm'.seen = adm.seen \cup {proposals[p] : p \in B}
      /\ adm'.admitted = adm.admitted \o Picked(news)
      /\ adm'.screened = adm.screened + Cardinality(B)
      /\ adm'.admissible = adm.admissible + Cardinality(kept)
      /\ proposals' = proposals /\ admissible' = admissible /\ limit' = limit
  BY DEF AdmitBatch
<1>3. /\ end \in n..b /\ B = {p \in Distinct : n < p /\ p <= end}
      /\ B \in SUBSET (1..b) /\ Cardinality(B) <= BatchSize
  BY BatchIs
<1> HIDE DEF B, end, news
<1>4. Distinct \in SUBSET (1..b) /\ Passing \in SUBSET Distinct
  BY DEF Distinct, Passing
<1>5. Old \in SUBSET (1..b) /\ Good \in SUBSET Old /\ Good \in SUBSET (1..b)
  BY <1>4 DEF Old, Good
<1>6. kept \in SUBSET B /\ kept \in SUBSET (1..b)
  BY <1>3
<1>7. \A p \in Old, q \in B : p < q
  <2> SUFFICES ASSUME NEW p \in Old, NEW q \in B PROVE p < q
    OBVIOUS
  <2>1. p \in Nat /\ q \in Nat /\ p <= n /\ n < q
    BY <1>3, <1>5 DEF Old
  <2> QED BY <1>1, <2>1
<1>8. \A p \in Good, q \in kept : p < q
  BY <1>5, <1>6, <1>7
<1>9. Distinct' = Distinct /\ Passing' = Passing /\ (Limited' <=> Limited) /\ BatchSize' = BatchSize
  BY <1>2 DEF Distinct, Passing, Limited, BatchSize
<1>10. Old' = Old \cup B
  <2>1. \A p \in Distinct : p <= end <=> p <= n \/ (n < p /\ p <= end)
    BY <1>1, <1>3, <1>4
  <2> QED BY <1>2, <1>3, <1>9, <2>1 DEF Old
<1>11. Good' = Good \cup kept
  <2>1. \A p \in Passing : p <= end <=> p <= n \/ p \in B
    <3>1. \A p \in Distinct : p <= end <=> p <= n \/ (n < p /\ p <= end)
      BY <1>1, <1>3, <1>4
    <3> QED BY <1>3, <1>4, <3>1
  <2>2. kept = {p \in Passing : p \in B}
    BY <1>3 DEF Passing
  <2> QED BY <1>2, <1>9, <2>1, <2>2 DEF Good
<1> HIDE DEF kept
<1>12. /\ IsFiniteSet(Old) /\ Cardinality(Old) \in Nat
       /\ IsFiniteSet(B) /\ Cardinality(B) \in Nat
       /\ IsFiniteSet(Good) /\ Cardinality(Good) \in Nat
       /\ IsFiniteSet(kept) /\ Cardinality(kept) \in Nat
  <2>1. \A S \in SUBSET (1..b) : IsFiniteSet(S) /\ Cardinality(S) \in Nat
    BY <1>1, Ranks
  <2> QED BY <1>3, <1>5, <1>6, <2>1
<1>13. /\ Cardinality(Old \cup B) = Cardinality(Old) + Cardinality(B)
       /\ Cardinality(Good \cup kept) = Cardinality(Good) + Cardinality(kept)
  <2>1. Cardinality(Old \cup B) = Cardinality(Old) + Cardinality(B)
    BY <1>1, <1>3, <1>5, <1>7, RankJoin
  <2>2. Cardinality(Good \cup kept) = Cardinality(Good) + Cardinality(kept)
    BY <1>1, <1>5, <1>6, <1>8, RankJoin
  <2> QED BY <2>1, <2>2
<1>14. Limited => Cardinality(Good) < limit /\ room = limit - Cardinality(Good)
  <2> SUFFICES ASSUME Limited
               PROVE  Cardinality(Good) < limit /\ Len(adm.admitted) = Cardinality(Good)
    OBVIOUS
  <2>1. /\ FirstOf(Good, limit) \in SUBSET Good
        /\ limit >= Cardinality(Good) => FirstOf(Good, limit) = Good
        /\ limit <= Cardinality(Good) => Cardinality(FirstOf(Good, limit)) = limit
    BY <1>1, <1>5, FirstOfIs
  <2>2. FirstOf(Good, limit) \in SUBSET (1..b) /\ {} \in SUBSET (1..b)
    BY <1>5, <2>1
  <2>3. Len(Picked(FirstOf(Good, limit))) = Cardinality(FirstOf(Good, limit))
    <3>1. \A p \in FirstOf(Good, limit), q \in {} : p < q
      OBVIOUS
    <3> QED BY <1>1, <2>2, <3>1, PickedJoin
  <2>4. Len(adm.admitted) = Cardinality(FirstOf(Good, limit))
    BY <1>1, <2>3 DEF Chosen
  <2>5. ~(Len(adm.admitted) >= limit)
    BY <1>2 DEF AdmissionOver
  <2>6. ~(limit <= Cardinality(Good))
    BY <1>1, <2>1, <2>4, <2>5
  <2> QED BY <1>1, <1>12, <2>1, <2>4, <2>6
<1>15. Limited => /\ Chosen(Good) = Good
                  /\ FirstOf(Good \cup kept, limit) = Good \cup FirstOf(kept, room)
  <2> SUFFICES ASSUME Limited
               PROVE  /\ Chosen(Good) = Good
                      /\ FirstOf(Good \cup kept, limit) = Good \cup FirstOf(kept, room)
    OBVIOUS
  <2>1. FirstOf(Good, limit) = Good
    <3>1. limit >= Cardinality(Good)
      BY <1>1, <1>12, <1>14
    <3> QED BY <1>1, <1>5, <3>1, FirstOfIs
  <2>2. ~(limit <= Cardinality(Good))
    BY <1>1, <1>12, <1>14
  <2>3. FirstOf(Good \cup kept, limit) = Good \cup FirstOf(kept, limit - Cardinality(Good))
    <3>1. b \in Nat /\ limit \in Nat /\ Good \in SUBSET (1..b) /\ kept \in SUBSET (1..b)
      BY <1>1, <1>5, <1>6
    <3>2. FirstOf(Good \cup kept, limit) =
            IF limit <= Cardinality(Good) THEN FirstOf(Good, limit)
            ELSE Good \cup FirstOf(kept, limit - Cardinality(Good))
      BY <1>8, <3>1, FirstJoin
    <3> QED BY <2>2, <3>2, Zenon
  <2> QED BY <1>14, <2>1, <2>3 DEF Chosen
<1>16. Chosen(Good) = Good /\ Chosen(Good \cup kept) = Good \cup news
  BY <1>15 DEF Chosen, news
<1>17. news \in SUBSET kept
  <2>1. FirstOf(kept, room) \in SUBSET kept
    BY DEF FirstOf
  <2> QED BY <2>1 DEF news
<1>18. adm'.admitted = Picked(Chosen(Good \cup kept))
  <2>1. news \in SUBSET (1..b) /\ \A p \in Good, q \in news : p < q
    BY <1>6, <1>8, <1>17
  <2>2. Picked(Good \cup news) = Picked(Good) \o Picked(news)
    BY <1>1, <1>5, <2>1, PickedJoin
  <2> QED BY <1>1, <1>2, <1>16, <2>2
<1>19. Limited /\ Cardinality(Good \cup kept) >= limit =>
         Cardinality({p \in Old \cup B : p > Nth(Good \cup kept, limit)}) < BatchSize
  <2> SUFFICES ASSUME Limited, Cardinality(Good \cup kept) >= limit
               PROVE  Cardinality({p \in Old \cup B : p > Nth(Good \cup kept, limit)}) < BatchSize
    OBVIOUS
  <2> DEFINE m == Nth(Good \cup kept, limit)  k == limit - Cardinality(Good)
  <2>1. k \in 1..Cardinality(kept) /\ limit \in 1..(Cardinality(Good) + Cardinality(kept))
        /\ ~(limit <= Cardinality(Good))
    BY <1>1, <1>12, <1>13, <1>14
  <2>2. m = Nth(kept, k)
    BY <1>1, <1>5, <1>6, <1>8, <2>1, NthJoin
  <2>3. Nth(kept, k) \in kept
    BY <1>1, <1>6, <2>1, RankOnto
  <2> HIDE DEF m, k
  <2>4. m \in B
    BY <1>6, <2>2, <2>3
  <2> DEFINE late == {p \in Old \cup B : p > m}
  <2>5. late \in SUBSET (B \ {m})
    <3> SUFFICES ASSUME NEW p \in Old \cup B, p > m PROVE p \in B /\ p # m
      OBVIOUS
    <3>1. p \in Nat /\ m \in Nat
      BY <1>3, <1>5, <2>4
    <3>2. p \notin Old
      BY <1>7, <2>4, <3>1
    <3> QED BY <3>1, <3>2
  <2>6. IsFiniteSet(B \ {m}) /\ Cardinality(B \ {m}) = Cardinality(B) - 1
    BY <1>12, <2>4, FS_RemoveElement
  <2>7. IsFiniteSet(late) /\ Cardinality(late) <= Cardinality(B \ {m}) /\ Cardinality(late) \in Nat
    BY <2>5, <2>6, FS_Subset, FS_CardinalityType
  <2>8. BatchSize \in Nat
    BY <1>1, SizeIs
  <2> HIDE DEF late
  <2>9. Cardinality(late) < BatchSize
    BY <1>3, <1>12, <2>6, <2>7, <2>8
  <2> QED BY <2>9 DEF late, m
<1>20. adm'.seen = {proposals[p] : p \in Old \cup B}
  BY <1>1, <1>2
<1>21. /\ adm'.position \in 0..b
       /\ adm'.screened = Cardinality(Old \cup B) /\ adm'.admissible = Cardinality(Good \cup kept)
  BY <1>1, <1>2, <1>3, <1>13
<1> DEFINE O == Old \cup B  G == Good \cup kept
<1>22. (Old') = O /\ (Good') = G
  BY <1>10, <1>11
<1>23. Picked(Chosen(Good))' = Picked(Chosen(G))
  <2>1. Chosen(Good)' = Chosen(G)
    BY <1>2, <1>9, <1>22 DEF Chosen, FirstOf, Rank
  <2> DEFINE X == Chosen(Good)
  <2>2. Picked(X)' = [i \in 1..Cardinality(X') |-> proposals'[Nth(X', i)]]
    BY DEF Picked, Nth, Rank
  <2> HIDE DEF X
  <2>3. Picked(X)' = Picked(X')
    BY <1>2, <2>2 DEF Picked
  <2> QED BY <2>1, <2>3 DEF X
<1>24. Nth(Good, limit)' = Nth(G, limit)
  BY <1>2, <1>22 DEF Nth, Rank
<1> HIDE DEF O, G
<1> QED BY <1>1, <1>2, <1>9, <1>18, <1>19, <1>20, <1>21, <1>22, <1>23, <1>24 DEF AdmissionInv, O, G

LEMMA BeginEstablishes ==
  ASSUME NEW AllKeys, NEW stream \in Seq(AllKeys), NEW accepted, NEW most \in Nat,
         Begin(stream, accepted, most)
  PROVE  AdmissionInv'
<1>1. /\ proposals' = stream /\ limit' = most /\ Len(stream) \in Nat
      /\ adm' = [position |-> 0, seen |-> {}, admitted |-> <<>>, screened |-> 0,
                 admissible |-> 0]
  BY DEF Begin, NoAdmission
<1>2. (Old') = {} /\ (Good') = {}
  <2>1. (Distinct') \in SUBSET (1..Len(stream)) /\ (Passing') \in SUBSET (Distinct')
    BY <1>1 DEF Distinct, Passing
  <2>2. \A p \in 1..Len(stream) : ~(p <= 0)
    BY <1>1
  <2> QED BY <1>1, <2>1, <2>2 DEF Old, Good
<1>3. Cardinality({}) = 0
  BY FS_EmptySet
<1>4. Picked(Chosen(Good))' = <<>>
  <2>1. Chosen(Good)' = {}
    BY <1>2 DEF Chosen, FirstOf
  <2> DEFINE X == Chosen(Good)
  <2>2. Picked(X)' = [i \in 1..Cardinality(X') |-> proposals'[Nth(X', i)]]
    BY DEF Picked, Nth, Rank
  <2>3. 1..0 = {}
    OBVIOUS
  <2> HIDE DEF X
  <2>4. X' = {} => Picked(X)' = <<>>
    BY <1>3, <2>2, <2>3
  <2> QED BY <2>1, <2>4 DEF X
<1>5. ~(Limited' /\ Cardinality(Good') >= limit')
  BY <1>1, <1>2, <1>3 DEF Limited
<1> QED BY <1>1, <1>2, <1>3, <1>4, <1>5 DEF AdmissionInv

LEMMA InitEstablishes == AdmissionInit => AdmissionInv
<1> SUFFICES ASSUME AdmissionInit PROVE AdmissionInv
  OBVIOUS
<1>1. /\ proposals = <<>> /\ limit = 0 /\ Len(proposals) = 0
      /\ adm = [position |-> 0, seen |-> {}, admitted |-> <<>>, screened |-> 0,
                admissible |-> 0]
  BY DEF AdmissionInit, NoAdmission
<1>2. Old = {} /\ Good = {}
  <2>1. Distinct \in SUBSET (1..0) /\ Passing \in SUBSET Distinct
    BY <1>1 DEF Distinct, Passing
  <2>2. 1..0 = {}
    OBVIOUS
  <2> QED BY <2>1, <2>2 DEF Old, Good
<1>3. Cardinality({}) = 0
  BY FS_EmptySet
<1>4. Picked(Chosen(Good)) = <<>>
  <2>1. Chosen(Good) = {}
    BY <1>2 DEF Chosen, FirstOf
  <2>2. 1..0 = {}
    OBVIOUS
  <2> QED BY <1>3, <2>1, <2>2 DEF Picked
<1>5. ~Limited
  BY <1>1 DEF Limited
<1> QED BY <1>1, <1>2, <1>3, <1>4, <1>5 DEF AdmissionInv

(* What was taken is a piece of the stream that nothing ahead precedes, so *)
(* its first members are those of the whole.                               *)
LEMMA InvGivesPrefix == AdmissionInv => AdmissionIsPrefix
<1> SUFFICES ASSUME AdmissionInv, AdmissionOver PROVE AdmissionIsPrefix
  BY DEF AdmissionIsPrefix
<1> DEFINE b == Len(proposals)  n == adm.position
           rest == {p \in Distinct : n < p}  bad == {p \in Passing : n < p}
<1>1. /\ b \in Nat /\ limit \in Nat /\ n \in 0..b
      /\ adm.seen = {proposals[p] : p \in Old} /\ adm.screened = Cardinality(Old)
      /\ adm.admitted = Picked(Chosen(Good)) /\ adm.admissible = Cardinality(Good)
      /\ Limited /\ Cardinality(Good) >= limit =>
           Cardinality({p \in Old : p > Nth(Good, limit)}) < BatchSize
  BY DEF AdmissionInv
<1>2. Distinct \in SUBSET (1..b) /\ Passing \in SUBSET Distinct
  BY DEF Distinct, Passing
<1>3. /\ Old \in SUBSET (1..b) /\ Good \in SUBSET Old /\ Good \in SUBSET (1..b)
      /\ rest \in SUBSET (1..b) /\ bad \in SUBSET (1..b) /\ bad \in SUBSET rest
  BY <1>2 DEF Old, Good
<1>4. Distinct = Old \cup rest /\ Passing = Good \cup bad /\ Passing \cap Old = Good
  <2>1. \A p \in Distinct : p <= n \/ n < p
    BY <1>1, <1>2
  <2> QED BY <1>2, <2>1 DEF Old, Good
<1>5. \A p \in Old, q \in rest : p < q
  <2> SUFFICES ASSUME NEW p \in Old, NEW q \in rest PROVE p < q
    OBVIOUS
  <2>1. p \in Nat /\ q \in Nat /\ p <= n /\ n < q
    BY <1>3 DEF Old
  <2> QED BY <1>1, <2>1
<1>6. \A p \in Good, q \in bad : p < q
  BY <1>3, <1>5
<1> HIDE DEF rest, bad
<1>7. /\ IsFiniteSet(Old) /\ Cardinality(Old) \in Nat
      /\ IsFiniteSet(Good) /\ Cardinality(Good) \in Nat
  BY <1>1, <1>3, Ranks
<1>8. FirstOf(Distinct, adm.screened) = Old
  <2> DEFINE k == Cardinality(Old)
  <2>1. k \in Nat /\ k <= Cardinality(Old) /\ k >= Cardinality(Old)
    BY <1>7
  <2> HIDE DEF k
  <2>2. FirstOf(Old \cup rest, k) = FirstOf(Old, k)
    BY <1>1, <1>3, <1>5, <2>1, FirstJoin
  <2>3. FirstOf(Old, k) = Old
    BY <1>1, <1>3, <2>1, FirstOfIs
  <2> QED BY <1>1, <1>4, <2>2, <2>3 DEF k
<1>9. ~Limited \/ Cardinality(Good) < limit => n = b
  <2> SUFFICES ASSUME Limited, Cardinality(Good) < limit PROVE ~(Len(adm.admitted) >= limit)
    BY DEF AdmissionOver
  <2>1. limit >= Cardinality(Good)
    BY <1>1, <1>7
  <2>2. Chosen(Good) = Good
    BY <1>1, <1>3, <2>1, FirstOfIs DEF Chosen
  <2>3. Len(Picked(Good)) = Cardinality(Good)
    <3>1. {} \in SUBSET (1..b) /\ \A p \in Good, q \in {} : p < q
      OBVIOUS
    <3> QED BY <1>1, <1>3, <3>1, PickedJoin
  <2> QED BY <1>1, <1>7, <2>2, <2>3
<1>10. n = b => bad = {}
  <2>1. \A p \in 1..b : ~(b < p)
    BY <1>1
  <2> QED BY <1>2, <2>1 DEF bad
<1>11. Chosen(Passing) = Chosen(Good)
  <2>1. CASE bad = {}
    BY <1>4, <2>1
  <2>2. CASE bad # {}
    <3>1. Limited /\ limit <= Cardinality(Good)
      BY <1>1, <1>7, <1>9, <1>10, <2>2
    <3>2. FirstOf(Good \cup bad, limit) = FirstOf(Good, limit)
      BY <1>1, <1>3, <1>6, <3>1, FirstJoin
    <3> QED BY <1>4, <3>1, <3>2 DEF Chosen
  <2> QED BY <2>1, <2>2
<1>12. n < b => Limited /\ Cardinality(Chosen(Good)) = limit
  <2> SUFFICES ASSUME n < b PROVE Limited /\ Cardinality(Chosen(Good)) = limit
    OBVIOUS
  <2>1. Limited /\ limit <= Cardinality(Good)
    BY <1>1, <1>7, <1>9
  <2> QED BY <1>1, <1>3, <2>1, FirstOfIs DEF Chosen
<1>13. ASSUME Limited, Cardinality(Chosen(Good)) = limit
       PROVE  Cardinality({p \in Old : p > Max(Chosen(Good))}) < BatchSize
  <2> DEFINE C == FirstOf(Good, limit)  m == Nth(Good, limit)
  <2>1. limit > 0 /\ Cardinality(C) = limit /\ Chosen(Good) = C
    BY <1>13 DEF Limited, Chosen
  <2>2. C \in SUBSET Good /\ (limit >= Cardinality(Good) => C = Good)
    BY <1>1, <1>3, FirstOfIs
  <2>3. limit <= Cardinality(Good)
    BY <1>1, <1>7, <2>1, <2>2
  <2>4. C = {p \in Good : p <= m}
    BY <1>1, <1>3, <2>1, <2>3, FirstOfIs
  <2>5. m \in Good
    <3>1. limit \in 1..Cardinality(Good)
      BY <1>1, <1>7, <2>1, <2>3
    <3> QED BY <1>1, <1>3, <3>1, RankOnto
  <2>6. Cardinality({p \in Old : p > m}) < BatchSize
    BY <1>1, <1>7, <1>13, <2>3
  <2> HIDE DEF m, C
  <2>7. m \in C /\ C \in SUBSET Nat /\ C # {} /\ \A p \in C : p <= m
    <3>1. m <= m /\ \A p \in Good : p \in Nat
      BY <1>3, <2>5
    <3> QED BY <2>2, <2>4, <2>5, <3>1
  <2>8. Max(C) \in C /\ \A p \in C : p <= Max(C)
    <3>1. m \in Nat
      BY <2>7
    <3> QED BY <2>7, <3>1, GreatestElement
  <2>9. Max(C) = m
    <3> DEFINE x == Max(C)
    <3>1. x \in Nat /\ m \in Nat /\ x <= m /\ m <= x
      BY <2>7, <2>8
    <3> HIDE DEF x
    <3>2. x = m
      BY <3>1
    <3> QED BY <3>2 DEF x
  <2> QED BY <2>1, <2>6, <2>9
<1>14. Cardinality(Passing \cap Old) = adm.admissible
  BY <1>1, <1>4
<1>15. Chosen(Good) = IF Limited THEN FirstOf(Passing, limit) ELSE Passing
  BY <1>11 DEF Chosen
<1> QED BY <1>1, <1>8, <1>12, <1>13, <1>14, <1>15 DEF AdmissionIsPrefix

(* Whatever streams are admitted from, one after the other, with batches   *)
(* of any size and any limit: AdmissionIsPrefix.                           *)
THEOREM AdmissionTheorem ==
  ASSUME NEW AllKeys
  PROVE  AdmissionSpec(AllKeys) => []AdmissionIsPrefix
<1>1. AdmissionInit => AdmissionInv
  BY InitEstablishes
<1>2. AdmissionInv /\ [AdmissionNext(AllKeys)]_admissionVars => AdmissionInv'
  <2> SUFFICES ASSUME AdmissionInv, [AdmissionNext(AllKeys)]_admissionVars
               PROVE  AdmissionInv'
    OBVIOUS
  <2>1. CASE AdmitBatch
    BY <2>1, AdmitPreserves
  <2>2. CASE \E stream \in Seq(AllKeys), accepted \in SUBSET AllKeys, most \in Nat :
               Begin(stream, accepted, most)
    BY <2>2, BeginEstablishes
  <2>3. CASE UNCHANGED admissionVars
    <3>1. /\ proposals' = proposals /\ admissible' = admissible
          /\ limit' = limit /\ adm' = adm
      BY <2>3 DEF admissionVars
    <3>2. (Distinct' = Distinct) /\ (Passing' = Passing) /\ (Limited' <=> Limited)
          /\ BatchSize' = BatchSize
      BY <3>1 DEF Distinct, Passing, Limited, BatchSize
    <3>3. Old' = Old /\ Good' = Good
      BY <3>1, <3>2 DEF Old, Good
    <3>4. Picked(Chosen(Good))' = Picked(Chosen(Good))
      <4> DEFINE X == Chosen(Good)
      <4>1. X' = X
        BY <3>1, <3>2, <3>3 DEF Chosen, FirstOf, Rank
      <4>2. Picked(X)' = [i \in 1..Cardinality(X') |-> proposals'[Nth(X', i)]]
        BY DEF Picked, Nth, Rank
      <4> HIDE DEF X
      <4>3. Picked(X)' = Picked(X)
        BY <3>1, <4>1, <4>2 DEF Picked
      <4> QED BY <4>3 DEF X
    <3>5. Nth(Good, limit)' = Nth(Good, limit)
      BY <3>1, <3>3 DEF Nth, Rank
    <3> QED BY <3>1, <3>2, <3>3, <3>4, <3>5 DEF AdmissionInv
  <2> QED BY <2>1, <2>2, <2>3 DEF AdmissionNext
<1>3. AdmissionInv => AdmissionIsPrefix
  BY InvGivesPrefix
<1> QED BY <1>1, <1>2, <1>3, PTL DEF AdmissionSpec

-----------------------------------------------------------------------------
(* The entries of a cache *)

Once(s) == \A i, j \in 1..Len(s) : s[i] = s[j] => i = j
Keys(s) == {s[i] : i \in 1..Len(s)}

(* Keys that each occur once are as many as the entries.                   *)
LEMMA KeysCounted ==
  ASSUME NEW R, NEW s \in Seq(R), Once(s)
  PROVE  IsFiniteSet(Keys(s)) /\ Cardinality(Keys(s)) = Len(s) /\ Len(s) \in Nat
<1> DEFINE n == Len(s)  f == [i \in 1..n |-> s[i]]
<1>1. n \in Nat
  OBVIOUS
<1>2. IsFiniteSet(1..n) /\ Cardinality(1..n) = n
  <2>1. 1 \in Int /\ n \in Int
    BY <1>1
  <2> QED BY <1>1, <2>1, FS_Interval
<1>3. f \in Surjection(1..n, Keys(s))
  BY DEF Surjection, Keys
<1>4. f \in Injection(1..n, Keys(s))
  BY <1>3 DEF Injection, IsInjective, Surjection, Once
<1> HIDE DEF f, n
<1>5. IsFiniteSet(Keys(s)) /\ Cardinality(Keys(s)) = Cardinality(1..n)
  BY <1>2, <1>3, <1>4, FS_Surjection
<1> QED BY <1>1, <1>2, <1>5 DEF n

LEMMA PutIs ==
  ASSUME NEW R, NEW s \in Seq(R), NEW k \in R, Once(s)
  PROVE  LET t == Put(s, k)
         IN  /\ t \in Seq(R) /\ Once(t) /\ Keys(t) = Keys(s) \cup {k}
             /\ Len(t) = Len(s) \/ Len(t) = Len(s) + 1
<1>1. CASE Contains(s, k)
  BY <1>1 DEF Put, Contains, Keys
<1>2. CASE ~Contains(s, k)
  <2> DEFINE t == Append(s, k)
  <2>1. /\ t \in Seq(R) /\ Len(t) = Len(s) + 1 /\ Len(s) \in Nat
        /\ \A i \in 1..Len(s) : t[i] = s[i]
        /\ t[Len(s) + 1] = k
    OBVIOUS
  <2>2. \A i \in 1..Len(s) : s[i] # k
    BY <1>2 DEF Contains
  <2>3. Put(s, k) = t
    BY <1>2 DEF Put
  <2> HIDE DEF t
  <2>4. \A i : i \in 1..Len(t) <=> i \in 1..Len(s) \/ i = Len(s) + 1
    BY <2>1
  <2>5. Once(t)
    BY <2>1, <2>2, <2>4 DEF Once
  <2>6. Keys(t) = Keys(s) \cup {k}
    BY <2>1, <2>4 DEF Keys
  <2> QED BY <2>1, <2>3, <2>5, <2>6
<1> QED BY <1>1, <1>2

LEMMA WithoutIs ==
  ASSUME NEW R, NEW s \in Seq(R), NEW k, Contains(s, k), Once(s)
  PROVE  LET t == Without(s, k)
         IN  /\ t \in Seq(R) /\ Once(t) /\ Keys(t) = Keys(s) \ {k}
             /\ Len(t) = Len(s) - 1
             /\ k \in Keys(s)
<1> DEFINE n == Len(s)  d == CHOOSE i \in DOMAIN s : s[i] = k
           x == SubSeq(s, 1, d - 1)  y == SubSeq(s, d + 1, n)  t == x \o y
<1>1. n \in Nat /\ DOMAIN s = 1..n /\ \A i \in 1..n : s[i] \in R
  OBVIOUS
<1>2. d \in 1..n /\ s[d] = k
  BY <1>1 DEF Contains
<1>3. Without(s, k) = t
  BY DEF Without, RemoveAt
<1> HIDE DEF d
<1>4. x \in Seq(R) /\ Len(x) = d - 1 /\ \A i \in 1..(d - 1) : x[i] = s[i]
  <2>1. \A i \in 1..(d - 1) : s[i] \in R
    BY <1>1, <1>2
  <2>2. 1 \in Int /\ d - 1 \in Int /\ (1 <= d - 1 => d - 1 - 1 + 1 = d - 1)
        /\ (~(1 <= d - 1) => d - 1 = 0) /\ d - 1 - 1 + 1 = d - 1
    BY <1>1, <1>2
  <2>3. /\ x \in Seq(R) /\ Len(x) = IF 1 <= d - 1 THEN d - 1 - 1 + 1 ELSE 0
        /\ \A i \in 1..(d - 1 - 1 + 1) : x[i] = s[1 + i - 1]
    BY <2>1, <2>2, SubSeqProperties
  <2>4. \A i \in 1..(d - 1) : 1 + i - 1 = i
    BY <1>2
  <2> HIDE DEF x
  <2> QED BY <2>2, <2>3, <2>4
<1>5. y \in Seq(R) /\ Len(y) = n - d /\ \A i \in 1..(n - d) : y[i] = s[d + i]
  <2>1. \A i \in (d + 1)..n : s[i] \in R
    BY <1>1, <1>2
  <2> HIDE DEF n
  <2>2. /\ d + 1 \in Int /\ n \in Int /\ n - (d + 1) + 1 = n - d
        /\ (~(d + 1 <= n) => n - d = 0)
    BY <1>1, <1>2
  <2> USE DEF n
  <2>3. /\ y \in Seq(R) /\ Len(y) = IF d + 1 <= n THEN n - (d + 1) + 1 ELSE 0
        /\ \A i \in 1..(n - (d + 1) + 1) : y[i] = s[d + 1 + i - 1]
    BY <2>1, <2>2, SubSeqProperties
  <2>4. \A i \in 1..(n - d) : d + 1 + i - 1 = d + i
    BY <1>1, <1>2
  <2> HIDE DEF y
  <2> QED BY <2>2, <2>3, <2>4
<1> HIDE DEF x, y
<1>6. /\ t \in Seq(R) /\ Len(t) = n - 1
      /\ \A i \in 1..(n - 1) : t[i] = IF i < d THEN s[i] ELSE s[i + 1]
  <2>1. t \in Seq(R) /\ Len(t) = Len(x) + Len(y)
    <3>1. x \in Seq(R) /\ y \in Seq(R)
      BY <1>4, <1>5
    <3> QED BY <3>1, ConcatProperties
  <2>2. ASSUME NEW i \in 1..(n - 1) PROVE t[i] = IF i < d THEN s[i] ELSE s[i + 1]
    <3>1. /\ i \in 1..(Len(x) + Len(y)) /\ (i < d <=> i <= Len(x))
          /\ (i < d => i \in 1..(d - 1))
          /\ (~(i < d) => i - (d - 1) \in 1..(n - d) /\ d + (i - (d - 1)) = i + 1)
      BY <1>1, <1>2, <1>4, <1>5
    <3>2. t[i] = IF i <= Len(x) THEN x[i] ELSE y[i - Len(x)]
      BY <1>4, <1>5, <3>1
    <3> HIDE DEF t
    <3> QED BY <1>4, <1>5, <3>1, <3>2
  <2>3. Len(x) + Len(y) = n - 1
    BY <1>1, <1>2, <1>4, <1>5
  <2> HIDE DEF t
  <2> QED BY <2>1, <2>2, <2>3
<1> HIDE DEF t
<1> DEFINE from(i) == IF i < d THEN i ELSE i + 1
<1>7. \A i \in 1..(n - 1) : from(i) \in 1..n /\ from(i) # d /\ t[i] = s[from(i)]
  BY <1>1, <1>2, <1>6
<1>8. \A i, j \in 1..(n - 1) : from(i) = from(j) => i = j
  BY <1>1, <1>2
<1>9. \A j \in 1..n : j # d => \E i \in 1..(n - 1) : from(i) = j
  <2> SUFFICES ASSUME NEW j \in 1..n, j # d PROVE \E i \in 1..(n - 1) : from(i) = j
    OBVIOUS
  <2>1. CASE j < d
    <3>1. j \in 1..(n - 1) /\ from(j) = j
      BY <1>1, <1>2, <2>1
    <3> QED BY <3>1
  <2>2. CASE ~(j < d)
    <3>1. j - 1 \in 1..(n - 1) /\ from(j - 1) = j
      BY <1>1, <1>2, <2>2
    <3> QED BY <3>1
  <2> QED BY <2>1, <2>2
<1> HIDE DEF from
<1>10. Once(t)
  BY <1>6, <1>7, <1>8 DEF Once
<1>11. Keys(t) = Keys(s) \ {k}
  <2>1. \A j \in 1..n : s[j] = k => j = d
    BY <1>2 DEF Once
  <2>2. \A i \in 1..(n - 1) : t[i] \in Keys(s) /\ t[i] # k
    BY <1>7, <2>1 DEF Keys
  <2>3. \A j \in 1..n : s[j] # k => \E i \in 1..(n - 1) : t[i] = s[j]
    BY <1>2, <1>7, <1>9
  <2>4. Keys(t) = {t[i] : i \in 1..(n - 1)}
    BY <1>6 DEF Keys
  <2>5. ASSUME NEW e \in Keys(s), e # k PROVE e \in Keys(t)
    <3>1. PICK j \in 1..n : s[j] = e
      BY DEF Keys
    <3> QED BY <2>3, <2>4, <2>5, <3>1
  <2>6. ASSUME NEW e \in Keys(t) PROVE e \in Keys(s) /\ e # k
    BY <2>2, <2>4
  <2> QED BY <2>5, <2>6
<1>12. k \in Keys(s)
  BY <1>2 DEF Keys
<1> QED BY <1>3, <1>6, <1>10, <1>11, <1>12

LEMMA TailIs ==
  ASSUME NEW R, NEW s \in Seq(R), s # <<>>, Once(s)
  PROVE  LET t == Tail(s)
         IN  /\ t \in Seq(R) /\ Once(t) /\ Keys(s) = Keys(t) \cup {s[1]}
             /\ Len(t) = Len(s) - 1 /\ Len(s) \in Nat \ {0}
<1> DEFINE n == Len(s)  t == Tail(s)
<1>1. n \in Nat /\ n # 0
  OBVIOUS
<1>2. t \in Seq(R) /\ Len(t) = n - 1 /\ \A i \in 1..(n - 1) : t[i] = s[i + 1]
  <2>1. /\ t \in Seq(R) /\ Len(t) = n - 1
        /\ \A i \in 1..Len(t) : t[i] = s[i + 1]
    BY HeadTailProperties
  <2> QED BY <2>1
<1> HIDE DEF t
<1>3. Once(t)
  <2>1. \A i \in 1..(n - 1) : i + 1 \in 1..n /\ i \in Int
    BY <1>1
  <2>2. \A i, j \in 1..(n - 1) : i + 1 = j + 1 => i = j
    OBVIOUS
  <2> QED BY <1>2, <2>1, <2>2 DEF Once
<1>4. Keys(s) = Keys(t) \cup {s[1]}
  <2>1. \A i \in 1..n : i = 1 \/ (i - 1 \in 1..(n - 1) /\ (i - 1) + 1 = i)
    BY <1>1
  <2>2. \A i \in 1..(n - 1) : i + 1 \in 1..n
    BY <1>1
  <2>3. 1 \in 1..n
    BY <1>1
  <2>4. ASSUME NEW i \in 1..n PROVE s[i] \in Keys(t) \cup {s[1]}
    <3>1. i # 1 => i - 1 \in 1..Len(t) /\ t[i - 1] = s[i]
      BY <1>2, <2>1
    <3> QED BY <3>1 DEF Keys
  <2>5. ASSUME NEW i \in 1..(n - 1) PROVE t[i] \in Keys(s)
    BY <1>2, <2>2 DEF Keys
  <2> QED BY <1>2, <2>3, <2>4, <2>5 DEF Keys
<1> QED BY <1>1, <1>2, <1>3, <1>4 DEF t

(* A whole lookup by a thread that is alone keeps a cache in its bound.    *)
LEMMA LookedIs ==
  ASSUME NEW R, NEW s \in Seq(R), NEW k \in R, Once(s), NEW b \in Nat,
         Capacity <= b, Len(s) <= b
  PROVE  LET t == Looked(s, k) IN t \in Seq(R) /\ Once(t) /\ Len(t) <= b
<1> DEFINE held == Contains(s, k)
           old  == IF held THEN Without(s, k) ELSE s
           now  == Append(old, k)
<1>1. old \in Seq(R) /\ Once(old) /\ k \notin Keys(old)
      /\ Len(old) = IF held THEN Len(s) - 1 ELSE Len(s)
  <2>1. CASE held
    BY <2>1, WithoutIs
  <2>2. CASE ~held
    BY <2>2 DEF Contains, Keys
  <2> QED BY <2>1, <2>2
<1> HIDE DEF old
<1>2. /\ now \in Seq(R) /\ Len(now) = Len(old) + 1 /\ Len(old) \in Nat
      /\ now = Put(old, k) /\ Once(now)
  <2>1. now = Put(old, k)
    BY <1>1 DEF Put, Contains, Keys
  <2>2. now \in Seq(R) /\ Len(now) = Len(old) + 1 /\ Len(old) \in Nat
    BY <1>1
  <2> QED BY <1>1, <2>1, <2>2, PutIs
<1>3. Looked(s, k) = IF ~held /\ Len(now) > Capacity THEN Tail(now) ELSE now
  BY DEF Looked, old
<1>4. Capacity \in Nat /\ Len(s) \in Nat
  BY CacheAssumption
<1> HIDE DEF now, held
<1>5. CASE ~held /\ Len(now) > Capacity
  <2>1. now # <<>>
    BY <1>2
  <2>2. Tail(now) \in Seq(R) /\ Once(Tail(now)) /\ Len(Tail(now)) = Len(now) - 1
    BY <1>2, <2>1, TailIs
  <2> QED BY <1>1, <1>2, <1>3, <1>4, <1>5, <2>2
<1>6. CASE ~(~held /\ Len(now) > Capacity)
  <2>1. Len(now) <= b
    BY <1>1, <1>2, <1>4, <1>6
  <2> QED BY <1>2, <1>3, <1>6, <2>1
<1> QED BY <1>5, <1>6

(* Several whole lookups by a thread that is alone.                        *)
After(caches, lookups, f, n) ==
  IF n = 0 THEN caches
  ELSE [f[n - 1] EXCEPT ![lookups[n].cache] = Looked(@, lookups[n].key)]

LEMMA AfterExists ==
  ASSUME NEW caches, NEW lookups
  PROVE  \A m \in Nat : \E f : f = [n \in 0..m |-> After(caches, lookups, f, n)]
<1> DEFINE S == {m \in Nat : \E f : f = [n \in 0..m |-> After(caches, lookups, f, n)]}
<1>1. 0 \in S
  <2> DEFINE f == [n \in 0..0 |-> caches]
  <2>1. \A n \in 0..0 : n = 0
    OBVIOUS
  <2>2. f = [n \in 0..0 |-> After(caches, lookups, f, n)]
    BY <2>1 DEF After
  <2> QED BY <2>2
<1>2. ASSUME NEW m \in Nat, m \in S PROVE m + 1 \in S
  <2>1. PICK f : f = [n \in 0..m |-> After(caches, lookups, f, n)]
    BY <1>2
  <2> DEFINE g == [n \in 0..(m + 1) |-> IF n = m + 1 THEN After(caches, lookups, f, n) ELSE f[n]]
  <2>2. ASSUME NEW n \in 0..(m + 1) PROVE g[n] = After(caches, lookups, g, n)
    <3>1. CASE n = 0
      <4>1. 0 \in 0..m /\ 0 # m + 1
        BY <1>2
      <4>2. g[n] = f[0] /\ f[0] = After(caches, lookups, f, 0)
        BY <2>1, <3>1, <4>1
      <4> QED BY <4>2, <3>1 DEF After
    <3>2. CASE n # 0
      <4>1. n - 1 \in 0..m /\ n - 1 \in 0..(m + 1) /\ n - 1 # m + 1
        BY <3>2
      <4>2. g[n - 1] = f[n - 1]
        BY <4>1
      <4>3. g[n] = After(caches, lookups, f, n)
        <5>1. CASE n = m + 1
          BY <5>1
        <5>2. CASE n # m + 1
          <6>1. n \in 0..m /\ g[n] = f[n]
            BY <5>2
          <6> HIDE DEF g
          <6> QED BY <6>1, <2>1
        <5> QED BY <5>1, <5>2
      <4> HIDE DEF g
      <4> QED BY <4>2, <4>3, <3>2 DEF After
    <3> QED BY <3>1, <3>2
  <2>3. g = [n \in 0..(m + 1) |-> g[n]]
    OBVIOUS
  <2> HIDE DEF g
  <2>4. g = [n \in 0..(m + 1) |-> After(caches, lookups, g, n)]
    BY <2>2, <2>3
  <2> QED BY <2>4
<1> HIDE DEF S
<1>3. \A m \in Nat : m \in S
  BY <1>1, <1>2, EveryNatural
<1> QED BY <1>3 DEF S

(* Caches of routes of R, each route once, in a bound.                     *)
CachesIn(R, b) == {f \in [Caches -> Seq(R)] : \A c \in Caches : Once(f[c]) /\ Len(f[c]) <= b}

LEMMA LookedAllIs ==
  ASSUME NEW R, NEW b \in Nat, Capacity <= b, NEW lookups \in Lookups(R),
         NEW caches \in CachesIn(R, b)
  PROVE  LookedAll(caches, lookups) \in CachesIn(R, b)
<1> DEFINE m == Len(lookups)
           f == CHOOSE f : f = [n \in 0..m |-> After(caches, lookups, f, n)]
<1>1. /\ m \in Nat
      /\ \A n \in 1..m : lookups[n] \in [cache : Caches, key : R]
  <2> DEFINE L == [cache : Caches, key : R]
  <2>1. lookups \in Seq(L)
    BY DEF Lookups
  <2> HIDE DEF L
  <2>2. m \in Nat /\ \A n \in 1..m : lookups[n] \in L
    BY <2>1
  <2> QED BY <2>2 DEF L
<1>2. f = [n \in 0..m |-> After(caches, lookups, f, n)]
  <2>1. \E h : h = [n \in 0..m |-> After(caches, lookups, h, n)]
    BY <1>1, AfterExists
  <2> QED BY <2>1
<1>3. LookedAll(caches, lookups) = f[m]
  BY DEF LookedAll, After
<1> HIDE DEF f, m
<1> DEFINE S == {n \in Nat : n <= m => f[n] \in CachesIn(R, b)}
<1>4. 0 \in S
  BY <1>1, <1>2 DEF After
<1>5. ASSUME NEW n \in Nat, n \in S PROVE n + 1 \in S
  <2> SUFFICES ASSUME n + 1 <= m PROVE f[n + 1] \in CachesIn(R, b)
    BY <1>5
  <2>1. n \in 0..m /\ n + 1 \in 1..m /\ n + 1 \in 0..m /\ n + 1 # 0 /\ (n + 1) - 1 = n
    BY <1>1
  <2> DEFINE l == lookups[n + 1]  g == f[n]
  <2>2. l.cache \in Caches /\ l.key \in R
    BY <1>1, <2>1
  <2>3. f[n + 1] = [g EXCEPT ![l.cache] = Looked(@, l.key)]
    BY <1>2, <2>1 DEF After
  <2>4. g \in CachesIn(R, b)
    BY <1>1, <1>5, <2>1
  <2> HIDE DEF l, g
  <2>5. LET t == Looked(g[l.cache], l.key) IN t \in Seq(R) /\ Once(t) /\ Len(t) <= b
    <3>1. g[l.cache] \in Seq(R) /\ Once(g[l.cache]) /\ Len(g[l.cache]) <= b
      BY <2>2, <2>4 DEF CachesIn
    <3> QED BY <2>2, <3>1, LookedIs
  <2> QED BY <2>2, <2>3, <2>4, <2>5 DEF CachesIn
<1> HIDE DEF S
<1>6. \A n \in Nat : n \in S
  BY <1>4, <1>5, EveryNatural
<1>7. m \in S
  BY <1>1, <1>6 DEF m
<1> QED BY <1>1, <1>3, <1>7 DEF S

-----------------------------------------------------------------------------
(* The threads *)

Steps == {"idle", "ask", "hit", "miss", "check", "evict"}
Ahead == {"hit", "check", "evict"}

(* The threads at one of some steps of a lookup in cache c; what those     *)
(* that have taken an entry out have in hand; and what is not lost.        *)
On(c, steps) == {w \in Evaluators : worker[w].step \in steps /\ Lookup(w).cache = c}
Held(c) == {Lookup(w).key : w \in On(c, {"hit"})}
Known(c) == Keys(cache[c]) \cup Held(c)

(* Every thread between taking out and putting back leaves room for its    *)
(* entry, and while one is about to evict, what is known of the cache and  *)
(* the threads that are not exceed the capacity.                           *)
Sound(c) ==
  /\ Once(cache[c])
  /\ Len(cache[c]) + Cardinality(On(c, {"hit"}))
       <= Capacity + Cardinality(Evaluators) - 1 + Cardinality(On(c, {"check", "evict"}))
  /\ On(c, {"evict"}) # {} =>
       Cardinality(Known(c)) + Cardinality(Evaluators) - Cardinality(On(c, {"evict"})) > Capacity

ThreadsTyped(R) ==
  /\ worker \in [Evaluators -> [task : Nat, todo : Lookups(R), step : Steps]]
  /\ \A w \in Evaluators : worker[w].step \notin {"idle", "ask"} => worker[w].todo # <<>>

CacheType(R) == cache \in [Caches -> Seq(R)] /\ ThreadsTyped(R)

CacheInv(R) == CacheType(R) /\ \A c \in Caches : Sound(c)

LEMMA ThreadsFinite ==
  /\ Capacity \in Nat /\ Capacity > 0 /\ IsFiniteSet(Evaluators)
  /\ Cardinality(Evaluators) \in Nat /\ Cardinality(Evaluators) > 0
  /\ \A T \in SUBSET Evaluators :
       IsFiniteSet(T) /\ Cardinality(T) \in Nat /\ Cardinality(T) <= Cardinality(Evaluators)
<1>1. Cardinality(Evaluators) \in Nat /\ Cardinality(Evaluators) # 0
  BY CacheAssumption, FS_CardinalityType, FS_EmptySet
<1> QED BY <1>1, CacheAssumption, FS_Subset, FS_CardinalityType

LEMMA KnownFinite ==
  ASSUME NEW R, CacheType(R), NEW c \in Caches, Once(cache[c])
  PROVE  /\ IsFiniteSet(Known(c)) /\ Cardinality(Known(c)) \in Nat
         /\ Len(cache[c]) \in Nat /\ Len(cache[c]) <= Cardinality(Known(c))
<1>1. cache[c] \in Seq(R)
  BY DEF CacheType, ThreadsTyped
<1>2. /\ IsFiniteSet(Keys(cache[c])) /\ Cardinality(Keys(cache[c])) = Len(cache[c])
      /\ Len(cache[c]) \in Nat
  BY <1>1, KeysCounted
<1>3. IsFiniteSet(On(c, {"hit"}))
  BY ThreadsFinite DEF On
<1>4. IsFiniteSet(Held(c))
  <2> DEFINE f == [w \in On(c, {"hit"}) |-> Lookup(w).key]
  <2>1. f \in Surjection(On(c, {"hit"}), Held(c))
    BY DEF Surjection, Held
  <2> HIDE DEF f
  <2> QED BY <1>3, <2>1, FS_Surjection
<1>5. IsFiniteSet(Known(c)) /\ Cardinality(Known(c)) \in Nat
  BY <1>2, <1>4, FS_Union, FS_CardinalityType DEF Known
<1>6. Cardinality(Keys(cache[c])) <= Cardinality(Known(c))
  <2>1. Keys(cache[c]) \in SUBSET Known(c)
    BY DEF Known
  <2> QED BY <1>5, <2>1, FS_Subset
<1> QED BY <1>2, <1>5, <1>6

(* A thread moves alone: who is on what changes by it.                     *)
Moves(w, s2) ==
  /\ worker'[w].step = s2
  /\ s2 \notin {"idle", "ask"} => worker'[w].todo = worker[w].todo
  /\ \A v \in Evaluators \ {w} : worker'[v] = worker[v]

LEMMA OneMoves ==
  ASSUME NEW R, CacheType(R), NEW w \in Evaluators, NEW s2 \in Steps, Moves(w, s2),
         NEW c \in Caches, NEW T \in SUBSET Ahead
  PROVE  /\ On(c, T)' = (On(c, T) \ {w})
                           \cup {v \in {w} : s2 \in T /\ Lookup(w).cache = c}
         /\ \A v \in Evaluators \ {w} : Lookup(v)' = Lookup(v)
<1>1. /\ worker'[w].step = s2
      /\ s2 \in Ahead => worker'[w].todo = worker[w].todo
      /\ \A v \in Evaluators \ {w} : worker'[v] = worker[v]
  BY DEF Moves, Ahead
<1>2. \A v \in Evaluators \ {w} : Lookup(v)' = Lookup(v)
  BY <1>1 DEF Lookup
<1>3. s2 \in T => Lookup(w)' = Lookup(w)
  BY <1>1 DEF Lookup, Ahead
<1>4. w \in On(c, T)' <=> s2 \in T /\ Lookup(w).cache = c
  BY <1>1, <1>3 DEF On
<1>5. \A v \in Evaluators \ {w} : v \in On(c, T)' <=> v \in On(c, T)
  BY <1>1, <1>2 DEF On
<1>6. (On(c, T)') \in SUBSET Evaluators /\ On(c, T) \in SUBSET Evaluators
  BY DEF On
<1> QED BY <1>2, <1>4, <1>5, <1>6

(* The caches and threads that a step of w leaves alone stay sound.        *)
LEMMA OthersSound ==
  ASSUME NEW R, CacheInv(R), NEW w \in Evaluators, NEW s2 \in Steps, Moves(w, s2),
         NEW c \in Caches, cache'[c] = cache[c],
         (worker[w].step \notin Ahead /\ s2 \notin Ahead) \/ Lookup(w).cache # c
  PROVE  Sound(c)'
<1>0. CacheType(R)
  BY DEF CacheInv
<1>1. \A T \in SUBSET Ahead : On(c, T)' = On(c, T)
  <2> SUFFICES ASSUME NEW T \in SUBSET Ahead PROVE On(c, T)' = On(c, T)
    OBVIOUS
  <2>1. On(c, T)' = (On(c, T) \ {w}) \cup {v \in {w} : s2 \in T /\ Lookup(w).cache = c}
    BY <1>0, OneMoves
  <2>2. w \notin On(c, T) /\ ~(s2 \in T /\ Lookup(w).cache = c)
    BY DEF On
  <2> QED BY <2>1, <2>2
<1>2. /\ On(c, {"hit"})' = On(c, {"hit"})
      /\ On(c, {"check", "evict"})' = On(c, {"check", "evict"})
      /\ On(c, {"evict"})' = On(c, {"evict"})
  BY <1>1 DEF Ahead
<1>3. w \notin On(c, {"hit"})
  BY DEF On, Ahead
<1>4. \A v \in On(c, {"hit"}) : Lookup(v)' = Lookup(v)
  <2>1. \A v \in Evaluators \ {w} : Lookup(v)' = Lookup(v)
    <3>1. {"hit"} \in SUBSET Ahead
      BY DEF Ahead
    <3> QED BY <1>0, <3>1, OneMoves
  <2>2. On(c, {"hit"}) \in SUBSET (Evaluators \ {w})
    BY <1>3 DEF On
  <2> QED BY <2>1, <2>2
<1>5. Held(c)' = Held(c)
  <2>1. Held(c)' = {Lookup(v)'.key : v \in On(c, {"hit"})'}
    BY DEF Held
  <2> QED BY <1>2, <1>4, <2>1 DEF Held
<1>6. Known(c)' = Known(c)
  BY <1>5 DEF Known
<1>7. Sound(c)
  BY DEF CacheInv
<1> QED BY <1>2, <1>6, <1>7 DEF Sound

LEMMA StepsMove ==
  ASSUME NEW R, CacheType(R), NEW w \in Evaluators, worker[w].todo # <<>>
  PROVE  /\ \A s2 \in Steps \ {"idle", "ask"} :
              Goto(w, s2) => Moves(w, s2) /\ ThreadsTyped(R)'
         /\ Resolved(w) => Moves(w, "ask") /\ ThreadsTyped(R)'
<1> DEFINE T == [task : Nat, todo : Lookups(R), step : Steps]
<1>1. /\ worker \in [Evaluators -> T]
      /\ \A v \in Evaluators : worker[v].step \notin {"idle", "ask"} => worker[v].todo # <<>>
  BY DEF CacheType, ThreadsTyped
<1>2. worker[w] \in T
  BY <1>1
<1>3. worker[w].todo # <<>> => Tail(worker[w].todo) \in Lookups(R)
  <2> DEFINE L == [cache : Caches, key : R]
  <2>1. worker[w].todo \in Seq(L)
    BY <1>2 DEF Lookups
  <2> HIDE DEF L
  <2>2. worker[w].todo # <<>> => Tail(worker[w].todo) \in Seq(L)
    BY <2>1, HeadTailProperties
  <2> QED BY <2>2 DEF Lookups, L
<1>4. ASSUME NEW r \in T, worker' = [worker EXCEPT ![w] = r],
             r.step \notin {"idle", "ask"} => r.todo # <<>>
      PROVE  /\ worker' \in [Evaluators -> T] /\ worker'[w] = r
             /\ \A v \in Evaluators \ {w} : worker'[v] = worker[v]
             /\ \A v \in Evaluators :
                  worker'[v].step \notin {"idle", "ask"} => worker'[v].todo # <<>>
  <2> HIDE DEF T
  <2>1. worker' \in [Evaluators -> T] /\ worker'[w] = r
        /\ \A v \in Evaluators \ {w} : worker'[v] = worker[v]
    BY <1>1, <1>4
  <2> QED BY <1>1, <1>4, <2>1
<1>5. ASSUME NEW s2 \in Steps \ {"idle", "ask"}, Goto(w, s2), worker[w].todo # <<>>
      PROVE  /\ Moves(w, s2) /\ worker' \in [Evaluators -> T]
             /\ \A v \in Evaluators :
                  worker'[v].step \notin {"idle", "ask"} => worker'[v].todo # <<>>
  <2> DEFINE r == [task |-> worker[w].task, todo |-> worker[w].todo, step |-> s2]
  <2>1. r \in T /\ r.step = s2 /\ r.todo = worker[w].todo
    BY <1>2
  <2>2. [worker[w] EXCEPT !.step = s2] = r
    BY <1>2
  <2>3. worker' = [worker EXCEPT ![w] = r]
    BY <1>5, <2>2 DEF Goto
  <2> HIDE DEF r, T
  <2> QED BY <1>4, <1>5, <2>1, <2>3 DEF Moves
<1>6. ASSUME Resolved(w), worker[w].todo # <<>>
      PROVE  /\ Moves(w, "ask") /\ worker' \in [Evaluators -> T]
             /\ \A v \in Evaluators :
                  worker'[v].step \notin {"idle", "ask"} => worker'[v].todo # <<>>
  <2> DEFINE r == [task |-> worker[w].task, todo |-> Tail(worker[w].todo), step |-> "ask"]
  <2>1. r \in T /\ r.step = "ask"
    BY <1>2, <1>3, <1>6 DEF Steps
  <2> DEFINE q == [task |-> worker[w].task, todo |-> worker[w].todo, step |-> "ask"]
  <2>2. [worker[w] EXCEPT !.step = "ask"] = q
    BY <1>2
  <2>3. [q EXCEPT !.todo = Tail(q.todo)] = r
    <3> DEFINE d == Tail(q.todo)  k == worker[w].task  n == worker[w].todo
    <3>1. d = Tail(worker[w].todo)
      OBVIOUS
    <3> HIDE DEF d
    <3>2. [q EXCEPT !.todo = d] = [task |-> k, todo |-> d, step |-> "ask"]
      OBVIOUS
    <3> QED BY <3>1, <3>2 DEF d
  <2> DEFINE f == [worker EXCEPT ![w] = q]
  <2>4. f = [worker EXCEPT ![w].step = "ask"] /\ f[w] = q
    BY <1>1, <2>2
  <2>5. worker' = [f EXCEPT ![w] = r]
    <3>1. worker' = [[worker EXCEPT ![w].step = "ask"] EXCEPT ![w].todo = Tail(@)]
      BY <1>6 DEF Resolved
    <3> HIDE DEF f, q, r
    <3>2. worker' = [f EXCEPT ![w].todo = Tail(@)]
      BY <2>4, <3>1
    <3> QED BY <2>3, <2>4, <3>2
  <2>6. worker' = [worker EXCEPT ![w] = r]
    BY <1>1, <2>5
  <2> HIDE DEF r, T
  <2> QED BY <1>4, <1>6, <2>1, <2>6 DEF Moves
<1> QED BY <1>5, <1>6 DEF ThreadsTyped

(* What a thread that has something to look up is about.                   *)
LEMMA LooksUp ==
  ASSUME NEW R, CacheInv(R), NEW w \in Evaluators, worker[w].todo # <<>>
  PROVE  /\ Lookup(w).cache \in Caches /\ Lookup(w).key \in R
         /\ cache[Lookup(w).cache] \in Seq(R) /\ Sound(Lookup(w).cache)
         /\ worker[w].step \in Steps
<1> DEFINE L == [cache : Caches, key : R]  T == [task : Nat, todo : Lookups(R), step : Steps]
<1>1. worker \in [Evaluators -> T] /\ cache \in [Caches -> Seq(R)]
  BY DEF CacheInv, CacheType, ThreadsTyped
<1>2. worker[w].todo \in Seq(L) /\ worker[w].step \in Steps
  <2>1. worker[w] \in T
    BY <1>1
  <2> QED BY <2>1 DEF Lookups
<1> HIDE DEF L
<1>3. Lookup(w) \in L
  BY <1>2 DEF Lookup
<1>4. Lookup(w).cache \in Caches /\ Lookup(w).key \in R
  BY <1>3 DEF L
<1> QED BY <1>1, <1>2, <1>4 DEF CacheInv

(* How the counts of its cache follow a thread.                            *)
LEMMA CountsFollow ==
  ASSUME NEW R, CacheInv(R), NEW w \in Evaluators, NEW s2 \in Steps, Moves(w, s2),
         worker[w].todo # <<>>, NEW c \in Caches, Lookup(w).cache = c,
         NEW T \in SUBSET Ahead
  PROVE  /\ Cardinality(On(c, T)) \in Nat
         /\ Cardinality(On(c, T))' =
              Cardinality(On(c, T)) - (IF worker[w].step \in T THEN 1 ELSE 0)
                                       + (IF s2 \in T THEN 1 ELSE 0)
         /\ On(c, T)' = (On(c, T) \ {w}) \cup {v \in {w} : s2 \in T}
         /\ worker[w].step \notin T => Cardinality(On(c, T)) <= Cardinality(Evaluators) - 1
         /\ Cardinality(On(c, T))' <= Cardinality(Evaluators)
<1> DEFINE A == On(c, T)  B == {v \in {w} : s2 \in T}
<1>2. CacheType(R)
  BY DEF CacheInv
<1>3. On(c, T)' = (A \ {w}) \cup {v \in {w} : s2 \in T /\ Lookup(w).cache = c}
  BY <1>2, OneMoves
<1>4. On(c, T)' = (A \ {w}) \cup B
  BY <1>3
<1>5. w \in A <=> worker[w].step \in T
  BY DEF On
<1>6. A \in SUBSET Evaluators /\ ((A \ {w}) \cup B) \in SUBSET Evaluators
  BY DEF On
<1> HIDE DEF A
<1>7. IsFiniteSet(A) /\ Cardinality(A) \in Nat /\ Cardinality(A) <= Cardinality(Evaluators)
  BY <1>6, ThreadsFinite
<1>8. /\ IsFiniteSet(A \ {w})
      /\ Cardinality(A \ {w}) = IF w \in A THEN Cardinality(A) - 1 ELSE Cardinality(A)
  BY <1>7, FS_RemoveElement
<1>9. Cardinality((A \ {w}) \cup B) = Cardinality(A \ {w}) + (IF s2 \in T THEN 1 ELSE 0)
  <2>1. CASE s2 \in T
    <3>1. (A \ {w}) \cup B = (A \ {w}) \cup {w} /\ w \notin A \ {w}
      BY <2>1
    <3>2. Cardinality((A \ {w}) \cup {w}) = Cardinality(A \ {w}) + 1
      BY <1>8, <3>1, FS_AddElement
    <3> QED BY <2>1, <3>1, <3>2
  <2>2. CASE s2 \notin T
    <3>1. (A \ {w}) \cup B = A \ {w}
      BY <2>2
    <3> HIDE DEF B
    <3>2. Cardinality(A \ {w}) \in Nat
      BY <1>8, FS_CardinalityType
    <3>3. Cardinality((A \ {w}) \cup B) = Cardinality(A \ {w})
      BY <3>1
    <3> QED BY <2>2, <3>2, <3>3
  <2> QED BY <2>1, <2>2
<1>10. w \notin A => Cardinality(A) <= Cardinality(Evaluators) - 1
  <2> SUFFICES ASSUME w \notin A PROVE Cardinality(A) <= Cardinality(Evaluators) - 1
    OBVIOUS
  <2>1. IsFiniteSet(Evaluators \ {w}) /\ Cardinality(Evaluators \ {w}) = Cardinality(Evaluators) - 1
    BY ThreadsFinite, FS_RemoveElement
  <2>2. A \in SUBSET (Evaluators \ {w})
    BY <1>6
  <2>3. Cardinality(A) <= Cardinality(Evaluators \ {w})
    BY <2>1, <2>2, FS_Subset
  <2> QED BY <2>1, <2>3
<1>11. Cardinality((A \ {w}) \cup B) <= Cardinality(Evaluators)
  BY <1>6, ThreadsFinite
<1> HIDE DEF B
<1>12. Cardinality(On(c, T))' = Cardinality((A \ {w}) \cup B)
  BY <1>4
<1>13. Cardinality(A \ {w}) = Cardinality(A) - (IF worker[w].step \in T THEN 1 ELSE 0)
  BY <1>5, <1>7, <1>8
<1> QED BY <1>4, <1>5, <1>7, <1>9, <1>10, <1>11, <1>12, <1>13 DEF A, B

(* How what is in hand follows it.                                         *)
LEMMA HeldFollows ==
  ASSUME NEW R, CacheInv(R), NEW w \in Evaluators, NEW s2 \in Steps, Moves(w, s2),
         worker[w].todo # <<>>, NEW c \in Caches, Lookup(w).cache = c,
         NEW k, Lookup(w).key = k
  PROVE  /\ (Held(c)') \in SUBSET (Held(c) \cup {k})
         /\ Held(c) \in SUBSET ((Held(c)') \cup {k})
         /\ worker[w].step = "hit" => k \in Held(c)
         /\ worker[w].step # "hit" => Held(c) \in SUBSET (Held(c)')
         /\ s2 = "hit" => k \in Held(c)'
         /\ s2 # "hit" => (Held(c)') \in SUBSET Held(c)
<1> DEFINE A == On(c, {"hit"})
           B == {v \in {w} : s2 \in {"hit"}}
<1>1. {"hit"} \in SUBSET Ahead /\ CacheType(R)
  BY DEF Ahead, CacheInv
<1>2. On(c, {"hit"})' = (A \ {w}) \cup B
  <2>1. On(c, {"hit"})' = (On(c, {"hit"}) \ {w})
                            \cup {v \in {w} : s2 \in {"hit"} /\ Lookup(w).cache = c}
    BY <1>1, OneMoves
  <2> QED BY <2>1
<1>3. \A v \in Evaluators \ {w} : Lookup(v)' = Lookup(v)
  BY <1>1, OneMoves
<1>4. s2 = "hit" => Lookup(w)' = Lookup(w)
  BY DEF Moves, Lookup
<1>5. w \in A <=> worker[w].step = "hit"
  BY DEF On
<1>6. Held(c)' = {Lookup(v)'.key : v \in On(c, {"hit"})'}
  BY DEF Held
<1>7. A \in SUBSET Evaluators
  BY DEF On
<1>8. Held(c)' = {Lookup(v)'.key : v \in (A \ {w}) \cup B}
  BY <1>2, <1>6
<1>9. Held(c) = {Lookup(v).key : v \in A}
  BY DEF Held
<1> HIDE DEF A
<1>10. \A v \in (A \ {w}) \cup B : Lookup(v)' = Lookup(v) /\ (v \in A \/ (v = w /\ s2 = "hit"))
  BY <1>3, <1>4, <1>7
<1>11. \A v \in A : v = w \/ (v \in (A \ {w}) \cup B /\ Lookup(v)' = Lookup(v))
  BY <1>3, <1>7
<1>12. s2 = "hit" => w \in (A \ {w}) \cup B
  OBVIOUS
<1> HIDE DEF B
<1> QED BY <1>4, <1>5, <1>8, <1>9, <1>10, <1>11, <1>12

LEMMA AllCounts ==
  ASSUME NEW R, CacheInv(R), NEW w \in Evaluators, NEW s2 \in Steps, Moves(w, s2),
         worker[w].todo # <<>>, NEW c \in Caches, Lookup(w).cache = c
  PROVE  LET step == worker[w].step
             H == Cardinality(On(c, {"hit"}))  P == Cardinality(On(c, {"check", "evict"}))
             E == Cardinality(On(c, {"evict"}))
             H2 == Cardinality(On(c, {"hit"}))'  P2 == Cardinality(On(c, {"check", "evict"}))'
             E2 == Cardinality(On(c, {"evict"}))'
         IN  /\ H \in Nat /\ P \in Nat /\ E \in Nat
             /\ H2 = H - (IF step = "hit" THEN 1 ELSE 0) + (IF s2 = "hit" THEN 1 ELSE 0)
             /\ P2 = P - (IF step = "check" \/ step = "evict" THEN 1 ELSE 0)
                       + (IF s2 = "check" \/ s2 = "evict" THEN 1 ELSE 0)
             /\ E2 = E - (IF step = "evict" THEN 1 ELSE 0) + (IF s2 = "evict" THEN 1 ELSE 0)
             /\ step # "hit" => H <= Cardinality(Evaluators) - 1
             /\ E2 <= Cardinality(Evaluators)
             /\ (On(c, {"evict"})' # {} => s2 = "evict" \/ On(c, {"evict"}) # {})
<1>1. {"hit"} \in SUBSET Ahead /\ {"check", "evict"} \in SUBSET Ahead /\ {"evict"} \in SUBSET Ahead
  BY DEF Ahead
<1>2. /\ Cardinality(On(c, {"hit"})) \in Nat
      /\ Cardinality(On(c, {"hit"}))' =
           Cardinality(On(c, {"hit"})) - (IF worker[w].step \in {"hit"} THEN 1 ELSE 0)
                                       + (IF s2 \in {"hit"} THEN 1 ELSE 0)
      /\ worker[w].step \notin {"hit"} =>
           Cardinality(On(c, {"hit"})) <= Cardinality(Evaluators) - 1
  BY <1>1, CountsFollow
<1>3. /\ Cardinality(On(c, {"check", "evict"})) \in Nat
      /\ Cardinality(On(c, {"check", "evict"}))' =
           Cardinality(On(c, {"check", "evict"}))
             - (IF worker[w].step \in {"check", "evict"} THEN 1 ELSE 0)
             + (IF s2 \in {"check", "evict"} THEN 1 ELSE 0)
  <2> DEFINE T == {"check", "evict"}
  <2>1. T \in SUBSET Ahead
    BY <1>1
  <2> HIDE DEF T
  <2>2. /\ Cardinality(On(c, T)) \in Nat
        /\ Cardinality(On(c, T))' =
             Cardinality(On(c, T)) - (IF worker[w].step \in T THEN 1 ELSE 0)
                                   + (IF s2 \in T THEN 1 ELSE 0)
    BY <2>1, CountsFollow
  <2> QED BY <2>2, Zenon DEF T
<1>4. /\ Cardinality(On(c, {"evict"})) \in Nat
      /\ Cardinality(On(c, {"evict"}))' =
           Cardinality(On(c, {"evict"})) - (IF worker[w].step \in {"evict"} THEN 1 ELSE 0)
                                         + (IF s2 \in {"evict"} THEN 1 ELSE 0)
      /\ Cardinality(On(c, {"evict"}))' <= Cardinality(Evaluators)
      /\ On(c, {"evict"})' = (On(c, {"evict"}) \ {w})
                                \cup {v \in {w} : s2 \in {"evict"} /\ Lookup(w).cache = c}
  <2>1. /\ Cardinality(On(c, {"evict"})) \in Nat
        /\ Cardinality(On(c, {"evict"}))' =
             Cardinality(On(c, {"evict"})) - (IF worker[w].step \in {"evict"} THEN 1 ELSE 0)
                                           + (IF s2 \in {"evict"} THEN 1 ELSE 0)
        /\ Cardinality(On(c, {"evict"}))' <= Cardinality(Evaluators)
    <3> DEFINE T == {"evict"}
    <3>1. T \in SUBSET Ahead
      BY <1>1
    <3> HIDE DEF T
    <3>2. /\ Cardinality(On(c, T)) \in Nat
          /\ Cardinality(On(c, T))' =
               Cardinality(On(c, T)) - (IF worker[w].step \in T THEN 1 ELSE 0)
                                     + (IF s2 \in T THEN 1 ELSE 0)
          /\ Cardinality(On(c, T))' <= Cardinality(Evaluators)
      BY <3>1, CountsFollow
    <3> QED BY <3>2, Zenon DEF T
  <2>2. CacheType(R)
    BY DEF CacheInv
  <2>3. On(c, {"evict"})' = (On(c, {"evict"}) \ {w})
                                \cup {v \in {w} : s2 \in {"evict"} /\ Lookup(w).cache = c}
    BY <1>1, <2>2, OneMoves
  <2> QED BY <2>1, <2>3
<1>5. On(c, {"evict"})' # {} => s2 = "evict" \/ On(c, {"evict"}) # {}
  BY <1>4
<1> QED BY <1>2, <1>3, <1>4, <1>5

(* A step that leaves its own cache sound leaves all so.                   *)
LEMMA StepKeeps ==
  ASSUME NEW R, CacheInv(R), NEW w \in Evaluators, NEW s2 \in Steps, Moves(w, s2), ThreadsTyped(R)',
         NEW c \in Caches, Lookup(w).cache = c, NEW t \in Seq(R),
         cache' = [cache EXCEPT ![c] = t], Sound(c)'
  PROVE  CacheInv(R)'
<1>1. cache \in [Caches -> Seq(R)]
  BY DEF CacheInv, CacheType, ThreadsTyped
<1>2. cache' \in [Caches -> Seq(R)] /\ \A d \in Caches \ {c} : cache'[d] = cache[d]
  BY <1>1
<1>3. ASSUME NEW d \in Caches \ {c} PROVE Sound(d)'
  BY <1>2, OthersSound
<1>4. CacheType(R)'
  BY <1>2 DEF CacheType, ThreadsTyped
<1> QED BY <1>3, <1>4 DEF CacheInv

LEMMA PopKeeps ==
  ASSUME NEW R, CacheInv(R), NEW w \in Evaluators, Pop(w)
  PROVE  CacheInv(R)'
<1> DEFINE s == worker[w].step
<1>0. s = "ask" /\ worker[w].todo # <<>>
  BY DEF Pop, At
<1>1. PICK c \in Caches, k \in R : Lookup(w).cache = c /\ Lookup(w).key = k
  BY <1>0, LooksUp
<1>2. cache[c] \in Seq(R) /\ Sound(c) /\ cache \in [Caches -> Seq(R)] /\ CacheType(R)
  BY <1>0, <1>1, LooksUp DEF CacheInv, CacheType, ThreadsTyped
<1>3. Len(cache[c]) \in Nat /\ Cardinality(Evaluators) \in Nat /\ Capacity \in Nat
      /\ {"hit", "miss"} \in SUBSET (Steps \ {"idle", "ask"})
  BY <1>2, ThreadsFinite DEF Steps
<1>4. CASE Contains(cache[c], k)
  <2> DEFINE t == Without(cache[c], k)
  <2>1. cache' = [cache EXCEPT ![c] = t] /\ Goto(w, "hit")
    BY <1>1, <1>4 DEF Pop
  <2>2. /\ t \in Seq(R) /\ Once(t) /\ Keys(t) = Keys(cache[c]) \ {k}
        /\ Len(t) = Len(cache[c]) - 1 /\ k \in Keys(cache[c])
    BY <1>2, <1>4, WithoutIs DEF Sound
  <2> HIDE DEF t
  <2>3. Moves(w, "hit") /\ "hit" \in Steps /\ ThreadsTyped(R)'
    BY <1>0, <1>2, <1>3, <2>1, StepsMove
  <2>4. /\ Cardinality(On(c, {"hit"})) \in Nat
        /\ Cardinality(On(c, {"hit"}))' = Cardinality(On(c, {"hit"})) + 1
        /\ Cardinality(On(c, {"check", "evict"})) \in Nat
        /\ Cardinality(On(c, {"check", "evict"}))' = Cardinality(On(c, {"check", "evict"}))
        /\ Cardinality(On(c, {"evict"})) \in Nat
        /\ Cardinality(On(c, {"evict"}))' = Cardinality(On(c, {"evict"}))
        /\ On(c, {"evict"})' # {} => On(c, {"evict"}) # {}
    <3>1. Cardinality(On(c, {"hit"})) \in Nat
      BY <1>0, <1>1, <2>3, AllCounts
    <3>2. Cardinality(On(c, {"hit"}))' = Cardinality(On(c, {"hit"})) + 1
      BY <1>0, <1>1, <2>3, AllCounts
    <3>3. Cardinality(On(c, {"check", "evict"})) \in Nat
      BY <1>0, <1>1, <2>3, AllCounts
    <3>4. Cardinality(On(c, {"check", "evict"}))' = Cardinality(On(c, {"check", "evict"}))
      BY <1>0, <1>1, <2>3, AllCounts
    <3>5. Cardinality(On(c, {"evict"})) \in Nat
      BY <1>0, <1>1, <2>3, AllCounts
    <3>6. Cardinality(On(c, {"evict"}))' = Cardinality(On(c, {"evict"}))
      BY <1>0, <1>1, <2>3, AllCounts
    <3>7. On(c, {"evict"})' # {} => On(c, {"evict"}) # {}
      BY <1>0, <1>1, <2>3, AllCounts
    <3> QED BY <3>1, <3>2, <3>3, <3>4, <3>5, <3>6, <3>7
  <2>5. /\ (Held(c)') \in SUBSET (Held(c) \cup {k}) /\ Held(c) \in SUBSET (Held(c)')
        /\ k \in Held(c)'
    BY <1>0, <1>1, <2>3, HeldFollows
  <2>6. cache'[c] = t
    BY <1>2, <2>1
  <2>7. Known(c)' = Known(c)
    BY <2>2, <2>5, <2>6 DEF Known
  <2>8. Sound(c)'
    BY <1>2, <1>3, <2>2, <2>4, <2>6, <2>7 DEF Sound
  <2> QED BY <1>1, <2>1, <2>2, <2>3, <2>8, StepKeeps
<1>5. CASE ~Contains(cache[c], k)
  <2>1. cache' = cache /\ Goto(w, "miss")
    BY <1>1, <1>5 DEF Pop
  <2>3. Moves(w, "miss") /\ "miss" \in Steps /\ ThreadsTyped(R)'
    BY <1>0, <1>2, <1>3, <2>1, StepsMove
  <2>4. s \notin Ahead /\ "miss" \notin Ahead
    BY <1>0 DEF Ahead
  <2>5. \A d \in Caches : Sound(d)'
    BY <2>1, <2>3, <2>4, OthersSound
  <2>6. CacheType(R)'
    BY <1>2, <2>1, <2>3 DEF CacheType, ThreadsTyped
  <2> QED BY <2>5, <2>6 DEF CacheInv
<1> QED BY <1>4, <1>5

LEMMA PutBackKeeps ==
  ASSUME NEW R, CacheInv(R), NEW w \in Evaluators, PutBack(w)
  PROVE  CacheInv(R)'
<1>0. worker[w].step = "hit" /\ worker[w].todo # <<>>
  BY DEF PutBack, At
<1>1. PICK c \in Caches, k \in R : Lookup(w).cache = c /\ Lookup(w).key = k
  BY <1>0, LooksUp
<1>2. cache[c] \in Seq(R) /\ Sound(c) /\ cache \in [Caches -> Seq(R)] /\ CacheType(R)
  BY <1>0, <1>1, LooksUp DEF CacheInv, CacheType, ThreadsTyped
<1>3. Len(cache[c]) \in Nat /\ Cardinality(Evaluators) \in Nat /\ Capacity \in Nat
  BY <1>2, ThreadsFinite
<1> DEFINE t == Put(cache[c], k)
<1>4. cache' = [cache EXCEPT ![c] = t] /\ Resolved(w)
  BY <1>1 DEF PutBack
<1>5. /\ t \in Seq(R) /\ Once(t) /\ Keys(t) = Keys(cache[c]) \cup {k}
      /\ Len(t) <= Len(cache[c]) + 1 /\ Len(t) \in Nat
  <2>1. /\ t \in Seq(R) /\ Once(t) /\ Keys(t) = Keys(cache[c]) \cup {k}
        /\ Len(t) = Len(cache[c]) \/ Len(t) = Len(cache[c]) + 1
    BY <1>2, PutIs DEF Sound
  <2> QED BY <1>3, <2>1
<1> HIDE DEF t
<1>6. Moves(w, "ask") /\ "ask" \in Steps /\ ThreadsTyped(R)'
  BY <1>0, <1>2, <1>4, StepsMove DEF Steps
<1>7. /\ Cardinality(On(c, {"hit"})) \in Nat
      /\ Cardinality(On(c, {"hit"}))' = Cardinality(On(c, {"hit"})) - 1
      /\ Cardinality(On(c, {"check", "evict"})) \in Nat
      /\ Cardinality(On(c, {"check", "evict"}))' = Cardinality(On(c, {"check", "evict"}))
      /\ Cardinality(On(c, {"evict"})) \in Nat
      /\ Cardinality(On(c, {"evict"}))' = Cardinality(On(c, {"evict"}))
      /\ On(c, {"evict"})' # {} => On(c, {"evict"}) # {}
  <2>1. Cardinality(On(c, {"hit"})) \in Nat
    BY <1>0, <1>1, <1>6, AllCounts
  <2>2. Cardinality(On(c, {"hit"}))' = Cardinality(On(c, {"hit"})) - 1
    BY <1>0, <1>1, <1>6, AllCounts
  <2>3. Cardinality(On(c, {"check", "evict"})) \in Nat
    BY <1>0, <1>1, <1>6, AllCounts
  <2>4. Cardinality(On(c, {"check", "evict"}))' = Cardinality(On(c, {"check", "evict"}))
    BY <1>0, <1>1, <1>6, AllCounts
  <2>5. Cardinality(On(c, {"evict"})) \in Nat
    BY <1>0, <1>1, <1>6, AllCounts
  <2>6. Cardinality(On(c, {"evict"}))' = Cardinality(On(c, {"evict"}))
    BY <1>0, <1>1, <1>6, AllCounts
  <2>7. On(c, {"evict"})' # {} => On(c, {"evict"}) # {}
    BY <1>0, <1>1, <1>6, AllCounts
  <2> QED BY <2>1, <2>2, <2>3, <2>4, <2>5, <2>6, <2>7
<1>8. /\ (Held(c)') \in SUBSET Held(c) /\ Held(c) \in SUBSET ((Held(c)') \cup {k})
      /\ k \in Held(c)
  <2>1. (Held(c)') \in SUBSET Held(c)
    BY <1>0, <1>1, <1>6, HeldFollows
  <2>2. Held(c) \in SUBSET ((Held(c)') \cup {k})
    BY <1>0, <1>1, <1>6, HeldFollows
  <2>3. k \in Held(c)
    BY <1>0, <1>1, <1>6, HeldFollows
  <2> QED BY <2>1, <2>2, <2>3
<1>9. cache'[c] = t
  BY <1>2, <1>4
<1>10. Known(c)' = Known(c)
  BY <1>5, <1>8, <1>9 DEF Known
<1>11. Sound(c)'
  BY <1>2, <1>3, <1>5, <1>7, <1>9, <1>10 DEF Sound
<1> QED BY <1>1, <1>4, <1>5, <1>6, <1>11, StepKeeps

LEMMA InsertKeeps ==
  ASSUME NEW R, CacheInv(R), NEW w \in Evaluators, Insert(w)
  PROVE  CacheInv(R)'
<1>0. worker[w].step = "miss" /\ worker[w].todo # <<>>
  BY DEF Insert, At
<1>1. PICK c \in Caches, k \in R : Lookup(w).cache = c /\ Lookup(w).key = k
  BY <1>0, LooksUp
<1>2. cache[c] \in Seq(R) /\ Sound(c) /\ cache \in [Caches -> Seq(R)] /\ CacheType(R)
  BY <1>0, <1>1, LooksUp DEF CacheInv, CacheType, ThreadsTyped
<1>3. Len(cache[c]) \in Nat /\ Cardinality(Evaluators) \in Nat /\ Capacity \in Nat
  BY <1>2, ThreadsFinite
<1> DEFINE t == Put(cache[c], k)
<1>4. cache' = [cache EXCEPT ![c] = t] /\ Goto(w, "check") /\ "check" \in Steps \ {"idle", "ask"}
  BY <1>1 DEF Insert, Steps
<1>5. /\ t \in Seq(R) /\ Once(t) /\ Keys(t) = Keys(cache[c]) \cup {k}
      /\ Len(t) <= Len(cache[c]) + 1 /\ Len(t) \in Nat
  <2>1. /\ t \in Seq(R) /\ Once(t) /\ Keys(t) = Keys(cache[c]) \cup {k}
        /\ Len(t) = Len(cache[c]) \/ Len(t) = Len(cache[c]) + 1
    BY <1>2, PutIs DEF Sound
  <2> QED BY <1>3, <2>1
<1> HIDE DEF t
<1>6. Moves(w, "check") /\ "check" \in Steps /\ ThreadsTyped(R)'
  BY <1>0, <1>2, <1>4, StepsMove
<1>7. /\ Cardinality(On(c, {"hit"})) \in Nat
      /\ Cardinality(On(c, {"hit"}))' = Cardinality(On(c, {"hit"}))
      /\ Cardinality(On(c, {"check", "evict"})) \in Nat
      /\ Cardinality(On(c, {"check", "evict"}))' = Cardinality(On(c, {"check", "evict"})) + 1
      /\ Cardinality(On(c, {"evict"})) \in Nat
      /\ Cardinality(On(c, {"evict"}))' = Cardinality(On(c, {"evict"}))
      /\ On(c, {"evict"})' # {} => On(c, {"evict"}) # {}
  <2>1. Cardinality(On(c, {"hit"})) \in Nat /\ Cardinality(On(c, {"hit"}))' = Cardinality(On(c, {"hit"}))
    BY <1>0, <1>1, <1>6, AllCounts
  <2>2. Cardinality(On(c, {"check", "evict"})) \in Nat
    BY <1>0, <1>1, <1>6, AllCounts
  <2>3. Cardinality(On(c, {"check", "evict"}))' = Cardinality(On(c, {"check", "evict"})) + 1
    BY <1>0, <1>1, <1>6, AllCounts
  <2>4. Cardinality(On(c, {"evict"})) \in Nat
    BY <1>0, <1>1, <1>6, AllCounts
  <2>5. Cardinality(On(c, {"evict"}))' = Cardinality(On(c, {"evict"}))
    BY <1>0, <1>1, <1>6, AllCounts
  <2>6. On(c, {"evict"})' # {} => On(c, {"evict"}) # {}
    BY <1>0, <1>1, <1>6, AllCounts
  <2> QED BY <2>1, <2>2, <2>3, <2>4, <2>5, <2>6
<1>8. Held(c) \in SUBSET (Held(c)')
  BY <1>0, <1>1, <1>6, HeldFollows
<1>9. cache'[c] = t
  BY <1>2, <1>4
<1>10. Cardinality(Known(c)) <= Cardinality(Known(c)')
       /\ Cardinality(Known(c)) \in Nat /\ Cardinality(Known(c)') \in Nat
  <2>1. Known(c) \in SUBSET (Known(c)')
    BY <1>5, <1>8, <1>9 DEF Known
  <2>2. IsFiniteSet(Known(c)) /\ Cardinality(Known(c)) \in Nat
    BY <1>2, KnownFinite DEF Sound
  <2>3. (Known(c)') \in SUBSET (Known(c) \cup {k})
    <3>1. (Held(c)') \in SUBSET Held(c)
      BY <1>0, <1>1, <1>6, HeldFollows
    <3> QED BY <1>5, <1>9, <3>1 DEF Known
  <2>4. IsFiniteSet(Known(c) \cup {k})
    BY <2>2, FS_AddElement
  <2>5. IsFiniteSet(Known(c)') /\ Cardinality(Known(c)') \in Nat
    BY <2>3, <2>4, FS_Subset, FS_CardinalityType
  <2> QED BY <2>1, <2>2, <2>5, FS_Subset
<1>11. Sound(c)'
  <2> DEFINE V == Cardinality(Evaluators)
  <2>1. /\ Len(cache[c]) + Cardinality(On(c, {"hit"}))
             <= Capacity + V - 1 + Cardinality(On(c, {"check", "evict"}))
        /\ On(c, {"evict"}) # {} =>
             Cardinality(Known(c)) + V - Cardinality(On(c, {"evict"})) > Capacity
    BY <1>2 DEF Sound
  <2>2. Len(t) + Cardinality(On(c, {"hit"}))'
          <= Capacity + V - 1 + Cardinality(On(c, {"check", "evict"}))'
    <3> DEFINE l == Len(cache[c])  m == Len(t)  h == Cardinality(On(c, {"hit"}))
               p == Cardinality(On(c, {"check", "evict"}))
    <3>1. l \in Nat /\ m \in Nat /\ h \in Nat /\ p \in Nat /\ V \in Nat /\ Capacity \in Nat
      BY <1>3, <1>5, <1>7
    <3>2. l + h <= Capacity + V - 1 + p /\ m <= l + 1
      BY <1>5, <2>1
    <3>3. /\ Cardinality(On(c, {"hit"}))' = h
          /\ Cardinality(On(c, {"check", "evict"}))' = p + 1
      BY <1>7
    <3> HIDE DEF l, m, h, p, V
    <3>4. m + h <= Capacity + V - 1 + (p + 1)
      BY <3>1, <3>2
    <3> QED BY <3>3, <3>4 DEF m
  <2>3. ASSUME On(c, {"evict"})' # {}
        PROVE  Cardinality(Known(c)') + V - Cardinality(On(c, {"evict"}))' > Capacity
    <3> DEFINE k1 == Cardinality(Known(c))  k2 == Cardinality(Known(c)')
               e == Cardinality(On(c, {"evict"}))
    <3>1. k1 \in Nat /\ k2 \in Nat /\ e \in Nat /\ V \in Nat /\ Capacity \in Nat /\ k1 <= k2
      BY <1>3, <1>7, <1>10
    <3>2. On(c, {"evict"}) # {}
      BY <1>7, <2>3
    <3>3. k1 + V - e > Capacity
      BY <2>1, <3>2
    <3>4. Cardinality(On(c, {"evict"}))' = e
      BY <1>7
    <3> HIDE DEF k1, k2, e, V
    <3>5. k2 + V - e > Capacity
      BY <3>1, <3>3
    <3> QED BY <3>4, <3>5 DEF k2
  <2>4. Once(cache'[c]) /\ Len(cache'[c]) = Len(t)
    BY <1>5, <1>9
  <2> QED BY <2>2, <2>3, <2>4 DEF Sound
<1> QED BY <1>1, <1>4, <1>5, <1>6, <1>11, StepKeeps

LEMMA CheckKeeps ==
  ASSUME NEW R, CacheInv(R), NEW w \in Evaluators, Check(w)
  PROVE  CacheInv(R)'
<1>0. worker[w].step = "check" /\ worker[w].todo # <<>>
  BY DEF Check, At
<1>1. PICK c \in Caches, k \in R : Lookup(w).cache = c /\ Lookup(w).key = k
  BY <1>0, LooksUp
<1>2. cache[c] \in Seq(R) /\ Sound(c) /\ cache \in [Caches -> Seq(R)] /\ CacheType(R)
  BY <1>0, <1>1, LooksUp DEF CacheInv, CacheType, ThreadsTyped
<1>3. Len(cache[c]) \in Nat /\ Cardinality(Evaluators) \in Nat /\ Capacity \in Nat
  BY <1>2, ThreadsFinite
<1> DEFINE t == cache[c]
<1>4. /\ cache' = cache /\ cache' = [cache EXCEPT ![c] = t] /\ cache'[c] = t
      /\ IF Len(t) > Capacity THEN Goto(w, "evict") ELSE Resolved(w)
  BY <1>1, <1>2 DEF Check
<1>5. \A s2 \in Steps : Moves(w, s2) /\ s2 # "hit" => Known(c)' = Known(c)
  <2> SUFFICES ASSUME NEW s2 \in Steps, Moves(w, s2), s2 # "hit" PROVE Known(c)' = Known(c)
    OBVIOUS
  <2>1. (Held(c)') \in SUBSET Held(c) /\ Held(c) \in SUBSET (Held(c)')
    BY <1>0, <1>1, HeldFollows
  <2> QED BY <1>4, <2>1 DEF Known
<1>6. IsFiniteSet(Known(c)) /\ Cardinality(Known(c)) \in Nat /\ Len(t) <= Cardinality(Known(c))
  BY <1>2, KnownFinite DEF Sound
<1>7. CASE Len(t) > Capacity
  <2>1. Goto(w, "evict") /\ "evict" \in Steps \ {"idle", "ask"}
    BY <1>4, <1>7 DEF Steps
  <2>2. Moves(w, "evict") /\ "evict" \in Steps /\ ThreadsTyped(R)'
    BY <1>0, <1>2, <2>1, StepsMove
  <2>3. /\ Cardinality(On(c, {"hit"})) \in Nat
        /\ Cardinality(On(c, {"hit"}))' = Cardinality(On(c, {"hit"}))
        /\ Cardinality(On(c, {"check", "evict"})) \in Nat
        /\ Cardinality(On(c, {"check", "evict"}))' = Cardinality(On(c, {"check", "evict"}))
        /\ Cardinality(On(c, {"evict"})) \in Nat
        /\ Cardinality(On(c, {"evict"}))' = Cardinality(On(c, {"evict"})) + 1
        /\ Cardinality(On(c, {"evict"}))' <= Cardinality(Evaluators)
    BY <1>0, <1>1, <2>2, AllCounts
  <2>4. Known(c)' = Known(c)
    BY <1>5, <2>2
  <2>5. Sound(c)'
    BY <1>2, <1>3, <1>4, <1>6, <1>7, <2>3, <2>4 DEF Sound
  <2> QED BY <1>1, <1>2, <1>4, <2>2, <2>5, StepKeeps
<1>8. CASE ~(Len(t) > Capacity)
  <2>1. Resolved(w)
    BY <1>4, <1>8
  <2>2. Moves(w, "ask") /\ "ask" \in Steps /\ ThreadsTyped(R)'
    BY <1>0, <1>2, <2>1, StepsMove DEF Steps
  <2>3. /\ Cardinality(On(c, {"hit"})) \in Nat
        /\ Cardinality(On(c, {"hit"}))' = Cardinality(On(c, {"hit"}))
        /\ Cardinality(On(c, {"hit"})) <= Cardinality(Evaluators) - 1
        /\ Cardinality(On(c, {"check", "evict"})) \in Nat
        /\ Cardinality(On(c, {"check", "evict"}))' = Cardinality(On(c, {"check", "evict"})) - 1
        /\ Cardinality(On(c, {"evict"})) \in Nat
        /\ Cardinality(On(c, {"evict"}))' = Cardinality(On(c, {"evict"}))
        /\ On(c, {"evict"})' # {} => On(c, {"evict"}) # {}
    <3>1. Cardinality(On(c, {"hit"})) \in Nat
      BY <1>0, <1>1, <2>2, AllCounts
    <3>2. Cardinality(On(c, {"hit"}))' = Cardinality(On(c, {"hit"}))
      BY <1>0, <1>1, <2>2, AllCounts
    <3>3. Cardinality(On(c, {"hit"})) <= Cardinality(Evaluators) - 1
      BY <1>0, <1>1, <2>2, AllCounts
    <3>4. Cardinality(On(c, {"check", "evict"})) \in Nat
      BY <1>0, <1>1, <2>2, AllCounts
    <3>5. Cardinality(On(c, {"check", "evict"}))' = Cardinality(On(c, {"check", "evict"})) - 1
      BY <1>0, <1>1, <2>2, AllCounts
    <3>6. Cardinality(On(c, {"evict"})) \in Nat
      BY <1>0, <1>1, <2>2, AllCounts
    <3>7. Cardinality(On(c, {"evict"}))' = Cardinality(On(c, {"evict"}))
      BY <1>0, <1>1, <2>2, AllCounts
    <3>8. On(c, {"evict"})' # {} => On(c, {"evict"}) # {}
      BY <1>0, <1>1, <2>2, AllCounts
    <3> QED BY <3>1, <3>2, <3>3, <3>4, <3>5, <3>6, <3>7, <3>8
  <2>4. Cardinality(On(c, {"check", "evict"}))' \in Nat
    <3>1. (On(c, {"check", "evict"})') \in SUBSET Evaluators
      BY DEF On
    <3> QED BY <3>1, ThreadsFinite
  <2>5. Known(c)' = Known(c)
    BY <1>5, <2>2
  <2>6. Sound(c)'
    BY <1>2, <1>3, <1>4, <1>6, <1>8, <2>3, <2>4, <2>5 DEF Sound
  <2> QED BY <1>1, <1>2, <1>4, <2>2, <2>6, StepKeeps
<1> QED BY <1>7, <1>8

LEMMA EvictKeeps ==
  ASSUME NEW R, CacheInv(R), NEW w \in Evaluators, Evict(w)
  PROVE  CacheInv(R)'
<1>0. worker[w].step = "evict" /\ worker[w].todo # <<>>
  BY DEF Evict, At
<1>1. PICK c \in Caches, k \in R : Lookup(w).cache = c /\ Lookup(w).key = k
  BY <1>0, LooksUp
<1>2. cache[c] \in Seq(R) /\ Sound(c) /\ cache \in [Caches -> Seq(R)] /\ CacheType(R)
  BY <1>0, <1>1, LooksUp DEF CacheInv, CacheType, ThreadsTyped
<1>3. Len(cache[c]) \in Nat /\ Cardinality(Evaluators) \in Nat /\ Capacity \in Nat
  BY <1>2, ThreadsFinite
<1> DEFINE t == Tail(cache[c])
<1>4. cache' = [cache EXCEPT ![c] = t] /\ Resolved(w) /\ cache[c] # <<>>
  BY <1>1 DEF Evict
<1>5. /\ t \in Seq(R) /\ Once(t) /\ Keys(cache[c]) = Keys(t) \cup {cache[c][1]}
      /\ Len(t) = Len(cache[c]) - 1
  BY <1>2, <1>4, TailIs DEF Sound
<1> HIDE DEF t
<1>6. Moves(w, "ask") /\ "ask" \in Steps /\ ThreadsTyped(R)'
  BY <1>0, <1>2, <1>4, StepsMove DEF Steps
<1>7. /\ Cardinality(On(c, {"hit"})) \in Nat
      /\ Cardinality(On(c, {"hit"}))' = Cardinality(On(c, {"hit"}))
      /\ Cardinality(On(c, {"check", "evict"})) \in Nat
      /\ Cardinality(On(c, {"check", "evict"}))' = Cardinality(On(c, {"check", "evict"})) - 1
      /\ Cardinality(On(c, {"evict"})) \in Nat
      /\ Cardinality(On(c, {"evict"}))' = Cardinality(On(c, {"evict"})) - 1
      /\ On(c, {"evict"})' # {} => On(c, {"evict"}) # {}
  <2>1. Cardinality(On(c, {"hit"})) \in Nat
    BY <1>0, <1>1, <1>6, AllCounts
  <2>2. Cardinality(On(c, {"hit"}))' = Cardinality(On(c, {"hit"}))
    BY <1>0, <1>1, <1>6, AllCounts
  <2>3. Cardinality(On(c, {"check", "evict"})) \in Nat
    BY <1>0, <1>1, <1>6, AllCounts
  <2>4. Cardinality(On(c, {"check", "evict"}))' = Cardinality(On(c, {"check", "evict"})) - 1
    BY <1>0, <1>1, <1>6, AllCounts
  <2>5. Cardinality(On(c, {"evict"})) \in Nat
    BY <1>0, <1>1, <1>6, AllCounts
  <2>6. Cardinality(On(c, {"evict"}))' = Cardinality(On(c, {"evict"})) - 1
    BY <1>0, <1>1, <1>6, AllCounts
  <2>7. On(c, {"evict"})' # {} => On(c, {"evict"}) # {}
    BY <1>0, <1>1, <1>6, AllCounts
  <2> QED BY <2>1, <2>2, <2>3, <2>4, <2>5, <2>6, <2>7
<1>8. (Held(c)') \in SUBSET Held(c) /\ Held(c) \in SUBSET (Held(c)')
  <2>1. (Held(c)') \in SUBSET Held(c)
    BY <1>0, <1>1, <1>6, HeldFollows
  <2>2. Held(c) \in SUBSET (Held(c)')
    BY <1>0, <1>1, <1>6, HeldFollows
  <2> QED BY <2>1, <2>2
<1>9. cache'[c] = t
  BY <1>2, <1>4
<1>10. /\ Cardinality(Known(c)) \in Nat /\ Cardinality(Known(c)') \in Nat
       /\ Cardinality(Known(c)) <= Cardinality(Known(c)') + 1
  <2> DEFINE e == cache[c][1]
  <2>1. Known(c) = (Known(c)') \cup {e}
    BY <1>5, <1>8, <1>9 DEF Known
  <2>2. IsFiniteSet(Known(c)) /\ Cardinality(Known(c)) \in Nat
    BY <1>2, KnownFinite DEF Sound
  <2>3. IsFiniteSet(Known(c)') /\ Cardinality(Known(c)') \in Nat
    BY <2>1, <2>2, FS_Subset, FS_CardinalityType
  <2> HIDE DEF e
  <2>4. ASSUME NEW K, IsFiniteSet(K) PROVE Cardinality(K \cup {e}) <= Cardinality(K) + 1
    <3>1. Cardinality(K \cup {e}) = IF e \in K THEN Cardinality(K) ELSE Cardinality(K) + 1
      BY <2>4, FS_AddElement
    <3>2. Cardinality(K) \in Nat
      BY <2>4, FS_CardinalityType
    <3> QED BY <3>1, <3>2
  <2> QED BY <2>1, <2>2, <2>3, <2>4
<1>11. Sound(c)'
  <2> DEFINE V == Cardinality(Evaluators)
  <2>1. /\ Once(cache[c])
        /\ Len(cache[c]) + Cardinality(On(c, {"hit"}))
             <= Capacity + V - 1 + Cardinality(On(c, {"check", "evict"}))
        /\ On(c, {"evict"}) # {} =>
             Cardinality(Known(c)) + V - Cardinality(On(c, {"evict"})) > Capacity
    BY <1>2 DEF Sound
  <2>2. Len(t) + Cardinality(On(c, {"hit"}))'
          <= Capacity + V - 1 + Cardinality(On(c, {"check", "evict"}))'
    <3> DEFINE l == Len(cache[c])  h == Cardinality(On(c, {"hit"}))
               p == Cardinality(On(c, {"check", "evict"}))
    <3>1. l \in Nat /\ h \in Nat /\ p \in Nat /\ V \in Nat /\ Capacity \in Nat
      BY <1>3, <1>7
    <3>2. l + h <= Capacity + V - 1 + p
      BY <2>1
    <3>3. /\ Len(t) = l - 1 /\ Cardinality(On(c, {"hit"}))' = h
          /\ Cardinality(On(c, {"check", "evict"}))' = p - 1
      BY <1>5, <1>7
    <3> HIDE DEF l, h, p, V
    <3>4. (l - 1) + h <= Capacity + V - 1 + (p - 1)
      BY <3>1, <3>2
    <3> QED BY <3>3, <3>4
  <2>3. ASSUME On(c, {"evict"})' # {}
        PROVE  Cardinality(Known(c)') + V - Cardinality(On(c, {"evict"}))' > Capacity
    <3> DEFINE k1 == Cardinality(Known(c))  k2 == Cardinality(Known(c)')
               e == Cardinality(On(c, {"evict"}))
    <3>1. k1 \in Nat /\ k2 \in Nat /\ e \in Nat /\ V \in Nat /\ Capacity \in Nat /\ k1 <= k2 + 1
      BY <1>3, <1>7, <1>10
    <3>2. On(c, {"evict"}) # {}
      BY <1>7, <2>3
    <3>3. k1 + V - e > Capacity
      BY <2>1, <3>2
    <3>4. Cardinality(On(c, {"evict"}))' = e - 1
      BY <1>7
    <3> HIDE DEF k1, k2, e, V
    <3>5. k2 + V - (e - 1) > Capacity
      BY <3>1, <3>3
    <3> QED BY <3>4, <3>5 DEF k2
  <2>4. Once(cache'[c]) /\ Len(cache'[c]) = Len(t)
    BY <1>5, <1>9
  <2> QED BY <2>2, <2>3, <2>4 DEF Sound
<1> QED BY <1>1, <1>4, <1>5, <1>6, <1>11, StepKeeps

(* A thread that is given lookups or leaves touches no cache.              *)
LEMMA FreeKeeps ==
  ASSUME NEW R, CacheInv(R), NEW w \in Evaluators, Free(w), UNCHANGED cache,
         NEW r \in [task : Nat, todo : Lookups(R), step : {"idle", "ask"}],
         worker' = [worker EXCEPT ![w] = r]
  PROVE  CacheInv(R)'
<1> DEFINE T == [task : Nat, todo : Lookups(R), step : Steps]
<1>1. r \in T /\ r.step \in {"idle", "ask"} /\ r.step \in Steps
  BY DEF Steps
<1>2. CacheType(R)
  BY DEF CacheInv
<1>3. worker \in [Evaluators -> T]
  BY <1>2 DEF CacheType, ThreadsTyped
<1> HIDE DEF T
<1>4. /\ worker' \in [Evaluators -> T] /\ worker'[w] = r
      /\ \A v \in Evaluators \ {w} : worker'[v] = worker[v]
  BY <1>1, <1>3
<1>5. \A v \in Evaluators : worker'[v].step \notin {"idle", "ask"} => worker'[v].todo # <<>>
  BY <1>1, <1>2, <1>4 DEF CacheType, ThreadsTyped
<1>6. CacheType(R)'
  BY <1>2, <1>4, <1>5 DEF CacheType, ThreadsTyped, T
<1>7. Moves(w, r.step)
  BY <1>1, <1>4 DEF Moves
<1>8. worker[w].step \notin Ahead /\ r.step \notin Ahead
  BY <1>1 DEF Free, Ahead
<1>9. ASSUME NEW c \in Caches PROVE Sound(c)'
  <2> DEFINE s2 == r.step
  <2>1. s2 \in Steps /\ Moves(w, s2) /\ s2 \notin Ahead
    BY <1>1, <1>7, <1>8
  <2> HIDE DEF s2
  <2> QED BY <1>8, <2>1, OthersSound
<1> QED BY <1>6, <1>9 DEF CacheInv

(* With no thread inside, the caches may be worked on one after another.   *)
LEMMA AloneKeeps ==
  ASSUME NEW R, CacheInv(R), NEW lookups \in Lookups(R), LookAlone(lookups)
  PROVE  CacheInv(R)'
<1> DEFINE V == Cardinality(Evaluators)  b == Capacity + V - 1
<1>1. /\ V \in Nat /\ V > 0 /\ Capacity \in Nat
      /\ b \in Nat /\ Capacity <= b
  BY ThreadsFinite
<1>2. worker' = worker /\ cache' = LookedAll(cache, lookups)
      /\ \A w \in Evaluators : worker[w].step = "idle"
  BY DEF LookAlone, CacheAtRest, IdleWorker
<1>3. \A c \in Caches, T \in SUBSET Ahead : On(c, T) = {} /\ On(c, T)' = {}
  BY <1>2 DEF On, Ahead
<1>4. Cardinality({}) = 0
  BY FS_EmptySet
<1>5. {"hit"} \in SUBSET Ahead /\ {"check", "evict"} \in SUBSET Ahead /\ {"evict"} \in SUBSET Ahead
  BY DEF Ahead
<1>6. ASSUME NEW c \in Caches PROVE cache[c] \in Seq(R) /\ Once(cache[c]) /\ Len(cache[c]) <= b
  <2>1. Sound(c) /\ cache[c] \in Seq(R)
    BY DEF CacheInv, CacheType, ThreadsTyped
  <2>2. Cardinality(On(c, {"hit"})) = 0 /\ Cardinality(On(c, {"check", "evict"})) = 0
    BY <1>3, <1>4, <1>5
  <2>3. Len(cache[c]) \in Nat
    BY <2>1
  <2>4. Len(cache[c]) + 0 <= Capacity + V - 1 + 0 /\ Once(cache[c])
    BY <2>1, <2>2 DEF Sound
  <2> QED BY <1>1, <2>1, <2>3, <2>4
<1> HIDE DEF b
<1>7. cache \in CachesIn(R, b)
  <2>1. cache \in [Caches -> Seq(R)]
    BY DEF CacheInv, CacheType, ThreadsTyped
  <2> QED BY <1>6, <2>1 DEF CachesIn
<1>8. (cache') \in CachesIn(R, b)
  BY <1>1, <1>2, <1>7, LookedAllIs
<1>9. ASSUME NEW c \in Caches PROVE Sound(c)'
  <2>1. cache'[c] \in Seq(R) /\ Once(cache'[c]) /\ Len(cache'[c]) <= b
    BY <1>8 DEF CachesIn
  <2>2. /\ Cardinality(On(c, {"hit"}))' = 0 /\ Cardinality(On(c, {"check", "evict"}))' = 0
        /\ On(c, {"evict"})' = {}
    BY <1>3, <1>4, <1>5
  <2>3. Len(cache'[c]) + 0 <= Capacity + V - 1 + 0
    BY <1>1, <2>1 DEF b
  <2> QED BY <2>1, <2>2, <2>3 DEF Sound
<1>10. CacheType(R)'
  BY <1>2, <1>8 DEF CacheInv, CacheType, ThreadsTyped, CachesIn
<1> QED BY <1>9, <1>10 DEF CacheInv

LEMMA CacheStarts ==
  ASSUME NEW R, CacheInit
  PROVE  CacheInv(R)
<1>1. /\ cache = [c \in Caches |-> <<>>]
      /\ worker = [w \in Evaluators |-> IdleWorker]
  BY DEF CacheInit
<1>2. CacheType(R)
  <2>1. IdleWorker \in [task : Nat, todo : Lookups(R), step : Steps]
    BY DEF IdleWorker, NoTask, Lookups, Steps
  <2> QED BY <1>1, <2>1 DEF CacheType, ThreadsTyped, IdleWorker
<1>3. \A c \in Caches, T \in SUBSET Ahead : On(c, T) = {}
  BY <1>1 DEF On, Ahead, IdleWorker
<1>4. {"hit"} \in SUBSET Ahead /\ {"check", "evict"} \in SUBSET Ahead /\ {"evict"} \in SUBSET Ahead
  BY DEF Ahead
<1>5. ASSUME NEW c \in Caches PROVE Sound(c)
  <2>1. cache[c] = <<>> /\ Len(cache[c]) = 0 /\ Once(cache[c])
    BY <1>1 DEF Once
  <2>2. /\ Cardinality(On(c, {"hit"})) = 0 /\ Cardinality(On(c, {"check", "evict"})) = 0
        /\ On(c, {"evict"}) = {}
    BY <1>3, <1>4, FS_EmptySet
  <2>3. 0 + 0 <= Capacity + Cardinality(Evaluators) - 1 + 0
    BY ThreadsFinite
  <2> QED BY <2>1, <2>2, <2>3 DEF Sound
<1> QED BY <1>2, <1>5 DEF CacheInv

(* What is known of an empty cache is in hand, so fewer threads than could *)
(* are there to evict from it.                                             *)
LEMMA InvGivesBounds ==
  ASSUME NEW R, CacheInv(R), 2 * Cardinality(Evaluators) < Capacity + 3
  PROVE  CachesBounded
<1> DEFINE V == Cardinality(Evaluators)
<1>1. V \in Nat /\ Capacity \in Nat
  BY ThreadsFinite
<1>2. ASSUME NEW c \in Caches
      PROVE  Len(cache[c]) <= Capacity + V - 1 +
               Cardinality({w \in Evaluators : /\ worker[w].step \in {"check", "evict"}
                                               /\ Lookup(w).cache = c})
  <2>1. Sound(c) /\ cache[c] \in Seq(R)
    BY <1>2 DEF CacheInv, CacheType, ThreadsTyped
  <2>2. /\ Len(cache[c]) \in Nat /\ Cardinality(On(c, {"hit"})) \in Nat
        /\ Cardinality(On(c, {"check", "evict"})) \in Nat
    <3>1. On(c, {"hit"}) \in SUBSET Evaluators /\ On(c, {"check", "evict"}) \in SUBSET Evaluators
      BY DEF On
    <3> QED BY <2>1, <3>1, ThreadsFinite
  <2>3. Len(cache[c]) + Cardinality(On(c, {"hit"}))
          <= Capacity + V - 1 + Cardinality(On(c, {"check", "evict"}))
    BY <2>1 DEF Sound
  <2>4. Len(cache[c]) <= Capacity + V - 1 + Cardinality(On(c, {"check", "evict"}))
    BY <1>1, <2>2, <2>3
  <2> QED BY <2>4 DEF On
<1>3. ASSUME NEW w \in Evaluators, EvictsNothing(w) PROVE FALSE
  <2>1. worker[w].step = "evict" /\ worker[w].todo # <<>>
    BY <1>3 DEF EvictsNothing, At
  <2>2. PICK c \in Caches : Lookup(w).cache = c /\ Sound(c)
    BY <2>1, LooksUp
  <2>3. cache[c] = <<>>
    BY <1>3, <2>2 DEF EvictsNothing
  <2> DEFINE H == On(c, {"hit"})  E == On(c, {"evict"})
  <2>4. H \in SUBSET Evaluators /\ E \in SUBSET Evaluators /\ H \cap E = {} /\ w \in E
    BY <2>1, <2>2 DEF On
  <2>5. Cardinality(Known(c)) + V - Cardinality(E) > Capacity
    BY <2>2, <2>4 DEF Sound
  <2>6. Known(c) = Held(c)
    BY <2>3 DEF Known, Keys
  <2> HIDE DEF E
  <2>7. /\ IsFiniteSet(H) /\ Cardinality(H) \in Nat /\ IsFiniteSet(E) /\ Cardinality(E) \in Nat
        /\ IsFiniteSet(H \cup E) /\ Cardinality(H \cup E) <= V
    <3>1. (H \cup E) \in SUBSET Evaluators
      BY <2>4
    <3> QED BY <2>4, <3>1, ThreadsFinite
  <2>8. Cardinality(H) + Cardinality(E) <= V
    <3>1. Cardinality(H \cup E) = Cardinality(H) + Cardinality(E) - Cardinality(H \cap E)
      BY <2>7, FS_Union
    <3>2. Cardinality(H \cap E) = 0
      BY <2>4, FS_EmptySet
    <3> QED BY <2>7, <3>1, <3>2
  <2>9. Cardinality(Held(c)) \in Nat /\ Cardinality(Held(c)) <= Cardinality(H)
    <3> DEFINE f == [v \in H |-> Lookup(v).key]
    <3>1. f \in Surjection(H, Held(c))
      BY DEF Surjection, Held
    <3> HIDE DEF f, H
    <3> QED BY <2>7, <3>1, FS_Surjection, FS_CardinalityType
  <2>10. Cardinality(E) # 0
    BY <2>4, <2>7, FS_EmptySet
  <2> HIDE DEF H
  <2> QED BY <1>1, <2>5, <2>6, <2>7, <2>8, <2>9, <2>10
<1> QED BY <1>2, <1>3 DEF CachesBounded

(* Threads that look up what routes they like: CachesBounded, for caches   *)
(* that have room for two entries or so for every thread.                  *)
THEOREM CacheTheorem ==
  ASSUME NEW Routes, 2 * Cardinality(Evaluators) < Capacity + 3
  PROVE  CacheSpec(Routes) => []CachesBounded
<1>1. CacheInit => CacheInv(Routes)
  BY CacheStarts
<1>2. CacheInv(Routes) /\ [CacheNext(Routes)]_<<cache, worker>> => CacheInv(Routes)'
  <2> SUFFICES ASSUME CacheInv(Routes), [CacheNext(Routes)]_<<cache, worker>>
               PROVE  CacheInv(Routes)'
    OBVIOUS
  <2>1. ASSUME NEW w \in Evaluators, CacheStep(w) PROVE CacheInv(Routes)'
    <3>1. CASE Pop(w)
      BY <3>1, PopKeeps
    <3>2. CASE PutBack(w)
      BY <3>2, PutBackKeeps
    <3>3. CASE Insert(w)
      BY <3>3, InsertKeeps
    <3>4. CASE Check(w)
      BY <3>4, CheckKeeps
    <3>5. CASE Evict(w)
      BY <3>5, EvictKeeps
    <3> QED BY <2>1, <3>1, <3>2, <3>3, <3>4, <3>5 DEF CacheStep
  <2>2. ASSUME NEW w \in Evaluators, Leave(w), UNCHANGED cache PROVE CacheInv(Routes)'
    <3>1. IdleWorker \in [task : Nat, todo : Lookups(Routes), step : {"idle", "ask"}]
      BY DEF IdleWorker, NoTask, Lookups
    <3> QED BY <2>2, <3>1, FreeKeeps DEF Leave
  <2>3. ASSUME NEW w \in Evaluators, NEW task \in Nat, NEW lookups \in Lookups(Routes),
               Assign(w, task, lookups), UNCHANGED cache
        PROVE  CacheInv(Routes)'
    <3> DEFINE r == [task |-> task, todo |-> lookups, step |-> "ask"]
    <3>1. r \in [task : Nat, todo : Lookups(Routes), step : {"idle", "ask"}]
      OBVIOUS
    <3>2. Free(w) /\ worker' = [worker EXCEPT ![w] = r]
      BY <2>3 DEF Assign
    <3> HIDE DEF r
    <3> QED BY <2>3, <3>1, <3>2, FreeKeeps
  <2>4. ASSUME NEW lookups \in Lookups(Routes), LookAlone(lookups) PROVE CacheInv(Routes)'
    BY <2>4, AloneKeeps
  <2>5. CASE UNCHANGED <<cache, worker>>
    <3>1. cache' = cache /\ worker' = worker
      BY <2>5
    <3>2. \A w : Lookup(w)' = Lookup(w)
      BY <3>1 DEF Lookup
    <3>3. \A c, T : On(c, T)' = On(c, T)
      BY <3>1, <3>2 DEF On
    <3>4. \A c : Held(c)' = Held(c)
      BY <3>2, <3>3 DEF Held
    <3>5. \A c : Known(c)' = Known(c)
      BY <3>1, <3>4 DEF Known
    <3>6. ASSUME NEW c \in Caches PROVE Sound(c)'
      <4>1. Sound(c)
        BY DEF CacheInv
      <4> QED BY <3>1, <3>3, <3>5, <4>1 DEF Sound
    <3> QED BY <3>1, <3>6 DEF CacheInv, CacheType, ThreadsTyped
  <2> QED BY <2>1, <2>2, <2>3, <2>4, <2>5 DEF CacheNext
<1>3. CacheInv(Routes) => CachesBounded
  BY InvGivesBounds
<1> QED BY <1>1, <1>2, <1>3, PTL DEF CacheSpec
=============================================================================
