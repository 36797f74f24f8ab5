-------------------------- MODULE PreparedRoundProofs --------------------------
(***************************************************************************)
(* Proofs about PreparedRound for every number of workers, every set of    *)
(* route counts and every bound on the rounds.                             *)
(*                                                                         *)
(* What pc says of the transaction (StageInv) carries the argument: once   *)
(* resolved, the ledger holds a delta per route exactly when no route was  *)
(* left over.  HistoryInv relates the observations, drained or not, to the *)
(* calls the context has answered; that each of them passes the reviewer   *)
(* follows from the cut of a round into chunks.                            *)
(***************************************************************************)
EXTENDS PreparedRound, NaturalLemmas, SequenceTheorems

-----------------------------------------------------------------------------
(* The invariant *)

PhaseNames == {"PREPARED", "RESERVED", "EVALUATING", "VALIDATED", "ABORTED",
               "INTERRUPTED"}
Stages     == {"idle", "reserve", "begin", "screen", "run", "resolve",
               "answer", "project", "ended"}

NumberType ==
  /\ rounds \in 0..MaxRounds /\ roundCalls \in 0..rounds
  /\ routes \in RouteCounts \cup {1} /\ budget \in Nat
  /\ reserved \in 0..budget /\ prepared \in 0..routes /\ poolReceipts \in Nat

ControlType ==
  /\ pc \in Stages /\ source \in {"oracle", "context"}
  /\ timed \in BOOLEAN /\ expired \in BOOLEAN /\ raised \in BOOLEAN
  /\ trace \in Seq(PhaseNames)
  /\ result \in {"none", "solutions", "receipt", "timeout", "error"}

ChunkType == left \subseteq 1..ChunkCount /\ completed \subseteq 1..routes

RoundType == NumberType /\ ControlType /\ ChunkType

(* The round is before the answer of its native call.                      *)
Unanswered == {"reserve", "begin", "screen", "run", "resolve"}

Interrupted == Cardinality(completed) < routes

StageInv ==
  /\ pc = "reserve" => trace = <<"PREPARED">> /\ prepared = 0
  /\ pc = "begin" =>
       trace = <<"PREPARED", "RESERVED">> /\ reserved = routes /\ prepared = 0
  /\ pc \in {"screen", "run", "resolve"} =>
       /\ trace = <<"PREPARED", "RESERVED", "EVALUATING">>
       /\ reserved = routes /\ prepared = 0
  /\ pc \in {"answer", "project"} =>
       /\ trace = <<"PREPARED", "RESERVED", "EVALUATING",
                    IF Interrupted THEN "INTERRUPTED" ELSE "VALIDATED">>
       /\ reserved = routes /\ prepared = IF Interrupted THEN 0 ELSE routes

CallInv ==
  /\ pc = "project" => source = "oracle"
  /\ source = "oracle" /\ pc \notin {"idle", "ended"} => budget = routes
  /\ pc \in Unanswered => roundCalls < rounds

Observation ==
  [call : Nat, phase : PhaseNames, trace : Seq(PhaseNames), budget : Nat,
   reserved : Nat, started : Nat, completed : Nat, prepared : Nat,
   policy : {"serial_configured", "parallel", "serial_small_batch"},
   scheduled : Nat, tasks : Seq(Seq(Nat))]
Reviewed == {o \in Observation : ObservationReviewed(o)}

Calls(s) == [k \in 1..Len(s) |-> s[k].call]
Seen == drained \o observations

(* The native calls the runtime has been told of, and the one it will be.  *)
Told == IF pc = "project" THEN Append(Calls(Seen), roundCalls)
        ELSE Calls(Seen)

HistoryInv ==
  /\ observations \in Seq(Reviewed) /\ drained \in Seq(Reviewed)
  /\ native \in Seq(Nat) /\ native = Told
  /\ \A k \in 1..Len(native) : native[k] <= roundCalls
  /\ \A k, l \in 1..Len(native) : k < l => native[k] < native[l]

RoundInv == RoundType /\ StageInv /\ PreparedOrNothing /\ CallInv /\ HistoryInv

-----------------------------------------------------------------------------
(* Chunks *)

LEMMA RoutesPositive ==
  ASSUME RoundType
  PROVE  routes \in Nat \ {0} /\ WorkerCount \in Nat \ {0}
BY RoundAssumption DEF RoundType, NumberType

LEMMA ThresholdValue == Threshold = WorkerCount * 2
<1> DEFINE w == WorkerCount * 2  t == Max({1, w})
<1>1. w \in Nat /\ w > 1
  BY RoundAssumption
<1> HIDE DEF w
<1>2. {1, w} \in SUBSET Nat /\ {1, w} # {} /\ w \in Nat /\ \A x \in {1, w} : x <= w
  BY <1>1
<1>3. t \in {1, w} /\ \A y \in {1, w} : y <= t
  BY <1>2, GreatestElement
<1> HIDE DEF t
<1>4. t = w
  BY <1>1, <1>3
<1> QED BY <1>4 DEF Threshold, t, w

(* A parallel round has a chunk per worker, a serial one a single chunk.   *)
LEMMA ChunkCountValue ==
  ASSUME RoundType
  PROVE  /\ UseParallel <=> WorkerCount > 1 /\ routes >= WorkerCount * 2
         /\ ChunkCount = IF UseParallel THEN WorkerCount ELSE 1
         /\ UseParallel => Min({routes, WorkerCount}) = WorkerCount
         /\ ChunkCount \in 1..WorkerCount /\ ChunkCount <= routes
<1>1. routes \in Nat \ {0} /\ WorkerCount \in Nat \ {0}
  BY RoutesPositive
<1>2. UseParallel <=> WorkerCount > 1 /\ routes >= WorkerCount * 2
  BY ThresholdValue DEF UseParallel
<1>3. ASSUME UseParallel PROVE Min({routes, WorkerCount}) = WorkerCount
  <2> DEFINE x == Min({routes, WorkerCount})
  <2>1. {routes, WorkerCount} \in SUBSET Nat /\ {routes, WorkerCount} # {}
    BY <1>1
  <2>2. x \in {routes, WorkerCount} /\ \A y \in {routes, WorkerCount} : x <= y
    BY <2>1, LeastElement
  <2> HIDE DEF x
  <2>3. x = WorkerCount
    BY <1>1, <1>2, <1>3, <2>2
  <2> QED BY <2>3 DEF x
<1>4. ChunkCount = IF UseParallel THEN WorkerCount ELSE 1
  BY <1>3 DEF ChunkCount
<1> QED BY <1>1, <1>2, <1>3, <1>4

(* The chunks of a round are consecutive non-empty ranges of its routes.   *)
LEMMA ChunkBounds ==
  ASSUME RoundType
  PROVE  /\ ChunkFirst(1) = 1 /\ ChunkFirst(ChunkCount + 1) = routes + 1
         /\ \A k \in 1..(ChunkCount + 1) : ChunkFirst(k) \in Nat
         /\ \A k, l \in 1..(ChunkCount + 1) : k < l => ChunkFirst(k) < ChunkFirst(l)
<1> DEFINE n == routes  m == ChunkCount
           F == [k \in 1..(m + 1) |-> ChunkFirst(k)]
<1>1. n \in Nat \ {0} /\ m \in Nat \ {0} /\ m <= n
  BY RoutesPositive, ChunkCountValue
<1>2. \A k : ChunkFirst(k) = (k - 1) * (n \div m) + Min({k - 1, n % m}) + 1
  BY DEF ChunkFirst
<1> HIDE DEF n, m
<1>3. \A k \in 1..(m + 1) : F[k] = ChunkFirst(k)
  OBVIOUS
<1>4. 1 \in 1..(m + 1) /\ m + 1 \in 1..(m + 1)
  BY <1>1
<1> HIDE DEF F
<1>5. \A k \in 1..(m + 1) :
        F[k] = (k - 1) * (n \div m) + Min({k - 1, n % m}) + 1
  BY <1>2, <1>3, Zenon
<1>6. /\ F[1] = 1 /\ F[m + 1] = n + 1
      /\ \A k \in 1..(m + 1) : F[k] \in Nat
      /\ \A k, l \in 1..(m + 1) : k < l => F[k] < F[l]
  BY <1>1, <1>5, Cut, Zenon
<1> QED BY <1>3, <1>4, <1>6, Zenon DEF n, m

LEMMA ChunkRange ==
  ASSUME RoundType, NEW k \in 1..ChunkCount
  PROVE  ChunkRoutes(k) \subseteq 1..routes
<1> DEFINE n == routes  m == ChunkCount
<1>1. n \in Nat \ {0} /\ m \in Nat \ {0} /\ k \in 1..m
  BY RoutesPositive, ChunkCountValue
<1>2. /\ ChunkFirst(1) = 1 /\ ChunkFirst(m + 1) = n + 1
      /\ \A j \in 1..(m + 1) : ChunkFirst(j) \in Nat
      /\ \A i, j \in 1..(m + 1) : i < j => ChunkFirst(i) < ChunkFirst(j)
  BY ChunkBounds
<1> HIDE DEF n, m
<1>3. 1 \in 1..(m + 1) /\ m + 1 \in 1..(m + 1) /\ k \in 1..(m + 1) /\ k + 1 \in 1..(m + 1)
  BY <1>1
<1>4. ChunkFirst(k) >= 1
  <2>1. CASE k = 1
    BY <2>1, <1>2
  <2>2. CASE k # 1
    <3>1. 1 < k
      BY <2>2, <1>1
    <3> QED BY <3>1, <1>2, <1>3
  <2> QED BY <2>1, <2>2
<1>5. ChunkFirst(k + 1) <= n + 1
  <2>1. CASE k = m
    BY <2>1, <1>1, <1>2
  <2>2. CASE k # m
    <3>1. k + 1 < m + 1
      BY <2>2, <1>1
    <3> QED BY <3>1, <1>1, <1>2, <1>3
  <2> QED BY <2>1, <2>2
<1>6. ChunkRoutes(k) = ChunkFirst(k)..(ChunkFirst(k + 1) - 1)
  BY DEF ChunkRoutes
<1>7. ChunkFirst(k) \in Nat /\ ChunkFirst(k + 1) \in Nat
  BY <1>2, <1>3
<1> QED BY <1>1, <1>4, <1>5, <1>6, <1>7 DEF n

(* A round without an interrupted route has completed each of its routes.  *)
LEMMA CompletedCount ==
  ASSUME RoundType
  PROVE  /\ Cardinality(completed) \in 0..routes
         /\ ~Interrupted <=> Cardinality(completed) = routes
         /\ ~Interrupted => completed = 1..routes
<1>1. routes \in Nat \ {0} /\ completed \in SUBSET (1..routes)
  BY RoutesPositive DEF RoundType, ChunkType
<1> DEFINE c == Cardinality(completed)
<1>2. IsFiniteSet(1..routes) /\ Cardinality(1..routes) = routes
  BY <1>1, FS_Interval
<1>3. /\ IsFiniteSet(completed) /\ c <= Cardinality(1..routes)
      /\ Cardinality(1..routes) = c => 1..routes = completed
  BY <1>1, <1>2, FS_Subset
<1>4. c \in Nat
  BY <1>3, FS_CardinalityType
<1>5. Interrupted <=> c < routes
  BY DEF Interrupted
<1> HIDE DEF c
<1>6. /\ c \in 0..routes /\ (~Interrupted <=> c = routes)
      /\ ~Interrupted => completed = 1..routes
  BY <1>1, <1>2, <1>3, <1>4, <1>5
<1> QED BY <1>6 DEF c

-----------------------------------------------------------------------------
(* What the receipt of a round says                                        *)

(* The task receipts tile the routes of a parallel round, from its first   *)
(* to its last.                                                            *)
LEMMA TasksTile ==
  ASSUME RoundType
  PROVE  LET t == Receipt.tasks
         IN /\ t \in Seq(Seq(Nat))
            /\ Len(t) = IF UseParallel THEN ChunkCount ELSE 0
            /\ \A k \in 1..Len(t) :
                 /\ t[k][1] = IF k = 1 THEN 0 ELSE t[k - 1][2]
                 /\ t[k][1] < t[k][2]
            /\ t # <<>> => t[Len(t)][2] = routes
<1> DEFINE t == Receipt.tasks  m == ChunkCount
           E(k) == <<ChunkFirst(k) - 1, ChunkFirst(k + 1) - 1>>
<1>1. m \in Nat \ {0} /\ routes \in Nat \ {0} /\ WorkerCount \in Nat \ {0}
  BY RoutesPositive, ChunkCountValue
<1>2. /\ ChunkFirst(1) = 1 /\ ChunkFirst(m + 1) = routes + 1
      /\ \A k \in 1..(m + 1) : ChunkFirst(k) \in Nat
      /\ \A k, l \in 1..(m + 1) : k < l => ChunkFirst(k) < ChunkFirst(l)
  BY ChunkBounds
<1>3. t = IF UseParallel THEN [k \in 1..m |-> E(k)] ELSE <<>>
  BY DEF Receipt
<1> HIDE DEF t, m
<1>4. CASE ~UseParallel
  BY <1>3, <1>4 DEF t, m
<1>5. CASE UseParallel
  <2>1. t = [k \in 1..m |-> E(k)]
    BY <1>3, <1>5
  <2>2. \A k \in 1..m : ChunkFirst(k) \in Nat \ {0}
    <3> TAKE k \in 1..m
    <3>1. CASE k = 1
      BY <3>1, <1>2
    <3>2. CASE k # 1
      <4>1. 1 < k /\ 1 \in 1..(m + 1) /\ k \in 1..(m + 1)
        BY <3>2, <1>1
      <4> QED BY <4>1, <1>2
    <3> QED BY <3>1, <3>2
  <2>3. \A k \in 1..m : /\ ChunkFirst(k) < ChunkFirst(k + 1)
                        /\ ChunkFirst(k + 1) \in Nat
    <3> TAKE k \in 1..m
    <3>1. k \in 1..(m + 1) /\ k + 1 \in 1..(m + 1) /\ k < k + 1
      BY <1>1
    <3> QED BY <3>1, <1>2
  <2>4. \A k \in 1..m : E(k) \in Seq(Nat) /\ E(k)[1] = ChunkFirst(k) - 1
                        /\ E(k)[2] = ChunkFirst(k + 1) - 1
    <3> TAKE k \in 1..m
    <3>1. ChunkFirst(k) - 1 \in Nat /\ ChunkFirst(k + 1) - 1 \in Nat
      BY <2>2, <2>3
    <3> QED BY <3>1
  <2> HIDE DEF E
  <2>5. t \in Seq(Seq(Nat)) /\ Len(t) = m /\ \A k \in 1..m : t[k] = E(k)
    BY <2>1, <2>4, <1>1
  <2>6. ASSUME NEW k \in 1..m
        PROVE  /\ t[k][1] = IF k = 1 THEN 0 ELSE t[k - 1][2]
               /\ t[k][1] < t[k][2]
    <3>1. t[k][1] = ChunkFirst(k) - 1 /\ t[k][2] = ChunkFirst(k + 1) - 1
      BY <2>4, <2>5
    <3>2. CASE k = 1
      BY <3>1, <3>2, <1>2, <2>2, <2>3
    <3>3. CASE k # 1
      <4>1. k - 1 \in 1..m /\ (k - 1) + 1 = k
        BY <3>3, <1>1
      <4>2. t[k - 1][2] = ChunkFirst(k) - 1
        BY <4>1, <2>4, <2>5
      <4> QED BY <3>1, <3>3, <4>2, <2>2, <2>3
    <3> QED BY <3>2, <3>3
  <2>7. t[m][2] = routes
    <3>1. m \in 1..m
      BY <1>1
    <3>2. t[m][2] = ChunkFirst(m + 1) - 1
      BY <3>1, <2>4, <2>5
    <3> QED BY <3>2, <1>1, <1>2
  <2> QED BY <2>5, <2>6, <2>7, <1>5 DEF m, t
<1> QED BY <1>4, <1>5

LEMMA TwoPhases ==
  ASSUME NEW a, NEW b
  PROVE  Append(<<a>>, b) = <<a, b>> /\ Len(<<a, b>>) = 2 /\ <<a, b>>[2] = b
<1> DEFINE s == Append(<<a>>, b)  u == <<a, b>>
<1>1. /\ s \in Seq({a, b}) /\ u \in Seq({a, b})
      /\ Len(s) = 2 /\ Len(u) = 2 /\ \A i \in 1..2 : s[i] = u[i]
      /\ u[2] = b
  OBVIOUS
<1> HIDE DEF s, u
<1>2. s = u
  BY <1>1, SeqEqual
<1> QED BY <1>1, <1>2 DEF s, u

LEMMA ThreePhases ==
  ASSUME NEW a, NEW b, NEW c
  PROVE  Append(<<a, b>>, c) = <<a, b, c>> /\ Len(<<a, b, c>>) = 3 /\ <<a, b, c>>[3] = c
<1> DEFINE s == Append(<<a, b>>, c)  u == <<a, b, c>>
<1>1. /\ s \in Seq({a, b, c}) /\ u \in Seq({a, b, c})
      /\ Len(s) = 3 /\ Len(u) = 3 /\ \A i \in 1..3 : s[i] = u[i]
      /\ u[3] = c
  OBVIOUS
<1> HIDE DEF s, u
<1>2. s = u
  BY <1>1, SeqEqual
<1> QED BY <1>1, <1>2 DEF s, u

LEMMA FourPhases ==
  ASSUME NEW a, NEW b, NEW c, NEW d
  PROVE  Append(<<a, b, c>>, d) = <<a, b, c, d>> /\ Len(<<a, b, c, d>>) = 4 /\ <<a, b, c, d>>[4] = d
<1> DEFINE s == Append(<<a, b, c>>, d)  u == <<a, b, c, d>>
<1>1. /\ s \in Seq({a, b, c, d}) /\ u \in Seq({a, b, c, d})
      /\ Len(s) = 4 /\ Len(u) = 4 /\ \A i \in 1..4 : s[i] = u[i]
      /\ u[4] = d
  OBVIOUS
<1> HIDE DEF s, u
<1>2. s = u
  BY <1>1, SeqEqual
<1> QED BY <1>1, <1>2 DEF s, u

(* What an answered round says of itself passes the adapter's check and    *)
(* the reviewer's.                                                         *)
LEMMA ReceiptAccepted ==
  ASSUME RoundType, StageInv, CallInv, pc = "project"
  PROVE  /\ ProjectionAccepted(Receipt) /\ Receipt \in Reviewed
         /\ Receipt.call = roundCalls
<1>1. /\ routes \in Nat \ {0} /\ WorkerCount \in Nat \ {0}
      /\ budget = routes /\ reserved = routes /\ roundCalls \in Nat
      /\ prepared = IF Interrupted THEN 0 ELSE routes
      /\ trace = <<"PREPARED", "RESERVED", "EVALUATING",
                   IF Interrupted THEN "INTERRUPTED" ELSE "VALIDATED">>
      /\ trace \in Seq(PhaseNames)
  <2>1. roundCalls \in Nat
    BY DEF RoundType, NumberType
  <2> QED BY RoutesPositive, <2>1 DEF StageInv, CallInv, RoundType, ControlType
<1>2. /\ UseParallel <=> WorkerCount > 1 /\ routes >= WorkerCount * 2
      /\ ChunkCount = IF UseParallel THEN WorkerCount ELSE 1
      /\ UseParallel => Min({routes, WorkerCount}) = WorkerCount
      /\ ChunkCount \in 1..WorkerCount
  BY ChunkCountValue
<1>3. /\ Cardinality(completed) \in 0..routes
      /\ ~Interrupted <=> Cardinality(completed) = routes
  BY CompletedCount
<1>4. Phase = (IF Interrupted THEN "INTERRUPTED" ELSE "VALIDATED")
      /\ trace[Len(trace)] = Phase /\ Phase \in PhaseNames
  BY <1>1, FourPhases DEF Phase, PhaseNames
<1>5. /\ Policy = IF WorkerCount = 1 THEN "serial_configured"
                  ELSE IF UseParallel THEN "parallel" ELSE "serial_small_batch"
  BY DEF Policy
<1>6. trace \in ValidTraces
  BY <1>1 DEF ValidTraces
<1> DEFINE o == Receipt
<1>7. /\ o.call = roundCalls /\ o.phase = Phase /\ o.trace = trace
      /\ o.budget = budget /\ o.reserved = reserved /\ o.started = routes
      /\ o.completed = Cardinality(completed) /\ o.prepared = prepared
      /\ o.policy = Policy /\ o.scheduled = ChunkCount
  BY DEF Receipt
<1>8. /\ o.tasks \in Seq(Seq(Nat))
      /\ Len(o.tasks) = IF UseParallel THEN ChunkCount ELSE 0
      /\ \A k \in 1..Len(o.tasks) :
           /\ o.tasks[k][1] = IF k = 1 THEN 0 ELSE o.tasks[k - 1][2]
           /\ o.tasks[k][1] < o.tasks[k][2]
      /\ o.tasks # <<>> => o.tasks[Len(o.tasks)][2] = routes
  BY TasksTile
<1>9. o \in Observation
  <2>1. /\ roundCalls \in Nat /\ Phase \in PhaseNames /\ trace \in Seq(PhaseNames)
        /\ budget \in Nat /\ reserved \in Nat /\ routes \in Nat
        /\ Cardinality(completed) \in Nat /\ prepared \in Nat
        /\ Policy \in {"serial_configured", "parallel", "serial_small_batch"}
        /\ ChunkCount \in Nat
    BY <1>1, <1>2, <1>3, <1>4, <1>5
  <2> DEFINE t == o.tasks
  <2>2. t \in Seq(Seq(Nat))
    BY <1>8
  <2>3. o = [call |-> roundCalls, phase |-> Phase, trace |-> trace,
             budget |-> budget, reserved |-> reserved, started |-> routes,
             completed |-> Cardinality(completed), prepared |-> prepared,
             policy |-> Policy, scheduled |-> ChunkCount, tasks |-> t]
    BY DEF Receipt
  <2> HIDE DEF t, o
  <2> QED BY <2>1, <2>2, <2>3 DEF Observation
<1> HIDE DEF o
<1>10. ProjectionAccepted(o)
  BY <1>1, <1>2, <1>4, <1>5, <1>6, <1>7 DEF ProjectionAccepted
<1>11. o.policy = ReviewedPolicy(o) /\ o.scheduled = ReviewedScheduled(o)
  BY <1>1, <1>2, <1>5, <1>7 DEF ReviewedPolicy, ReviewedScheduled
<1>12. ObservationReviewed(o)
  <2> DEFINE i == o.started - o.completed
  <2>1. /\ i = routes - Cardinality(completed) /\ i >= 0 /\ i \in Nat
        /\ o.phase = "VALIDATED" <=> i = 0
        /\ o.phase = "VALIDATED" => o.prepared = o.completed
        /\ o.phase # "VALIDATED" => o.prepared = 0
    BY <1>1, <1>3, <1>4, <1>7
  <2> HIDE DEF i
  <2>2. /\ o.started <= o.reserved /\ o.budget >= o.reserved
        /\ o.started = o.reserved /\ o.reserved = routes
        /\ o.trace \in ValidTraces /\ o.phase = o.trace[Len(o.trace)]
    BY <1>1, <1>4, <1>6, <1>7
  <2>3. Len(o.tasks) = IF o.policy = "parallel" THEN o.scheduled ELSE 0
    BY <1>1, <1>2, <1>5, <1>7, <1>8
  <2> QED BY <1>8, <1>11, <2>1, <2>2, <2>3 DEF ObservationReviewed, i
<1> QED BY <1>7, <1>9, <1>10, <1>12, Zenon DEF Reviewed, o


-----------------------------------------------------------------------------
(* The first state *)

LEMMA InitRound == Init => RoundInv
<1> SUFFICES ASSUME Init PROVE RoundInv
  OBVIOUS
<1> USE DEF Init
<1>1. RoundType
  <2>1. NumberType
    BY RoundAssumption DEF NumberType
  <2>2. trace \in Seq(PhaseNames)
    <3>1. "PREPARED" \in PhaseNames
      BY DEF PhaseNames
    <3> QED BY <3>1
  <2>3. ControlType
    BY <2>2 DEF ControlType, Stages
  <2> QED BY <2>1, <2>3 DEF RoundType, ChunkType
<1>2. StageInv /\ CallInv
  BY DEF StageInv, CallInv, Unanswered
<1>3. PreparedOrNothing
  BY DEF PreparedOrNothing
<1>4. HistoryInv
  <2>1. Seen = <<>> /\ Calls(<<>>) = <<>>
    BY DEF Seen, Calls
  <2>2. Told = <<>>
    BY <2>1 DEF Told
  <2> QED BY <2>2 DEF HistoryInv
<1> QED BY <1>1, <1>2, <1>3, <1>4 DEF RoundInv

-----------------------------------------------------------------------------
(* Types *)

(* Between two calls to Begin the cut of the round does not change.        *)
LEMMA SameCut ==
  ASSUME UNCHANGED requestVars
  PROVE  ChunkCount' = ChunkCount /\ UseParallel' = UseParallel
BY DEF requestVars, ChunkCount, UseParallel, Threshold

LEMMA TraceGrows ==
  ASSUME NEW t \in Seq(PhaseNames), NEW p \in PhaseNames
  PROVE  Append(t, p) \in Seq(PhaseNames)
OBVIOUS

LEMMA TypeStep ==
  ASSUME RoundType, StageInv, CallInv, [Next]_vars
  PROVE  RoundType'
<1> USE DEF RoundType
<1>p. /\ "ABORTED" \in PhaseNames /\ "RESERVED" \in PhaseNames
      /\ "EVALUATING" \in PhaseNames /\ "VALIDATED" \in PhaseNames
      /\ "INTERRUPTED" \in PhaseNames /\ <<"PREPARED">> \in Seq(PhaseNames)
  BY DEF PhaseNames
<1>q. routes \in Nat \ {0} /\ ChunkCount \in Nat
  BY RoutesPositive, ChunkCountValue
<1>1. ASSUME NEW who \in {"oracle", "context"}, NEW r \in RouteCounts,
             NEW d \in BOOLEAN, NEW b \in (r - 1)..(r + 1), Begin(who, r, b, d)
      PROVE  RoundType'
  <2>1. /\ rounds' = rounds + 1 /\ rounds < MaxRounds /\ source' = who
        /\ routes' = r /\ budget' = b /\ timed' = d /\ trace' = <<"PREPARED">>
        /\ reserved' = 0 /\ prepared' = 0 /\ left' = {} /\ raised' = FALSE
        /\ completed' = {} /\ expired' \in BOOLEAN
        /\ poolReceipts' = poolReceipts /\ roundCalls' = roundCalls
    BY <1>1 DEF Begin
  <2>2. /\ pc' \in {"reserve", "ended"}
        /\ result' \in {result, "error", "timeout"}
    BY <1>1 DEF Begin, Finish
  <2>3. r \in Nat \ {0} /\ b \in Nat /\ MaxRounds \in Nat
    BY RoundAssumption
  <2>4. NumberType'
    BY <2>1, <2>3 DEF NumberType
  <2>5. ControlType'
    BY <2>1, <2>2, <1>p DEF ControlType, Stages
  <2>6. ChunkType'
    BY <2>1 DEF ChunkType
  <2> QED BY <2>4, <2>5, <2>6
<1>2. CASE Reserve
  <2>1. NumberType'
    BY <1>2, <1>q DEF Reserve, NumberType, Finish, requestVars, chunkVars, traceVars
  <2>2. ControlType'
    BY <1>2, <1>p DEF Reserve, ControlType, Stages, Finish, requestVars, chunkVars
  <2>3. ChunkType'
    BY <1>2, SameCut DEF Reserve, ChunkType, requestVars, chunkVars
  <2> QED BY <2>1, <2>2, <2>3
<1>3. CASE Expire \/ RefuseInput \/ BeginEvaluation \/ ScreenFails \/ Rethrow
           \/ Answer
  <2>1. /\ UNCHANGED <<rounds, requestVars, chunkVars, poolReceipts, roundCalls,
                       reserved>>
        /\ prepared' \in {prepared, 0}
    BY <1>3 DEF Expire, RefuseInput, BeginEvaluation, ScreenFails, Rethrow,
       Answer, Abort, txnVars
  <2>2. /\ pc' \in {pc, "ended", "screen"} /\ expired' \in {expired, TRUE}
        /\ trace' \in {trace, Append(trace, "EVALUATING"),
                       Append(trace, "ABORTED")}
        /\ result' \in {result, "error", "receipt"}
    BY <1>3 DEF Expire, RefuseInput, BeginEvaluation, ScreenFails, Rethrow,
       Answer, Abort, Finish, txnVars
  <2>3. NumberType'
    BY <2>1, <1>q DEF NumberType, requestVars
  <2>4. trace' \in Seq(PhaseNames)
    BY <2>2, <1>p, TraceGrows DEF ControlType
  <2>c. ControlType'
    BY <2>1, <2>2, <2>4 DEF ControlType, Stages, requestVars, chunkVars
  <2>5. ChunkType'
    BY <2>1, SameCut DEF ChunkType, requestVars, chunkVars
  <2> QED BY <2>3, <2>c, <2>5
<1>4. CASE Screen
  <2>1. NumberType'
    BY <1>4 DEF Screen, NumberType, requestVars, txnVars
  <2>2. ControlType'
    BY <1>4 DEF Screen, ControlType, Stages, requestVars, txnVars
  <2>3. ChunkType'
    BY <1>4, SameCut DEF Screen, ChunkType, requestVars
  <2> QED BY <2>1, <2>2, <2>3
<1>5. ASSUME NEW k \in left, RunChunk(k) \/ ChunkRaises(k)
      PROVE  RoundType'
  <2>1. /\ UNCHANGED <<rounds, pc, requestVars, expired, txnVars, roundCalls, result>>
        /\ left' \subseteq left /\ raised' \in {raised, TRUE}
        /\ poolReceipts' \in {poolReceipts, poolReceipts + 1}
    BY <1>5 DEF RunChunk, ChunkRaises
  <2>2. completed' \subseteq completed \cup ChunkRoutes(k)
    BY <1>5 DEF RunChunk, ChunkRaises
  <2>3. completed' \subseteq 1..routes
    BY <2>2, ChunkRange DEF ChunkType
  <2>4. NumberType'
    BY <2>1 DEF NumberType, requestVars, txnVars
  <2>5. ControlType'
    BY <2>1 DEF ControlType, requestVars, txnVars
  <2>6. ChunkType'
    BY <2>1, <2>3, SameCut DEF ChunkType, requestVars
  <2> QED BY <2>4, <2>5, <2>6
<1>6. CASE JoinChunks
  <2>1. /\ UNCHANGED <<rounds, requestVars, expired, chunkVars, roundCalls, reserved>>
        /\ prepared' \in {prepared, 0} /\ poolReceipts' \in {poolReceipts, 0}
    BY <1>6 DEF JoinChunks, Abort, txnVars
  <2>2. /\ pc' \in {"ended", "resolve"} /\ result' \in {result, "error"}
        /\ trace' \in {trace, Append(trace, "ABORTED")}
    BY <1>6 DEF JoinChunks, Abort, Finish, txnVars
  <2>3. NumberType'
    BY <2>1, <1>q DEF NumberType, requestVars
  <2>4. trace' \in Seq(PhaseNames)
    BY <2>2, <1>p, TraceGrows DEF ControlType
  <2>c. ControlType'
    BY <2>1, <2>2, <2>4 DEF ControlType, Stages, requestVars, chunkVars
  <2>5. ChunkType'
    BY <2>1, SameCut DEF ChunkType, requestVars, chunkVars
  <2> QED BY <2>3, <2>c, <2>5
<1>7. CASE Resolve
  <2>1. /\ UNCHANGED <<rounds, requestVars, expired, reserved, chunkVars,
                       poolReceipts, result>>
        /\ prepared' \in {0, routes} /\ roundCalls' = roundCalls + 1
        /\ pc = "resolve" /\ pc' \in {"project", "answer"}
        /\ trace' \in {Append(trace, "INTERRUPTED"), Append(trace, "VALIDATED")}
    BY <1>7 DEF Resolve
  <2>2. roundCalls < rounds
    BY <2>1 DEF CallInv, Unanswered
  <2>3. NumberType'
    BY <2>1, <2>2, <1>q DEF NumberType, requestVars
  <2>4. trace' \in Seq(PhaseNames)
    BY <2>1, <1>p, TraceGrows DEF ControlType
  <2>c. ControlType'
    BY <2>1, <2>4 DEF ControlType, Stages, requestVars, chunkVars
  <2>5. ChunkType'
    BY <2>1, SameCut DEF ChunkType, requestVars, chunkVars
  <2> QED BY <2>3, <2>c, <2>5
<1>8. CASE Record \/ Drain \/ NoMoreRounds \/ UNCHANGED vars
  <2>1. /\ UNCHANGED <<rounds, requestVars, expired, txnVars, chunkVars,
                       poolReceipts, roundCalls>>
        /\ pc' \in {pc, "ended", "idle"}
        /\ result' \in {result, "timeout", "solutions"}
    BY <1>8 DEF Record, Drain, NoMoreRounds, Finish, vars
  <2>2. NumberType'
    BY <2>1 DEF NumberType, requestVars, txnVars
  <2>3. ControlType'
    BY <2>1 DEF ControlType, Stages, requestVars, chunkVars, txnVars
  <2>4. ChunkType'
    BY <2>1, SameCut DEF ChunkType, requestVars, chunkVars
  <2> QED BY <2>2, <2>3, <2>4
<1> QED BY <1>1, <1>2, <1>3, <1>4, <1>5, <1>6, <1>7, <1>8 DEF Next


-----------------------------------------------------------------------------
(* What the transaction has done *)

(* An action that leaves the round alone: its chunks and its trace.        *)
SameRound == UNCHANGED <<source, routes, budget, trace, reserved, prepared, completed>>

LEMMA StageStep ==
  ASSUME RoundType, StageInv, PreparedOrNothing, CallInv, [Next]_vars
  PROVE  StageInv' /\ PreparedOrNothing'
<1>q. routes \in Nat \ {0}
  BY RoutesPositive
<1>2p. \A a, b : /\ Append(<<a>>, b) = <<a, b>> /\ Len(<<a, b>>) = 2
                 /\ <<a, b>>[2] = b
  BY TwoPhases, Zenon
<1>3p. LET t == <<"PREPARED", "RESERVED", "EVALUATING">>
       IN  /\ Append(<<"PREPARED", "RESERVED">>, "EVALUATING") = t
           /\ Len(t) = 3 /\ t[3] = "EVALUATING"
  BY ThreePhases
<1>4p. \A p : LET t == <<"PREPARED", "RESERVED", "EVALUATING", p>>
              IN /\ Append(<<"PREPARED", "RESERVED", "EVALUATING">>, p) = t
                 /\ Len(t) = 4 /\ t[4] = p
  BY FourPhases
<1>p. <<"PREPARED">>[1] = "PREPARED" /\ Len(<<"PREPARED">>) = 1
  OBVIOUS
<1>1. ASSUME NEW who \in {"oracle", "context"}, NEW r \in RouteCounts,
             NEW d \in BOOLEAN, NEW b \in (r - 1)..(r + 1), Begin(who, r, b, d)
      PROVE  StageInv' /\ PreparedOrNothing'
  <2>1. /\ trace' = <<"PREPARED">> /\ prepared' = 0
        /\ \/ pc' = "reserve"
           \/ pc' = "ended" /\ result' \in {"error", "timeout"}
    BY <1>1 DEF Begin, Finish
  <2> QED BY <2>1 DEF StageInv, PreparedOrNothing
<1>2. CASE Reserve
  <2>1. trace = <<"PREPARED">> /\ prepared = 0 /\ prepared' = 0
    BY <1>2 DEF Reserve, StageInv
  <2>2. \/ /\ trace' = Append(trace, "ABORTED") /\ pc' = "ended"
           /\ result' = "error"
        \/ /\ trace' = Append(trace, "RESERVED") /\ pc' = "begin"
           /\ reserved' = routes /\ routes' = routes
    BY <1>2 DEF Reserve, Finish, requestVars
  <2> QED BY <2>1, <2>2, <1>p, <1>2p, <1>3p, <1>4p DEF StageInv, PreparedOrNothing
<1>3. CASE RefuseInput
  BY <1>3, <1>p, <1>2p, <1>3p, <1>4p DEF RefuseInput, Finish, txnVars, StageInv, PreparedOrNothing
<1>4. CASE BeginEvaluation
  <2>1. /\ trace = <<"PREPARED", "RESERVED">> /\ reserved = routes
        /\ prepared = 0 /\ prepared' = 0 /\ reserved' = reserved
        /\ routes' = routes /\ trace' = Append(trace, "EVALUATING")
        /\ pc' = "screen"
    BY <1>4 DEF BeginEvaluation, StageInv, requestVars
  <2>2. trace' = <<"PREPARED", "RESERVED", "EVALUATING">>
    BY <2>1, <1>3p
  <2> QED BY <2>1, <2>2 DEF StageInv, PreparedOrNothing
<1>5. CASE Abort
  <2>1. prepared' = 0 /\ pc' = "ended" /\ result' = "error"
    BY <1>5 DEF Abort, Finish
  <2> QED BY <2>1 DEF StageInv, PreparedOrNothing
<1>6. ASSUME SameRound, pc \in {"screen", "run"}, pc' \in {"screen", "run", "resolve"}
      PROVE  StageInv' /\ PreparedOrNothing'
  BY <1>6 DEF SameRound, StageInv, PreparedOrNothing
<1>7. ASSUME pc = "run", pc' = "run", prepared' = prepared,
             UNCHANGED <<routes, trace, reserved>>
      PROVE  StageInv' /\ PreparedOrNothing'
  BY <1>7 DEF StageInv, PreparedOrNothing
<1>8. CASE Resolve
  <2>1. /\ trace = <<"PREPARED", "RESERVED", "EVALUATING">>
        /\ reserved = routes /\ reserved' = reserved /\ routes' = routes
        /\ completed' = completed /\ pc' \in {"project", "answer"}
        /\ trace' = Append(trace, IF Interrupted THEN "INTERRUPTED"
                                  ELSE "VALIDATED")
        /\ prepared' = IF Interrupted THEN 0 ELSE routes
    BY <1>8 DEF Resolve, StageInv, Interrupted, requestVars, chunkVars
  <2>2. Interrupted' = Interrupted
    BY <2>1 DEF Interrupted
  <2>3. /\ trace' = <<"PREPARED", "RESERVED", "EVALUATING",
                     IF Interrupted THEN "INTERRUPTED" ELSE "VALIDATED">>
        /\ Phase' = IF Interrupted THEN "INTERRUPTED" ELSE "VALIDATED"
    BY <2>1, <1>p, <1>2p, <1>3p, <1>4p DEF Phase
  <2> QED BY <2>1, <2>2, <2>3 DEF StageInv, PreparedOrNothing
<1>9. CASE Answer \/ Record
  <2>1. /\ UNCHANGED <<routes, trace, reserved, prepared, completed>>
        /\ pc' = "ended" /\ pc \in {"answer", "project"}
        /\ result' = "solutions" => pc = "project" /\ Phase # "INTERRUPTED"
    BY <1>9 DEF Answer, Record, Finish, requestVars, txnVars, chunkVars
  <2>2. /\ Phase = IF Interrupted THEN "INTERRUPTED" ELSE "VALIDATED"
        /\ prepared = IF Interrupted THEN 0 ELSE routes
    BY <2>1, <1>p, <1>2p, <1>3p, <1>4p DEF StageInv, Phase
  <2>3. Phase' = Phase
    BY <2>1 DEF Phase
  <2>4. result' = "solutions" => completed = 1..routes /\ prepared = routes
    BY <2>1, <2>2, CompletedCount
  <2> QED BY <2>1, <2>2, <2>3, <2>4 DEF StageInv, PreparedOrNothing
<1>10. CASE Drain \/ NoMoreRounds \/ UNCHANGED vars
  <2>1. /\ UNCHANGED <<routes, trace, reserved, prepared, completed, result>>
        /\ pc' = pc \/ (pc = "ended" /\ pc' = "idle")
    BY <1>10 DEF Drain, NoMoreRounds, vars, requestVars, txnVars, chunkVars
  <2>2. Phase' = Phase /\ Interrupted' = Interrupted
    BY <2>1 DEF Phase, Interrupted
  <2> QED BY <2>1, <2>2 DEF StageInv, PreparedOrNothing
<1>11. CASE Expire \/ Screen
  <2>1. SameRound /\ pc \in {"screen", "run"} /\ pc' \in {"screen", "run"}
    BY <1>11 DEF Expire, Screen, SameRound, requestVars, txnVars, chunkVars
  <2> QED BY <2>1, <1>6
<1>12. ASSUME NEW k \in left, RunChunk(k) \/ ChunkRaises(k)
       PROVE  StageInv' /\ PreparedOrNothing'
  BY <1>12, <1>7 DEF RunChunk, ChunkRaises, requestVars, txnVars
<1>13. CASE ScreenFails \/ Rethrow
  BY <1>13, <1>5 DEF ScreenFails, Rethrow
<1>14. CASE JoinChunks
  <2>1. \/ Abort
        \/ SameRound /\ pc = "run" /\ pc' = "resolve"
    BY <1>14 DEF JoinChunks, SameRound, requestVars, txnVars, chunkVars
  <2> QED BY <2>1, <1>5, <1>6
<1> QED BY <1>1, <1>2, <1>3, <1>4, <1>8, <1>9, <1>10, <1>11, <1>12, <1>13, <1>14
     DEF Next


-----------------------------------------------------------------------------
(* Who is answered *)

LEMMA CallStep ==
  ASSUME RoundType, CallInv, [Next]_vars
  PROVE  CallInv'
<1>t. roundCalls \in Nat /\ rounds \in Nat /\ roundCalls <= rounds /\ pc \in Stages
  BY RoundAssumption DEF RoundType, NumberType, ControlType
<1>1. ASSUME NEW who \in {"oracle", "context"}, NEW r \in RouteCounts,
             NEW d \in BOOLEAN, NEW b \in (r - 1)..(r + 1), Begin(who, r, b, d)
      PROVE  CallInv'
  <2>1. /\ rounds' = rounds + 1 /\ roundCalls' = roundCalls /\ source' = who
        /\ routes' = r /\ budget' = b
        /\ pc' = "ended" \/ (pc' = "reserve" /\ (who = "oracle" => b = r))
    BY <1>1 DEF Begin, Finish
  <2> QED BY <2>1, <1>t DEF CallInv, Unanswered
<1>2. CASE Resolve
  BY <1>2 DEF Resolve, CallInv, Unanswered, requestVars
<1>3. CASE \/ Expire \/ Reserve \/ RefuseInput \/ BeginEvaluation \/ Screen
           \/ ScreenFails \/ Rethrow \/ JoinChunks \/ Answer \/ Record \/ Drain
           \/ NoMoreRounds \/ UNCHANGED vars
           \/ \E k \in left : RunChunk(k) \/ ChunkRaises(k)
  <2>1. UNCHANGED <<rounds, roundCalls, source, routes, budget>>
    BY <1>3 DEF Expire, Reserve, RefuseInput, BeginEvaluation, Screen,
       ScreenFails, Rethrow, JoinChunks, Answer, Record, Drain, NoMoreRounds,
       RunChunk, ChunkRaises, vars, requestVars
  <2>2. \/ pc' = pc
        \/ pc' \in {"idle", "ended"}
        \/ pc \in Unanswered /\ pc' \in Unanswered
    BY <1>3 DEF Expire, Reserve, RefuseInput, BeginEvaluation, Screen,
       ScreenFails, Rethrow, JoinChunks, Answer, Record, Drain, NoMoreRounds,
       RunChunk, ChunkRaises, Abort, Finish, Unanswered, vars
  <2> QED BY <2>1, <2>2 DEF CallInv, Unanswered
<1> QED BY <1>1, <1>2, <1>3 DEF Next

-----------------------------------------------------------------------------
(* What the runtime has been told *)

LEMMA CallsLength ==
  ASSUME NEW s \in Seq(Reviewed)
  PROVE  /\ Calls(s) \in Seq(Nat) /\ Len(Calls(s)) = Len(s)
         /\ \A k \in 1..Len(s) : Calls(s)[k] = s[k].call
<1>1. \A k \in 1..Len(s) : s[k].call \in Nat
  <2> TAKE k \in 1..Len(s)
  <2>1. s[k] \in Observation
    BY ElementOfSeq DEF Reviewed
  <2> QED BY <2>1 DEF Observation
<1> QED BY <1>1 DEF Calls

(* Appending an observation appends its call.                              *)
LEMMA CallsAppend ==
  ASSUME NEW s \in Seq(Reviewed), NEW o \in Reviewed
  PROVE  Calls(Append(s, o)) = Append(Calls(s), o.call)
<1> DEFINE t == Append(s, o)  u == Append(Calls(s), o.call)
<1>1. /\ Calls(s) \in Seq(Nat) /\ Len(Calls(s)) = Len(s)
      /\ \A k \in 1..Len(s) : Calls(s)[k] = s[k].call
  BY CallsLength
<1>2. o.call \in Nat
  BY DEF Reviewed, Observation
<1>3. /\ t \in Seq(Reviewed) /\ Len(t) = Len(s) + 1
      /\ \A k \in 1..Len(t) : t[k] = IF k = Len(s) + 1 THEN o ELSE s[k]
  OBVIOUS
<1>4. /\ u \in Seq(Nat) /\ Len(u) = Len(s) + 1
      /\ \A k \in 1..Len(u) : u[k] = IF k = Len(s) + 1 THEN o.call ELSE Calls(s)[k]
  BY <1>1, <1>2
<1> HIDE DEF t, u
<1>5. /\ Calls(t) \in Seq(Nat) /\ Len(Calls(t)) = Len(t)
      /\ \A k \in 1..Len(t) : Calls(t)[k] = t[k].call
  BY <1>3, CallsLength
<1>6. \A k \in 1..Len(t) : Calls(t)[k] = u[k]
  <2> TAKE k \in 1..Len(t)
  <2>1. CASE k = Len(s) + 1
    BY <2>1, <1>3, <1>4, <1>5
  <2>2. CASE k # Len(s) + 1
    <3>1. k \in 1..Len(s)
      BY <2>2, <1>3
    <3> QED BY <3>1, <2>2, <1>1, <1>3, <1>4, <1>5
  <2> QED BY <2>1, <2>2
<1>7. Calls(t) = u
  BY <1>3, <1>4, <1>5, <1>6, SeqEqual
<1> QED BY <1>7 DEF t, u

LEMMA HistoryStep ==
  ASSUME RoundType, StageInv, CallInv, HistoryInv, [Next]_vars
  PROVE  HistoryInv'
<1>t. roundCalls \in Nat
  BY DEF RoundType, NumberType
<1>s. /\ observations \in Seq(Reviewed) /\ drained \in Seq(Reviewed)
      /\ Seen \in Seq(Reviewed) /\ native \in Seq(Nat) /\ native = Told
      /\ \A k \in 1..Len(native) : native[k] <= roundCalls
      /\ \A k, l \in 1..Len(native) : k < l => native[k] < native[l]
  BY DEF HistoryInv, Seen
<1>1. ASSUME UNCHANGED <<traceVars, roundCalls>>, pc' = "project" <=> pc = "project"
      PROVE  HistoryInv'
  <2>1. Seen' = Seen /\ Calls(Seen)' = Calls(Seen)
    BY <1>1 DEF Seen, Calls, traceVars
  <2>2. Told' = Told
    BY <1>1, <2>1 DEF Told
  <2> QED BY <1>1, <2>2 DEF HistoryInv, traceVars
<1>2. CASE Resolve
  <2>1. /\ pc = "resolve" /\ UNCHANGED <<observations, drained>>
        /\ pc' = (IF source = "oracle" THEN "project" ELSE "answer")
        /\ roundCalls' = roundCalls + 1
        /\ native' = (IF source = "oracle" THEN Append(native, roundCalls + 1)
                      ELSE native)
    BY <1>2 DEF Resolve
  <2>2. Seen' = Seen /\ Calls(Seen)' = Calls(Seen) /\ native = Calls(Seen)
    BY <2>1, <1>s DEF Seen, Calls, Told
  <2>3. native' = Told'
    BY <2>1, <2>2 DEF Told
  <2>4. /\ native' \in Seq(Nat)
        /\ \A k \in 1..Len(native') : native'[k] <= roundCalls'
        /\ \A k, l \in 1..Len(native') : k < l => native'[k] < native'[l]
    <3>1. CASE source # "oracle"
      <4>1. native' = native
        BY <3>1, <2>1
      <4>2. \A k \in 1..Len(native) : native[k] \in Nat
        BY <1>s, ElementOfSeq
      <4> QED BY <4>1, <4>2, <2>1, <1>s, <1>t
    <3>2. CASE source = "oracle"
      <4>1. /\ native' \in Seq(Nat) /\ Len(native') = Len(native) + 1
            /\ \A k \in 1..Len(native') :
                 native'[k] = IF k = Len(native) + 1 THEN roundCalls + 1
                              ELSE native[k]
        BY <3>2, <2>1, <1>s, <1>t
      <4> DEFINE m == Len(native)  t == native'
      <4>2. m \in Nat /\ \A k \in 1..m : native[k] \in Nat
        BY <1>s, ElementOfSeq
      <4>3. /\ Len(t) = m + 1 /\ t[m + 1] = roundCalls + 1
            /\ \A k \in 1..m : t[k] = native[k] /\ t[k] <= roundCalls
        BY <4>1, <4>2, <1>s
      <4> HIDE DEF m, t
      <4>4. \A k \in 1..(m + 1) : t[k] <= roundCalls + 1
        BY <4>2, <4>3, <1>t
      <4>5. ASSUME NEW k \in 1..(m + 1), NEW l \in 1..(m + 1), k < l
            PROVE  t[k] < t[l]
        <5>1. k \in 1..m
          BY <4>5, <4>2
        <5>2. CASE l = m + 1
          BY <5>1, <5>2, <4>2, <4>3, <1>t
        <5>3. CASE l # m + 1
          <6>1. l \in 1..m
            BY <5>3, <4>2
          <6>2. native[k] < native[l]
            BY <5>1, <6>1, <4>5, <1>s, Zenon DEF m
          <6> QED BY <5>1, <6>1, <6>2, <4>3
        <5> QED BY <5>2, <5>3
      <4> QED BY <4>1, <4>3, <4>4, <4>5, <2>1 DEF t
    <3> QED BY <3>1, <3>2
  <2> QED BY <2>1, <2>3, <2>4, <1>s DEF HistoryInv
<1>3. CASE Record
  <2>1. /\ pc = "project" /\ observations' = Append(observations, Receipt)
        /\ pc' = "ended" /\ UNCHANGED <<drained, native, roundCalls>>
    BY <1>3 DEF Record, Finish
  <2>2. Receipt \in Reviewed /\ Receipt.call = roundCalls
    BY <2>1, ReceiptAccepted
  <2>3. Seen' = Append(Seen, Receipt)
    <3> DEFINE r == Receipt  a == drained  b == observations
    <3>1. /\ r \in Reviewed /\ a \in Seq(Reviewed) /\ b \in Seq(Reviewed)
          /\ Seen' = a \o Append(b, r) /\ Seen = a \o b
      BY <1>s, <2>1, <2>2 DEF Seen
    <3> HIDE DEF r, a, b
    <3>2. a \o Append(b, r) = Append(a \o b, r)
      BY <3>1
    <3> QED BY <3>1, <3>2 DEF r
  <2>4. Calls(Append(Seen, Receipt)) = Append(Calls(Seen), roundCalls)
    BY <2>2, <1>s, CallsAppend
  <2>5. Told' = Told
    <3>1. Told' = Calls(Seen')
      BY <2>1 DEF Told, Calls
    <3>2. Told = Append(Calls(Seen), roundCalls)
      BY <2>1 DEF Told
    <3> QED BY <3>1, <3>2, <2>3, <2>4
  <2>6. observations' \in Seq(Reviewed)
    BY <2>1, <2>2, <1>s
  <2> QED BY <2>1, <2>5, <2>6, <1>s DEF HistoryInv
<1>4. CASE Drain
  <2>1. /\ pc = "ended" /\ pc' = "idle" /\ observations' = <<>>
        /\ drained' = drained \o observations /\ UNCHANGED <<native, roundCalls>>
    BY <1>4 DEF Drain
  <2>2. drained' \in Seq(Reviewed)
    BY <2>1, <1>s
  <2>3. Seen' = Seen
    BY <2>1, <2>2, ConcatEmptySeq DEF Seen
  <2>4. Told' = Told
    BY <2>1, <2>3 DEF Told, Calls
  <2> QED BY <2>1, <2>2, <2>4, <1>s DEF HistoryInv
<1>5. ASSUME NEW who \in {"oracle", "context"}, NEW r \in RouteCounts,
             NEW d \in BOOLEAN, NEW b \in (r - 1)..(r + 1), Begin(who, r, b, d)
      PROVE  HistoryInv'
  BY <1>5, <1>1 DEF Begin, Finish
<1>6. CASE \/ Expire \/ Reserve \/ RefuseInput \/ BeginEvaluation \/ Screen
           \/ ScreenFails \/ Rethrow \/ JoinChunks \/ Answer
           \/ NoMoreRounds \/ UNCHANGED vars
           \/ \E k \in left : RunChunk(k) \/ ChunkRaises(k)
  <2>1. UNCHANGED <<traceVars, roundCalls>>
    BY <1>6 DEF Expire, Reserve, RefuseInput, BeginEvaluation, Screen,
       ScreenFails, Rethrow, JoinChunks, Answer, NoMoreRounds,
       RunChunk, ChunkRaises, vars
  <2>2. pc' = pc \/ (pc # "project" /\ pc' # "project")
    BY <1>6 DEF Expire, Reserve, RefuseInput, BeginEvaluation, Screen,
       ScreenFails, Rethrow, JoinChunks, Answer, NoMoreRounds,
       RunChunk, ChunkRaises, Abort, Finish, vars
  <2> QED BY <2>1, <2>2, <1>1
<1> QED BY <1>2, <1>3, <1>4, <1>5, <1>6 DEF Next

-----------------------------------------------------------------------------
(* Theorems *)

LEMMA RoundStep == RoundInv /\ [Next]_vars => RoundInv'
BY TypeStep, StageStep, CallStep, HistoryStep DEF RoundInv

(* The phase of the native transaction, its ledger, its chunks and the     *)
(* observations the adapter holds stay related as RoundInv says, through   *)
(* every refusal, failing chunk and abort.                                 *)
THEOREM RoundInvariant == Spec => []RoundInv
BY InitRound, RoundStep, PTL DEF Spec

LEMMA DrainedPrefix ==
  ASSUME HistoryInv
  PROVE  /\ Len(drained) <= Len(native) /\ Len(drained) \in Nat
         /\ \A k \in 1..Len(drained) : native[k] = drained[k].call
<1>1. /\ observations \in Seq(Reviewed) /\ drained \in Seq(Reviewed)
      /\ Seen \in Seq(Reviewed) /\ native = Told
  BY DEF HistoryInv, Seen
<1>2. /\ Len(Seen) = Len(drained) + Len(observations)
      /\ Len(drained) \in Nat /\ Len(observations) \in Nat
      /\ \A k \in 1..Len(drained) : Seen[k] = drained[k]
  BY <1>1 DEF Seen
<1>3. /\ Calls(Seen) \in Seq(Nat) /\ Len(Calls(Seen)) = Len(Seen)
      /\ \A k \in 1..Len(Seen) : Calls(Seen)[k] = Seen[k].call
  BY <1>1, CallsLength
<1>4. /\ Len(Calls(Seen)) <= Len(native)
      /\ \A k \in 1..Len(Seen) : native[k] = Calls(Seen)[k]
  BY <1>1, <1>2, <1>3 DEF Told
<1>5. \A k \in 1..Len(drained) : native[k] = drained[k].call
  <2> TAKE k \in 1..Len(drained)
  <2>1. k \in 1..Len(Seen)
    BY <1>2
  <2> QED BY <2>1, <1>2, <1>3, <1>4
<1> QED BY <1>2, <1>3, <1>4, <1>5


(* The transaction's ledger, phases and chunks stay in their types: no     *)
(* round reserves more than its budget, and at most one chunk per worker   *)
(* is ever submitted.                                                      *)
THEOREM TypeCorrect == Spec => []TypeOK
<1>1. RoundInv => TypeOK
  <2> SUFFICES ASSUME RoundInv PROVE TypeOK
    OBVIOUS
  <2>1. RoundType
    BY DEF RoundInv
  <2>2. ChunkCount \in 1..WorkerCount /\ WorkerCount \in Nat
    BY <2>1, ChunkCountValue, RoutesPositive
  <2>3. left \subseteq 1..WorkerCount
    BY <2>1, <2>2 DEF RoundType, ChunkType
  <2> QED BY <2>1, <2>3 DEF TypeOK, RoundType, NumberType, ControlType, ChunkType,
           Stages, PhaseNames
<1> QED BY <1>1, RoundInvariant, PTL

(* evaluate_batch returns solutions only from a round that completed every *)
(* route and prepared a cache delta for each; resolve and abort leave no   *)
(* delta behind otherwise.                                                 *)
THEOREM PreparedTheorem == Spec => []PreparedOrNothing
BY RoundInvariant, PTL DEF RoundInv

(* Each call the native context answered is observed by the adapter and    *)
(* drained by the runtime once and in order, an interrupted one included.  *)
THEOREM ObservedTheorem == Spec => []ObservedOnce
<1>1. RoundInv => ObservedOnce
  BY DEF RoundInv, HistoryInv, Told, Calls, Seen, ObservedOnce
<1> QED BY <1>1, RoundInvariant, PTL

(* The native round, the adapter and the reviewer agree on the parallel    *)
(* threshold, the cut into chunks and the ledgers: no observation that was *)
(* recorded is refused, and their calls are numbered in order.             *)
THEOREM ReviewedTheorem == Spec => []ReceiptsReviewed
<1>1. RoundInv => ReceiptsReviewed
  <2> SUFFICES ASSUME RoundInv PROVE ReceiptsReviewed
    OBVIOUS
  <2> USE DEF RoundInv
  <2>1. pc = "project" => ProjectionAccepted(Receipt)
    BY ReceiptAccepted
  <2>2. \A k \in 1..Len(drained) : ObservationReviewed(drained[k])
    <3> TAKE k \in 1..Len(drained)
    <3>1. drained[k] \in Reviewed
      BY ElementOfSeq DEF HistoryInv
    <3> QED BY <3>1 DEF Reviewed
  <2>3. \A k \in 2..Len(drained) : drained[k - 1].call < drained[k].call
    <3> TAKE k \in 2..Len(drained)
    <3>1. /\ Len(drained) <= Len(native) /\ Len(drained) \in Nat
          /\ \A j \in 1..Len(drained) : native[j] = drained[j].call
      BY DrainedPrefix
    <3>2. Len(native) \in Nat
      BY DEF HistoryInv
    <3>3. /\ k - 1 \in 1..Len(drained) /\ k \in 1..Len(drained)
          /\ k - 1 \in 1..Len(native) /\ k \in 1..Len(native) /\ k - 1 < k
      BY <3>1, <3>2
    <3>4. native[k - 1] < native[k]
      BY <3>3 DEF HistoryInv
    <3> QED BY <3>1, <3>3, <3>4
  <2> QED BY <2>1, <2>2, <2>3 DEF ReceiptsReviewed
<1> QED BY <1>1, RoundInvariant, PTL

=============================================================================
