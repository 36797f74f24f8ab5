------------------------- MODULE NativeWorkPoolProofs -------------------------
(***************************************************************************)
(* Proofs about NativeWorkPool for every number of callers, workers and    *)
(* calls, every cut of a call into chunks, every queue bound and every     *)
(* capacity for receipts.                                                  *)
(*                                                                         *)
(* The argument follows a chunk: it is queued at one place, then held by   *)
(* one worker, then gone, and only between the caller's enqueue and its    *)
(* return (ChunkInv).  How often an index has run is then a function of    *)
(* where its chunk is (RunsInv); what a call reports is what its workers   *)
(* still have to report together with what they have (ReportInv); and the  *)
(* counters count the workers at a stage of the epilogue (CountInv).       *)
(***************************************************************************)
EXTENDS NativeWorkPool, NaturalLemmas, SequenceTheorems

-----------------------------------------------------------------------------
(* Where a chunk is *)

Task(c, k) == [owner |-> c, chunk |-> k]
ChunkSet(c) == {Task(c, k) : k \in 1..ChunkCount(c)}

Active  == {"run", "nested", "inline", "receipt", "down"}
Holding == Active \cup {"popped", "complete"}

Queued  == {tasks[j] : j \in 1..Len(tasks)}
Holders == {w \in Workers : wpc[w] \in Holding}
Live    == Queued \cup {task[w] : w \in Holders}

(* The chunks a call still waits for.                                      *)
Outstanding(c) == {k \in 1..ChunkCount(c) : Task(c, k) \in Live}

InPool(c) == pc[c] \in {"notify", "wait"}

-----------------------------------------------------------------------------
(* The invariant *)

RunTable == UNION {[1..Count[c] -> Nat] : c \in Callers}

(* The types the steps keep by themselves; that active and remaining are   *)
(* never negative follows from what they count.                            *)
CallerStates == {"start", "enqueue", "space", "notify", "wait", "idle",
                 "blocking", "blocked", "consume", "done"}
WorkerStates == {"idle", "asleep", "popped", "run", "nested", "inline",
                 "receipt", "down", "complete", "exited"}
Outcomes     == {"none", "ok", "raised", "refused", "busy", "consumed"}

QueueType == tasks \in Seq(TaskSet) /\ Len(tasks) <= MaxPending

CounterType ==
  /\ receipts \in 0..MaxReceipts /\ active \in Int
  /\ completed \in Nat /\ dropped \in Nat /\ consumed \in Nat

FlagType ==
  /\ stopping \in BOOLEAN /\ receiptError \in BOOLEAN
  /\ destructor \in {"live", "stopping", "joining", "joined"}

CallerVarsType ==
  /\ pc \in [Callers -> CallerStates] /\ call \in [Callers -> 0..Calls]
  /\ remaining \in [Callers -> Int] /\ failed \in [Callers -> BOOLEAN]
  /\ outcome \in [Callers -> Outcomes]

WorkerVarsType ==
  /\ wpc \in [Workers -> WorkerStates]
  /\ task \in [Workers -> TaskSet \cup {NoTask}]
  /\ \A w \in Holders : task[w] \in TaskSet
  /\ index \in [Workers -> Nat]
  /\ threw \in [Workers -> BOOLEAN] /\ lost \in [Workers -> BOOLEAN]

RunsType ==
  /\ runs \in [Callers -> RunTable]
  /\ \A c \in Callers : runs[c] \in [1..Count[c] -> Nat]
  /\ raised \in SUBSET Callers

PoolType ==
  /\ QueueType /\ CounterType /\ FlagType
  /\ CallerVarsType /\ WorkerVarsType /\ RunsType

(* A chunk is in one place, only while its owner is inside parallel_for,   *)
(* and Completion counts the chunks that are in one.                       *)
ChunkInv ==
  /\ \A i, j \in 1..Len(tasks) : tasks[i] = tasks[j] => i = j
  /\ \A v, w \in Holders : task[v] = task[w] => v = w
  /\ \A w \in Holders : task[w] \notin Queued
  /\ \A t \in Live : InPool(t.owner)
  /\ \A c \in Callers :
       remaining[c] = IF InPool(c) THEN Cardinality(Outstanding(c))
                      ELSE IF pc[c] \in {"enqueue", "space"} THEN ChunkCount(c)
                      ELSE 0

(* How far a worker is through its chunk.                                  *)
IndexAt(w) ==
  LET first == First(task[w].owner, task[w].chunk)
      last  == Last(task[w].owner, task[w].chunk)
  IN /\ wpc[w] = "run" => index[w] \in first..(last + 1)
     /\ wpc[w] \in {"nested", "inline"} => index[w] \in first..last
     /\ wpc[w] \in {"receipt", "down", "complete"} => index[w] = last + 1

IndexInv == \A w \in Workers : IndexAt(w)

Passed(w, i) ==
  /\ wpc[w] # "popped"
  /\ i < index[w] \/ (i = index[w] /\ wpc[w] \in {"nested", "inline"})

(* The pool rejected the call as a whole.                                  *)
Rejected(c) ==
  stopping /\ Outstanding(c) = {} /\ \A i \in 1..Count[c] : runs[c][i] = 0

(* How often each index of an accepted call has run.                       *)
Accepted(c) ==
  \A k \in 1..ChunkCount(c) : \A i \in First(c, k)..Last(c, k) :
    /\ Task(c, k) \in Queued => runs[c][i] = 0
    /\ \A w \in Holders :
         task[w] = Task(c, k) => runs[c][i] = IF Passed(w, i) THEN 1 ELSE 0
    /\ Task(c, k) \notin Live => runs[c][i] = 1

RunsAt(c) ==
  /\ InPool(c) => Rejected(c) \/ Accepted(c)
  /\ pc[c] \in {"enqueue", "space"} => \A i \in 1..Count[c] : runs[c][i] = 0
  /\ ~InCall(c) => \A i \in 1..Count[c] : runs[c][i] <= 1

RunsInv == \A c \in Callers : RunsAt(c)

(* What a call reports.                                                    *)
Thrown(c) == \E w \in Workers : threw[w] /\ task[w].owner = c

ReportWorker(w) ==
  /\ threw[w] => /\ wpc[w] \in {"run", "nested", "inline"}
                 /\ task[w].owner \in raised \/ dropped > 0
  /\ wpc[w] \in {"down", "complete"} /\ lost[w] => dropped > 0

Truthful(c) ==
  /\ outcome[c] = "ok" => c \notin raised
  /\ outcome[c] = "raised" => c \in raised \/ stopping \/ dropped > 0

ReportCaller(c) ==
  /\ InCall(c) => outcome[c] = "none"
  /\ pc[c] \in {"enqueue", "space"} => ~failed[c] /\ c \notin raised
  /\ InPool(c) /\ failed[c] => c \in raised \/ stopping \/ dropped > 0
  /\ InPool(c) /\ c \in raised => failed[c] \/ Thrown(c)
  /\ Truthful(c)

ReportInv ==
  /\ receiptError => dropped > 0
  /\ \A w \in Workers : ReportWorker(w)
  /\ \A c \in Callers : ReportCaller(c)

At(stages) == {w \in Workers : wpc[w] \in stages}

CountInv ==
  /\ active = Cardinality(At(Active))
  /\ completed = consumed + receipts + dropped
                   + Cardinality(At({"inline", "receipt"}))

StopInv ==
  /\ destructor # "live" => stopping
  /\ \A w \in Workers : wpc[w] = "exited" => tasks = <<>> /\ stopping
  /\ destructor = "joined" => \A w \in Workers : wpc[w] = "exited"

Alone(c) == \A d \in Callers \ {c} : pc[d] = "done" /\ outcome[d] = "none"

LoneInv ==
  \A c \in Callers : Alone(c) =>
    /\ outcome[c] # "busy"
    /\ outcome[c] = "consumed" => /\ pc[c] \in {"start", "done"}
                                  /\ consumed + dropped = completed

-----------------------------------------------------------------------------
(* Chunks *)

LEMMA ChunkCountType ==
  ASSUME NEW c \in Callers
  PROVE  /\ ChunkCount(c) \in Nat \ {0} /\ ChunkCount(c) <= Count[c]
         /\ Count[c] \in Nat \ {0}
<1> DEFINE n == Cardinality(Workers)
<1>1. n \in Nat \ {0} /\ Count[c] \in Nat \ {0}
  BY PoolAssumption, FS_CardinalityType, FS_EmptySet
<1> HIDE DEF n
<1>2. {Count[c], n} \in SUBSET Nat /\ {Count[c], n} # {}
  BY <1>1
<1>3. /\ Min({Count[c], n}) \in {Count[c], n}
      /\ \A y \in {Count[c], n} : Min({Count[c], n}) <= y
  BY <1>2, LeastElement
<1>4. ChunkCount(c) = Min({Count[c], n})
  BY DEF ChunkCount, n
<1> QED BY <1>1, <1>3, <1>4

(* The chunks of a call are consecutive non-empty ranges of its indices.   *)
LEMMA ChunkBounds ==
  ASSUME NEW c \in Callers
  PROVE  /\ First(c, 1) = 1 /\ First(c, ChunkCount(c) + 1) = Count[c] + 1
         /\ \A k \in 1..(ChunkCount(c) + 1) : First(c, k) \in Nat
         /\ \A k, l \in 1..(ChunkCount(c) + 1) : k < l => First(c, k) < First(c, l)
<1> DEFINE n == Count[c]  m == ChunkCount(c)
           F == [k \in 1..(m + 1) |-> First(c, k)]
<1>1. n \in Nat \ {0} /\ m \in Nat \ {0} /\ m <= n
  BY ChunkCountType
<1>2. \A k : First(c, k) = (k - 1) * (n \div m) + Min({k - 1, n % m}) + 1
  BY DEF First
<1> HIDE DEF n, m
<1>3. \A k \in 1..(m + 1) : F[k] = First(c, k)
  OBVIOUS
<1>4. 1 \in 1..(m + 1) /\ m + 1 \in 1..(m + 1)
  BY <1>1
<1> HIDE DEF F
<1>5. \A k \in 1..(m + 1) :
        F[k] = (k - 1) * (n \div m) + Min({k - 1, n % m}) + 1
  BY <1>2, <1>3, Zenon
<1>6. /\ F[1] = 1 /\ F[m + 1] = n + 1
      /\ \A k \in 1..(m + 1) : F[k] \in Nat
      /\ \A k, l \in 1..(m + 1) : k < l => F[k] < F[l]
  BY <1>1, <1>5, Cut, Zenon
<1> QED BY <1>3, <1>4, <1>6, Zenon DEF n, m

(* Each index of a call is in exactly one of its chunks.                   *)
LEMMA ChunkPartition ==
  ASSUME NEW c \in Callers
  PROVE  /\ \A k \in 1..ChunkCount(c) :
              /\ First(c, k) \in 1..Count[c] /\ Last(c, k) \in 1..Count[c]
              /\ First(c, k) <= Last(c, k)
         /\ \A k, l \in 1..ChunkCount(c) : \A i \in First(c, k)..Last(c, k) :
              i \in First(c, l)..Last(c, l) => k = l
         /\ \A i \in 1..Count[c] : \E k \in 1..ChunkCount(c) :
              i \in First(c, k)..Last(c, k)
<1> DEFINE n == Count[c]  m == ChunkCount(c)
<1>1. n \in Nat \ {0} /\ m \in Nat \ {0}
  BY ChunkCountType
<1>2. /\ First(c, 1) = 1 /\ First(c, m + 1) = n + 1
      /\ \A k \in 1..(m + 1) : First(c, k) \in Nat
      /\ \A k, l \in 1..(m + 1) : k < l => First(c, k) < First(c, l)
  BY ChunkBounds
<1> HIDE DEF n, m
<1>3. \A k \in 1..m : /\ Last(c, k) = First(c, k + 1) - 1
                      /\ k \in 1..(m + 1) /\ k + 1 \in 1..(m + 1)
  BY <1>1 DEF Last
<1>4. ASSUME NEW k \in 1..m
      PROVE  /\ First(c, k) \in 1..n /\ Last(c, k) \in 1..n
             /\ First(c, k) <= Last(c, k)
  <2>1. First(c, k) >= 1
    <3>1. CASE k = 1
      BY <3>1, <1>2
    <3>2. CASE k # 1
      <4>1. 1 < k /\ 1 \in 1..(m + 1)
        BY <3>2, <1>1
      <4> QED BY <4>1, <1>2, <1>3
    <3> QED BY <3>1, <3>2
  <2>2. First(c, k + 1) <= n + 1
    <3>1. CASE k = m
      BY <3>1, <1>1, <1>2
    <3>2. CASE k # m
      <4>1. k + 1 < m + 1 /\ m + 1 \in 1..(m + 1)
        BY <3>2, <1>1
      <4> QED BY <4>1, <1>1, <1>2, <1>3
    <3> QED BY <3>1, <3>2
  <2>3. First(c, k) < First(c, k + 1)
    BY <1>2, <1>3
  <2> QED BY <2>1, <2>2, <2>3, <1>1, <1>2, <1>3
<1>5. ASSUME NEW k \in 1..m, NEW l \in 1..m, NEW i \in First(c, k)..Last(c, k),
             i \in First(c, l)..Last(c, l), k < l
      PROVE  FALSE
  <2>1. First(c, k + 1) <= First(c, l)
    <3>1. k + 1 = l \/ k + 1 < l
      BY <1>5
    <3> QED BY <3>1, <1>2, <1>3
  <2>2. First(c, l) \in Nat /\ First(c, k) \in Nat /\ First(c, k + 1) \in Nat
    BY <1>2, <1>3
  <2> QED BY <1>3, <1>5, <2>1, <2>2
<1>6. ASSUME NEW k \in 1..m, NEW l \in 1..m, NEW i \in First(c, k)..Last(c, k),
             i \in First(c, l)..Last(c, l)
      PROVE  k = l
  <2>1. k < l \/ l < k \/ k = l
    OBVIOUS
  <2>2. ~(k < l)
    BY <1>5, <1>6
  <2>3. ~(l < k)
    BY <1>5, <1>6
  <2> QED BY <2>1, <2>2, <2>3
<1>7. ASSUME NEW i \in 1..n
      PROVE  \E k \in 1..m : i \in First(c, k)..Last(c, k)
  <2> DEFINE S == {k \in 1..m : First(c, k) <= i}
  <2>1. 1 \in S /\ S \in SUBSET Nat /\ \A x \in S : x <= m
    BY <1>1, <1>2
  <2> DEFINE g == Max(S)
  <2>2. g \in S /\ \A y \in S : y <= g
    BY <1>1, <2>1, GreatestElement
  <2> HIDE DEF g
  <2>3. i < First(c, g + 1)
    <3>1. CASE g = m
      BY <3>1, <1>1, <1>2
    <3>2. CASE g # m
      <4>1. g + 1 \in 1..m
        BY <1>1, <2>2, <3>2
      <4>2. g + 1 \notin S
        BY <2>2, <4>1
      <4> QED BY <4>1, <4>2, <1>2, <1>3
    <3> QED BY <3>1, <3>2
  <2>4. g \in 1..m /\ First(c, g) <= i
    BY <2>2
  <2> HIDE DEF S
  <2> QED BY <1>2, <1>3, <2>3, <2>4
<1> QED BY <1>4, <1>6, <1>7 DEF m, n

LEMMA TaskSetIs ==
  /\ \A t : t \in TaskSet <=> \E c \in Callers : t \in ChunkSet(c)
  /\ \A t \in TaskSet : /\ t.owner \in Callers
                        /\ t.chunk \in 1..ChunkCount(t.owner)
                        /\ t = Task(t.owner, t.chunk)
<1>1. \A c \in Callers : Range(Chunks(c)) = ChunkSet(c)
  BY DEF Range, Chunks, ChunkSet, Task
<1>2. \A t : t \in TaskSet <=> \E c \in Callers : t \in ChunkSet(c)
  BY <1>1, Zenon DEF TaskSet
<1>3. \A c \in Callers : \A t \in ChunkSet(c) :
        t.owner = c /\ t.chunk \in 1..ChunkCount(c) /\ t = Task(c, t.chunk)
  BY DEF ChunkSet, Task
<1> QED BY <1>2, <1>3

(* Enqueueing appends the chunks of a call to the queue.                   *)
LEMMA Enqueued ==
  ASSUME tasks \in Seq(TaskSet), NEW c \in Callers, tasks' = tasks \o Chunks(c)
  PROVE  /\ tasks' \in Seq(TaskSet) /\ Len(tasks') = Len(tasks) + ChunkCount(c)
         /\ \A j \in 1..Len(tasks') :
              tasks'[j] = IF j <= Len(tasks) THEN tasks[j]
                          ELSE Task(c, j - Len(tasks))
         /\ Queued' = Queued \cup ChunkSet(c)
<1> DEFINE s == Chunks(c)  n == ChunkCount(c)
<1>1. n \in Nat
  BY ChunkCountType
<1>2. s = [k \in 1..n |-> Task(c, k)]
  BY DEF Chunks, Task
<1>3. \A k \in 1..n : Task(c, k) \in TaskSet
  BY TaskSetIs DEF ChunkSet
<1>4. ChunkSet(c) = {Task(c, k) : k \in 1..n}
  BY DEF ChunkSet
<1> HIDE DEF n, s
<1>5. s \in Seq(TaskSet) /\ Len(s) = n /\ \A k \in 1..n : s[k] = Task(c, k)
  BY <1>1, <1>2, <1>3
<1> DEFINE m == Len(tasks)
<1>6. m \in Nat
  BY LenProperties
<1>7. tasks' \in Seq(TaskSet) /\ Len(tasks') = m + n
  BY <1>5, ConcatProperties DEF s
<1>8. \A j \in 1..Len(tasks') : tasks'[j] = IF j <= m THEN tasks[j]
                                            ELSE Task(c, j - m)
  <2> TAKE j \in 1..Len(tasks')
  <2>1. tasks'[j] = IF j <= Len(tasks) THEN tasks[j] ELSE s[j - Len(tasks)]
    BY <1>5, <1>7, ConcatProperties DEF s
  <2>2. ~(j <= m) => j - m \in 1..n
    BY <1>1, <1>6, <1>7
  <2> QED BY <1>5, <2>1, <2>2
<1> HIDE DEF m
<1>9. Queued' = Queued \cup ChunkSet(c)
  <2>1. Queued' = {tasks'[j] : j \in 1..(m + n)} /\ Queued = {tasks[j] : j \in 1..m}
    BY <1>7 DEF Queued, m
  <2>2. ASSUME NEW j \in 1..(m + n)
        PROVE  tasks'[j] \in Queued \cup ChunkSet(c)
    <3>1. CASE j <= m
      <4>1. j \in 1..m /\ tasks'[j] = tasks[j]
        BY <3>1, <1>6, <1>7, <1>8
      <4> QED BY <4>1, <2>1
    <3>2. CASE ~(j <= m)
      <4>1. j - m \in 1..n /\ tasks'[j] = Task(c, j - m)
        BY <3>2, <1>1, <1>6, <1>7, <1>8
      <4> QED BY <4>1, <1>4
    <3> QED BY <3>1, <3>2
  <2>3. ASSUME NEW j \in 1..m PROVE tasks[j] \in Queued'
    <3>1. j \in 1..(m + n) /\ tasks'[j] = tasks[j]
      BY <1>1, <1>6, <1>7, <1>8
    <3> QED BY <3>1, <2>1
  <2>4. ASSUME NEW k \in 1..n PROVE Task(c, k) \in Queued'
    <3>1. m + k \in 1..(m + n) /\ (m + k) - m = k /\ ~(m + k <= m)
      BY <1>1, <1>6
    <3>2. tasks'[m + k] = Task(c, k)
      BY <3>1, <1>7, <1>8
    <3> QED BY <3>1, <3>2, <2>1
  <2> QED BY <2>1, <2>2, <2>3, <2>4, <1>4
<1> QED BY <1>7, <1>8, <1>9 DEF m, n

(* A worker takes the oldest chunk, which then is queued nowhere else.     *)
LEMMA Popped ==
  ASSUME tasks \in Seq(TaskSet), tasks # <<>>, tasks' = Tail(tasks),
         \A i, j \in 1..Len(tasks) : tasks[i] = tasks[j] => i = j
  PROVE  /\ tasks' \in Seq(TaskSet) /\ Len(tasks') = Len(tasks) - 1
         /\ Len(tasks) \in Nat
         /\ Head(tasks) \in Queued /\ Head(tasks) \in TaskSet
         /\ Queued' = Queued \ {Head(tasks)}
         /\ \A i, j \in 1..Len(tasks') : tasks'[i] = tasks'[j] => i = j
<1> DEFINE m == Len(tasks)
<1>1. /\ m \in Nat \ {0} /\ tasks' \in Seq(TaskSet) /\ Len(tasks') = m - 1
      /\ \A j \in 1..(m - 1) : tasks'[j] = tasks[j + 1]
      /\ Head(tasks) = tasks[1]
  BY EmptySeq, LenProperties, HeadTailProperties
<1>2. \A j \in 1..m : tasks[j] \in TaskSet
  BY ElementOfSeq
<1>3. Queued = {tasks[j] : j \in 1..m} /\ Queued' = {tasks'[j] : j \in 1..(m - 1)}
  BY <1>1 DEF Queued
<1> HIDE DEF m
<1>4. \A i, j \in 1..m : tasks[i] = tasks[j] => i = j
  BY DEF m
<1>5. 1 \in 1..m /\ Head(tasks) \in Queued /\ Head(tasks) \in TaskSet
  BY <1>1, <1>2, <1>3
<1>6. Queued' = Queued \ {Head(tasks)}
  <2>1. ASSUME NEW j \in 1..(m - 1) PROVE tasks'[j] \in Queued \ {Head(tasks)}
    <3>1. j + 1 \in 1..m /\ j + 1 # 1
      BY <1>1
    <3> QED BY <3>1, <1>1, <1>3, <1>4, <1>5
  <2>2. ASSUME NEW j \in 1..m, tasks[j] # Head(tasks) PROVE tasks[j] \in Queued'
    <3>1. j - 1 \in 1..(m - 1) /\ (j - 1) + 1 = j
      BY <2>2, <1>1
    <3>2. tasks'[j - 1] = tasks[j]
      BY <3>1, <1>1
    <3> QED BY <3>1, <3>2, <1>3
  <2> DEFINE h == Head(tasks)
  <2>3. \A j \in 1..(m - 1) : tasks'[j] \in Queued /\ tasks'[j] # h
    BY <2>1
  <2>4. \A j \in 1..m : tasks[j] # h => tasks[j] \in Queued'
    BY <2>2
  <2> HIDE DEF h
  <2>5. ASSUME NEW x \in Queued' PROVE x \in Queued \ {h}
    <3>1. PICK j \in 1..(m - 1) : x = tasks'[j]
      BY <1>3
    <3> QED BY <2>3, <3>1
  <2>6. ASSUME NEW x \in Queued \ {h} PROVE x \in Queued'
    <3>1. PICK j \in 1..m : x = tasks[j]
      BY <1>3
    <3> QED BY <2>4, <3>1
  <2> QED BY <2>5, <2>6 DEF h
<1>7. ASSUME NEW i \in 1..(m - 1), NEW j \in 1..(m - 1), tasks'[i] = tasks'[j]
      PROVE  i = j
  <2>1. i + 1 \in 1..m /\ j + 1 \in 1..m /\ tasks[i + 1] = tasks[j + 1]
    BY <1>1, <1>7
  <2> QED BY <2>1, <1>4
<1> QED BY <1>1, <1>5, <1>6, <1>7 DEF m

(* The chunk a worker holds is a range of indices of its owner's call.     *)
LEMMA HeldChunk ==
  ASSUME PoolType, NEW w \in Holders
  PROVE  LET c == task[w].owner  k == task[w].chunk IN
         /\ w \in Workers /\ c \in Callers /\ k \in 1..ChunkCount(c)
         /\ task[w] = Task(c, k)
         /\ First(c, k) \in 1..Count[c] /\ Last(c, k) \in 1..Count[c]
         /\ First(c, k) <= Last(c, k) /\ Count[c] \in Nat
<1> DEFINE c == task[w].owner  k == task[w].chunk
<1>1. w \in Workers /\ task[w] \in TaskSet
  BY DEF PoolType, WorkerVarsType, Holders
<1>2. c \in Callers /\ k \in 1..ChunkCount(c) /\ task[w] = Task(c, k)
  BY <1>1, TaskSetIs
<1> HIDE DEF c, k
<1>3. /\ First(c, k) \in 1..Count[c] /\ Last(c, k) \in 1..Count[c]
      /\ First(c, k) <= Last(c, k) /\ Count[c] \in Nat
  BY <1>2, ChunkPartition, ChunkCountType
<1> QED BY <1>1, <1>2, <1>3 DEF c, k

(* What a worker does next once its chunk has run.                         *)
LEMMA EpilogueOrder ==
  ASSUME NEW w \in Workers
  PROVE  /\ wpc[w] = "receipt" => NextOf(w) = "down"
         /\ wpc[w] = "down" => NextOf(w) = "complete"
         /\ wpc[w] = "complete" => NextOf(w) = "idle"
         /\ Epilogue[1] = "receipt"
<1>1. /\ Epilogue[1] = "receipt" /\ Epilogue[2] = "down"
      /\ Epilogue[3] = "complete" /\ Epilogue[4] = "idle"
  BY DEF Epilogue
<1> DEFINE P(i) == Epilogue[i] = wpc[w]
<1>2. ASSUME NEW j \in 1..3, P(j), \A i \in 1..3 : P(i) => i = j
      PROVE  NextOf(w) = Epilogue[1 + j]
  <2>1. (CHOOSE i \in 1..3 : P(i)) = j
    BY <1>2, Zenon
  <2> QED BY <2>1 DEF NextOf
<1>3. \A i \in 1..3 : i = 1 \/ i = 2 \/ i = 3
  OBVIOUS
<1>4. wpc[w] = "receipt" => P(1) /\ \A i \in 1..3 : P(i) => i = 1
  BY <1>1, <1>3
<1>5. wpc[w] = "down" => P(2) /\ \A i \in 1..3 : P(i) => i = 2
  BY <1>1, <1>3
<1>6. wpc[w] = "complete" => P(3) /\ \A i \in 1..3 : P(i) => i = 3
  BY <1>1, <1>3
<1> HIDE DEF P
<1> QED BY <1>1, <1>2, <1>4, <1>5, <1>6

-----------------------------------------------------------------------------
(* Types *)

LEMMA TypeInit == Init => PoolType
<1> SUFFICES ASSUME Init PROVE PoolType
  OBVIOUS
<1>1. QueueType
  BY PoolAssumption, EmptySeq DEF Init, QueueType
<1>2. CounterType
  <2>1. /\ receipts = 0 /\ active = 0 /\ completed = 0 /\ dropped = 0
        /\ consumed = 0
    BY DEF Init
  <2>2. MaxReceipts \in Nat
    BY PoolAssumption
  <2> QED BY <2>1, <2>2 DEF CounterType
<1>3. FlagType
  BY DEF Init, FlagType
<1>4. CallerVarsType
  <2>1. pc \in [Callers -> CallerStates] /\ call \in [Callers -> 0..Calls]
    BY PoolAssumption DEF Init, CallerStates
  <2>2. /\ remaining \in [Callers -> Int] /\ failed \in [Callers -> BOOLEAN]
        /\ outcome \in [Callers -> Outcomes]
    BY DEF Init, Outcomes
  <2> QED BY <2>1, <2>2 DEF CallerVarsType
<1>5. WorkerVarsType
  BY DEF Init, WorkerVarsType, WorkerStates, Holders, Holding, Active
<1>6. RunsType
  <2>1. \A c \in Callers : runs[c] \in [1..Count[c] -> Nat]
    BY DEF Init
  <2>2. runs \in [Callers -> RunTable]
    BY <2>1 DEF Init, RunTable
  <2> QED BY <2>1, <2>2 DEF Init, RunsType
<1> QED BY <1>1, <1>2, <1>3, <1>4, <1>5, <1>6 DEF PoolType

(* Ending a call changes what its caller sees and does, and nothing else.  *)
LEMMA EndType ==
  ASSUME CallerVarsType, NEW c \in Callers,
         NEW result \in Outcomes, NEW next \in {"start", "consume", "idle"},
         End(c, result, next)
  PROVE  pc' \in [Callers -> CallerStates] /\ outcome' \in [Callers -> Outcomes]
BY DEF CallerVarsType, End, CallerStates

(* The steps of the callers and of the destructor.                         *)
LEMMA CallerType ==
  ASSUME PoolType, (\E c \in Callers : CallerStep(c)) \/ Stop \/ NotifyStop \/ Join
  PROVE  PoolType'
<1>p. /\ QueueType /\ CounterType /\ FlagType
      /\ CallerVarsType /\ WorkerVarsType /\ RunsType
  BY DEF PoolType
<1>q. UNCHANGED tasks => QueueType'
  BY <1>p DEF QueueType
<1>c. UNCHANGED <<receipts, active, completed, dropped, consumed>> => CounterType'
  BY <1>p DEF CounterType
<1>f. UNCHANGED <<stopping, receiptError, destructor>> => FlagType'
  BY <1>p DEF FlagType
<1>w. UNCHANGED workerVars => WorkerVarsType'
  BY <1>p DEF WorkerVarsType, workerVars, Holders
<1>r. UNCHANGED <<runs, raised>> => RunsType'
  BY <1>p DEF RunsType
<1>e. ASSUME NEW c \in Callers, NEW v \in CallerStates,
             pc' = [pc EXCEPT ![c] = v],
             UNCHANGED <<call, remaining, failed, outcome>>
      PROVE  CallerVarsType'
  BY <1>p, <1>e DEF CallerVarsType
<1>d. ASSUME NEW c \in Callers, NEW result \in Outcomes,
             NEW next \in {"start", "consume", "idle"}, End(c, result, next),
             UNCHANGED <<call, remaining, failed>>
      PROVE  CallerVarsType'
  <2>1. pc' \in [Callers -> CallerStates] /\ outcome' \in [Callers -> Outcomes]
    BY <1>p, <1>d, EndType
  <2> QED BY <1>p, <1>d, <2>1 DEF CallerVarsType
<1> USE DEF poolVars, ghostVars
<1>1. ASSUME NEW c \in Callers, Call(c) PROVE PoolType'
  <2>1. /\ call' = [call EXCEPT ![c] = @ + 1] /\ call[c] < Calls
        /\ runs' = [runs EXCEPT ![c] = [i \in 1..Count[c] |-> 0]]
        /\ raised' = raised \ {c} /\ failed' = [failed EXCEPT ![c] = FALSE]
        /\ \E v \in CallerStates : pc' = [pc EXCEPT ![c] = v]
        /\ \/ UNCHANGED remaining
           \/ remaining' = [remaining EXCEPT ![c] = ChunkCount(c)]
        /\ \E v \in Outcomes : outcome' = [outcome EXCEPT ![c] = v]
        /\ UNCHANGED <<poolVars, workerVars, destructor, consumed>>
    BY <1>1 DEF Call, CallerStates, Outcomes
  <2>2. CallerVarsType'
    <3>1. /\ pc' \in [Callers -> CallerStates] /\ outcome' \in [Callers -> Outcomes]
          /\ failed' \in [Callers -> BOOLEAN]
      BY <1>p, <2>1 DEF CallerVarsType
    <3>2. remaining' \in [Callers -> Int]
      BY <1>p, <2>1, ChunkCountType DEF CallerVarsType
    <3>3. call' \in [Callers -> 0..Calls]
      BY <1>p, <2>1, PoolAssumption DEF CallerVarsType
    <3> QED BY <3>1, <3>2, <3>3 DEF CallerVarsType
  <2>3. RunsType'
    <3> DEFINE z == [i \in 1..Count[c] |-> 0]
    <3>1. runs' = [runs EXCEPT ![c] = z]
      BY <2>1
    <3>2. z \in [1..Count[c] -> Nat]
      OBVIOUS
    <3>3. z \in RunTable
      BY <3>2 DEF RunTable
    <3> HIDE DEF z
    <3> QED BY <1>p, <2>1, <3>1, <3>2, <3>3 DEF RunsType
  <2> QED BY <1>q, <1>c, <1>f, <1>w, <2>1, <2>2, <2>3 DEF PoolType
<1>2. ASSUME NEW c \in Callers, AwaitSpace(c) PROVE PoolType'
  <2>1. CallerVarsType'
    BY <1>2, <1>e DEF AwaitSpace, CallerStates
  <2> QED BY <1>2, <1>q, <1>c, <1>f, <1>w, <1>r, <2>1 DEF AwaitSpace, PoolType
<1>3. ASSUME NEW c \in Callers, Enqueue(c) PROVE PoolType'
  <2>1. tasks' = tasks \o Chunks(c) /\ Len(tasks) + ChunkCount(c) <= MaxPending
    BY <1>3 DEF Enqueue, Fits
  <2>2. QueueType'
    BY <1>p, <2>1, Enqueued DEF QueueType
  <2>3. CallerVarsType'
    BY <1>3, <1>e DEF Enqueue, CallerStates
  <2> QED BY <1>3, <1>c, <1>f, <1>w, <1>r, <2>2, <2>3 DEF Enqueue, PoolType
<1>4. ASSUME NEW c \in Callers, Reject(c) PROVE PoolType'
  <2>1. CallerVarsType'
    BY <1>4, <1>p DEF Reject, CallerVarsType, CallerStates
  <2> QED BY <1>4, <1>q, <1>c, <1>f, <1>w, <1>r, <2>1 DEF Reject, PoolType
<1>5. ASSUME NEW c \in Callers, NotifyReady(c) PROVE PoolType'
  <2>1. CallerVarsType'
    BY <1>5, <1>e DEF NotifyReady, CallerStates
  <2>2. WorkerVarsType'
    BY <1>5, <1>p DEF NotifyReady, WorkerVarsType, WorkerStates, Holders,
                      Holding, Active
  <2> QED BY <1>5, <1>q, <1>c, <1>f, <1>r, <2>1, <2>2 DEF NotifyReady, PoolType
<1>6. ASSUME NEW c \in Callers, Return(c) PROVE PoolType'
  <2>1. \E result \in Outcomes, next \in {"start", "consume", "idle"} :
          End(c, result, next)
    BY <1>6, PoolAssumption DEF Return, Outcomes
  <2>2. CallerVarsType'
    BY <1>6, <2>1, <1>d DEF Return
  <2> QED BY <1>6, <1>q, <1>c, <1>f, <1>w, <1>r, <2>2 DEF Return, PoolType
<1>7. ASSUME NEW c \in Callers, FoundIdle(c) PROVE PoolType'
  <2>1. CallerVarsType'
    BY <1>7, <1>d, <1>e DEF FoundIdle, CallerStates, Outcomes
  <2> QED BY <1>7, <1>q, <1>c, <1>f, <1>w, <1>r, <2>1 DEF FoundIdle, PoolType
<1>8. ASSUME NEW c \in Callers, FoundBusy(c) PROVE PoolType'
  <2>1. CallerVarsType'
    BY <1>8, <1>e DEF FoundBusy, CallerStates
  <2> QED BY <1>8, <1>q, <1>c, <1>f, <1>w, <1>r, <2>1 DEF FoundBusy, PoolType
<1>9. ASSUME NEW c \in Callers, Block(c) PROVE PoolType'
  <2>1. CallerVarsType'
    BY <1>9, <1>e DEF Block, CallerStates
  <2> QED BY <1>9, <1>q, <1>c, <1>f, <1>w, <1>r, <2>1 DEF Block, PoolType
<1>10. ASSUME NEW c \in Callers, Consume(c) PROVE PoolType'
  <2>1. CallerVarsType'
    BY <1>10, <1>d DEF Consume, Outcomes
  <2>2. CounterType'
    <3>1. /\ consumed' = consumed + receipts /\ receipts' = 0
          /\ UNCHANGED <<active, completed, dropped>>
      BY <1>10 DEF Consume
    <3> QED BY <1>p, <3>1, PoolAssumption DEF CounterType
  <2> QED BY <1>10, <1>q, <1>f, <1>w, <1>r, <2>1, <2>2 DEF Consume, PoolType
<1>11. ASSUME NEW c \in Callers, ConsumeRefused(c) PROVE PoolType'
  <2>1. CallerVarsType'
    BY <1>11, <1>d DEF ConsumeRefused, Outcomes
  <2> QED BY <1>11, <1>q, <1>c, <1>f, <1>w, <1>r, <2>1 DEF ConsumeRefused, PoolType
<1>v. UNCHANGED callerVars => CallerVarsType'
  BY <1>p DEF CallerVarsType, callerVars
<1>12. CASE Stop
  <2>1. FlagType'
    BY <1>12, <1>p DEF Stop, FlagType
  <2> QED BY <1>12, <1>q, <1>c, <1>v, <1>w, <1>r, <2>1 DEF Stop, PoolType
<1>13. CASE NotifyStop
  <2>1. FlagType'
    BY <1>13, <1>p DEF NotifyStop, FlagType
  <2>2. CallerVarsType'
    BY <1>13, <1>p DEF NotifyStop, CallerVarsType, CallerStates
  <2>3. WorkerVarsType'
    BY <1>13, <1>p DEF NotifyStop, WorkerVarsType, WorkerStates, Holders,
                       Holding, Active
  <2> QED BY <1>13, <1>q, <1>c, <1>r, <2>1, <2>2, <2>3 DEF NotifyStop, PoolType
<1>14. CASE Join
  <2>1. FlagType'
    BY <1>14, <1>p DEF Join, FlagType
  <2> QED BY <1>14, <1>q, <1>c, <1>v, <1>w, <1>r, <2>1 DEF Join, PoolType
<1> QED
  BY <1>1, <1>2, <1>3, <1>4, <1>5, <1>6, <1>7, <1>8, <1>9, <1>10, <1>11,
     <1>12, <1>13, <1>14 DEF CallerStep

(* The steps of the workers.                                               *)
LEMMA WorkerType ==
  ASSUME PoolType, NEW w \in Workers, WorkerStep(w)
  PROVE  PoolType'
<1>p. /\ QueueType /\ CounterType /\ FlagType
      /\ CallerVarsType /\ WorkerVarsType /\ RunsType
  BY DEF PoolType
<1>q. UNCHANGED tasks => QueueType'
  BY <1>p DEF QueueType
<1>c. UNCHANGED <<receipts, active, completed, dropped, consumed>> => CounterType'
  BY <1>p DEF CounterType
<1>f. UNCHANGED <<stopping, receiptError, destructor>> => FlagType'
  BY <1>p DEF FlagType
<1>v. UNCHANGED callerVars => CallerVarsType'
  BY <1>p DEF CallerVarsType, callerVars
<1>r. UNCHANGED <<runs, raised>> => RunsType'
  BY <1>p DEF RunsType
<1>m. ASSUME NEW v \in WorkerStates, wpc' = [wpc EXCEPT ![w] = v],
             v \in Holding => wpc[w] \in Holding, UNCHANGED task,
             index' \in [Workers -> Nat], threw' \in [Workers -> BOOLEAN],
             lost' \in [Workers -> BOOLEAN]
      PROVE  WorkerVarsType'
  <2>1. Holders' \subseteq Holders /\ wpc' \in [Workers -> WorkerStates]
    BY <1>p, <1>m DEF WorkerVarsType, Holders
  <2> QED BY <1>p, <1>m, <2>1 DEF WorkerVarsType
<1>t. /\ index \in [Workers -> Nat] /\ threw \in [Workers -> BOOLEAN]
      /\ lost \in [Workers -> BOOLEAN] /\ wpc \in [Workers -> WorkerStates]
      /\ receiptError \in BOOLEAN /\ failed \in [Callers -> BOOLEAN]
      /\ remaining \in [Callers -> Int] /\ pc \in [Callers -> CallerStates]
  BY <1>p DEF WorkerVarsType, FlagType, CallerVarsType
<1>h. wpc[w] \in Holding => task[w].owner \in Callers
  BY HeldChunk DEF Holders
<1>s. ASSUME RecordReceipt
      PROVE  /\ receipts' \in 0..MaxReceipts /\ dropped' \in Nat
             /\ receiptError' \in BOOLEAN
  <2>1. /\ receipts \in 0..MaxReceipts /\ dropped \in Nat /\ MaxReceipts \in Nat
        /\ receiptError \in BOOLEAN
    BY <1>p, PoolAssumption DEF CounterType, FlagType
  <2>2. CASE receipts = MaxReceipts
    <3>1. dropped' = dropped + 1 /\ receiptError' = TRUE /\ UNCHANGED receipts
      BY <1>s, <2>2 DEF RecordReceipt
    <3> QED BY <2>1, <3>1
  <2>3. CASE receipts # MaxReceipts
    <3>1. receipts' = receipts + 1 /\ UNCHANGED <<dropped, receiptError>>
      BY <1>s, <2>3 DEF RecordReceipt
    <3>2. receipts' \in 0..MaxReceipts
      BY <2>1, <2>3, <3>1
    <3> QED BY <2>1, <3>1, <3>2
  <2> QED BY <2>2, <2>3
<1>i. [index EXCEPT ![w] = @ + 1] \in [Workers -> Nat]
  BY <1>t
<1> USE DEF poolVars, callerVars, ghostVars
<1>1. CASE Pop(w)
  <2>1. /\ tasks # <<>> /\ tasks' = Tail(tasks)
        /\ task' = [task EXCEPT ![w] = Head(tasks)]
        /\ wpc' = [wpc EXCEPT ![w] = "popped"]
        /\ UNCHANGED <<receipts, stopping, active, completed, dropped,
                       receiptError, call, remaining, failed, outcome, index,
                       threw, lost, destructor, ghostVars>>
    BY <1>1 DEF Pop
  <2>2. /\ tasks' \in Seq(TaskSet) /\ Len(tasks') = Len(tasks) - 1
        /\ Head(tasks) \in TaskSet /\ Len(tasks) \in Nat
    BY <1>p, <2>1, HeadTailProperties, LenProperties DEF QueueType
  <2>3. QueueType'
    BY <1>p, <2>2, PoolAssumption DEF QueueType
  <2>4. CallerVarsType'
    <3>1. (\E c \in Callers : pc' = [pc EXCEPT ![c] = "enqueue"]) \/ UNCHANGED pc
      BY <1>1 DEF Pop, NotifySpace
    <3> QED BY <1>p, <2>1, <3>1 DEF CallerVarsType, CallerStates
  <2>5. WorkerVarsType'
    <3> HIDE DEF NoTask
    <3> QED BY <1>p, <2>1, <2>2 DEF WorkerVarsType, WorkerStates, Holders
  <2> QED BY <1>c, <1>f, <1>r, <2>1, <2>3, <2>4, <2>5 DEF PoolType
<1>2. CASE Sleep(w)
  <2>1. WorkerVarsType'
    BY <1>2, <1>m, <1>t DEF Sleep, WorkerStates, Holding, Active
  <2> QED BY <1>2, <1>q, <1>c, <1>f, <1>v, <1>r, <2>1 DEF Sleep, PoolType
<1>3. CASE Exit(w)
  <2>1. WorkerVarsType'
    BY <1>3, <1>m, <1>t DEF Exit, WorkerStates, Holding, Active
  <2> QED BY <1>3, <1>q, <1>c, <1>f, <1>v, <1>r, <2>1 DEF Exit, PoolType
<1>4. CASE Activate(w)
  <2>1. First(task[w].owner, task[w].chunk) \in Nat
    <3>1. w \in Holders
      BY <1>4 DEF Activate, Holders, Holding
    <3>2. /\ First(task[w].owner, task[w].chunk) \in 1..Count[task[w].owner]
          /\ Count[task[w].owner] \in Nat
      BY <3>1, HeldChunk
    <3> QED BY <3>2
  <2>2. index' \in [Workers -> Nat]
    BY <1>4, <1>t, <2>1 DEF Activate
  <2>3. WorkerVarsType'
    BY <1>4, <1>m, <1>t, <2>2 DEF Activate, WorkerStates, Holding, Active
  <2>4. CounterType'
    BY <1>4, <1>p DEF Activate, CounterType
  <2> QED BY <1>4, <1>q, <1>f, <1>v, <1>r, <2>3, <2>4 DEF Activate, PoolType
<1>5. CASE RunIndex(w)
  <2>1. /\ wpc[w] = "run"
        /\ runs' = [runs EXCEPT ![task[w].owner][index[w]] = @ + 1]
        /\ UNCHANGED <<poolVars, callerVars, task, lost, destructor, consumed>>
    BY <1>5 DEF RunIndex
  <2>2. threw' \in {threw, [threw EXCEPT ![w] = TRUE]}
    BY <1>5 DEF RunIndex
  <2>3. index' \in {index, [index EXCEPT ![w] = @ + 1]}
    BY <1>5 DEF RunIndex
  <2>4. wpc' \in {wpc, [wpc EXCEPT ![w] = "nested"]}
    BY <1>5 DEF RunIndex
  <2>5. raised' \in {raised, raised \cup {task[w].owner}}
    BY <1>5 DEF RunIndex
  <2>6. task[w].owner \in Callers
    BY <1>h, <2>1 DEF Holding, Active
  <2>7. RunsType'
    <3> DEFINE o == task[w].owner  x == index[w]  f == runs[o]
               z == [f EXCEPT ![x] = @ + 1]
    <3>1. runs' = [runs EXCEPT ![o] = z] /\ o \in Callers
      BY <2>1, <2>6
    <3>2. f \in [1..Count[o] -> Nat]
      BY <1>p, <2>6 DEF RunsType
    <3>3. z \in [1..Count[o] -> Nat]
      <4> DEFINE D == 1..Count[o]
      <4>1. f \in [D -> Nat]
        BY <3>2
      <4> HIDE DEF o, x, f, D
      <4>2. x \in D => f[x] + 1 \in Nat
        BY <4>1
      <4>3. z \in [D -> Nat]
        BY <4>1, <4>2
      <4> QED BY <4>3 DEF D
    <3> HIDE DEF o, x, f
    <3>4. z \in RunTable
      BY <3>1, <3>3 DEF RunTable
    <3>5. raised' \in SUBSET Callers
      BY <1>p, <2>5, <2>6 DEF RunsType
    <3> HIDE DEF z
    <3> QED BY <1>p, <3>1, <3>3, <3>4, <3>5 DEF RunsType
  <2>8. WorkerVarsType'
    <3>1. threw' \in [Workers -> BOOLEAN]
      BY <1>t, <2>2
    <3>2. index' \in [Workers -> Nat]
      BY <1>t, <1>i, <2>3
    <3>3. \E v \in {"run", "nested"} : wpc' = [wpc EXCEPT ![w] = v]
      BY <1>t, <2>1, <2>4
    <3> QED BY <1>m, <1>t, <2>1, <3>1, <3>2, <3>3
            DEF WorkerStates, Holding, Active
  <2> QED BY <1>q, <1>c, <1>f, <1>v, <2>1, <2>7, <2>8 DEF PoolType
<1>6. CASE NestedInline(w)
  <2>1. task[w].owner \in Callers
    BY <1>h, <1>6 DEF NestedInline, Holding, Active
  <2>2. RunsType'
    BY <1>6, <1>p, <2>1 DEF NestedInline, RunsType
  <2>3. threw' \in [Workers -> BOOLEAN]
    BY <1>6, <1>t DEF NestedInline
  <2>4. WorkerVarsType'
    BY <1>6, <1>m, <1>t, <2>3 DEF NestedInline, WorkerStates, Holding, Active
  <2>5. CounterType'
    BY <1>6, <1>p DEF NestedInline, CounterType
  <2> QED BY <1>6, <1>q, <1>f, <1>v, <2>2, <2>4, <2>5 DEF NestedInline, PoolType
<1>7. CASE NestedRefused(w)
  <2>1. threw' \in [Workers -> BOOLEAN] /\ index' \in [Workers -> Nat]
    BY <1>7, <1>t, <1>i DEF NestedRefused
  <2>2. WorkerVarsType'
    BY <1>7, <1>m, <1>t, <2>1 DEF NestedRefused, WorkerStates, Holding, Active
  <2> QED BY <1>7, <1>q, <1>c, <1>f, <1>v, <1>r, <2>2 DEF NestedRefused, PoolType
<1>8. CASE InlineReceipt(w)
  <2>1. /\ RecordReceipt
        /\ UNCHANGED <<tasks, stopping, active, completed, callerVars, task,
                       lost, destructor, ghostVars>>
    BY <1>8 DEF InlineReceipt
  <2>2. threw' \in [Workers -> BOOLEAN] /\ index' \in [Workers -> Nat]
    <3>1. \E v \in BOOLEAN : threw' = [threw EXCEPT ![w] = v]
      BY <1>8, <1>t DEF InlineReceipt
    <3>2. index' = [index EXCEPT ![w] = @ + 1]
      BY <1>8 DEF InlineReceipt
    <3> QED BY <1>t, <1>i, <3>1, <3>2
  <2>3. WorkerVarsType'
    BY <1>8, <1>m, <1>t, <2>2 DEF InlineReceipt, WorkerStates, Holding, Active
  <2>4. CounterType' /\ FlagType'
    BY <1>p, <1>s, <2>1 DEF CounterType, FlagType
  <2> QED BY <1>q, <1>v, <1>r, <2>1, <2>3, <2>4 DEF PoolType
<1>9. CASE FinishRun(w)
  <2>1. /\ wpc[w] = "run" /\ wpc' = [wpc EXCEPT ![w] = "receipt"]
        /\ threw' = [threw EXCEPT ![w] = FALSE]
        /\ failed' = [failed EXCEPT ![task[w].owner] = @ \/ threw[w]]
        /\ completed' = completed + 1
        /\ UNCHANGED <<tasks, receipts, stopping, active, dropped, receiptError,
                       pc, call, remaining, outcome, task, index, lost,
                       destructor, ghostVars>>
    BY <1>9, EpilogueOrder DEF FinishRun
  <2>2. CallerVarsType'
    BY <1>p, <1>t, <2>1 DEF CallerVarsType
  <2>3. WorkerVarsType'
    BY <1>m, <1>t, <2>1 DEF WorkerStates, Holding, Active
  <2>4. CounterType'
    BY <1>p, <2>1 DEF CounterType
  <2> QED BY <1>q, <1>f, <1>r, <2>1, <2>2, <2>3, <2>4 DEF PoolType
<1>10. CASE Receipt(w)
  <2>1. /\ wpc[w] = "receipt" /\ wpc' = [wpc EXCEPT ![w] = "down"]
        /\ RecordReceipt
        /\ \E v \in BOOLEAN : lost' = [lost EXCEPT ![w] = v]
        /\ UNCHANGED <<tasks, stopping, active, completed, callerVars, task,
                       index, threw, destructor, ghostVars>>
    BY <1>10, EpilogueOrder DEF Receipt
  <2>2. WorkerVarsType'
    BY <1>m, <1>t, <2>1 DEF WorkerStates, Holding, Active
  <2>3. CounterType' /\ FlagType'
    BY <1>p, <1>s, <2>1 DEF CounterType, FlagType
  <2> QED BY <1>q, <1>v, <1>r, <2>1, <2>2, <2>3 DEF PoolType
<1>11. CASE StepDown(w)
  <2>1. /\ wpc[w] = "down" /\ wpc' = [wpc EXCEPT ![w] = "complete"]
        /\ active' = active - 1
        /\ pc' = [c \in Callers |-> IF pc[c] = "blocked" THEN "idle" ELSE pc[c]]
        /\ UNCHANGED <<tasks, receipts, stopping, completed, dropped,
                       receiptError, call, remaining, failed, outcome, task,
                       index, threw, lost, destructor, ghostVars>>
    BY <1>11, EpilogueOrder DEF StepDown
  <2>2. WorkerVarsType'
    BY <1>m, <1>t, <2>1 DEF WorkerStates, Holding, Active
  <2>3. CounterType'
    BY <1>p, <2>1 DEF CounterType
  <2>4. CallerVarsType'
    BY <1>p, <2>1 DEF CallerVarsType, CallerStates
  <2> QED BY <1>q, <1>f, <1>r, <2>1, <2>2, <2>3, <2>4 DEF PoolType
<1>12. CASE Complete(w)
  <2>1. /\ wpc[w] = "complete" /\ wpc' = [wpc EXCEPT ![w] = "idle"]
        /\ failed' = [failed EXCEPT ![task[w].owner] = @ \/ lost[w]]
        /\ remaining' = [remaining EXCEPT ![task[w].owner] = @ - 1]
        /\ UNCHANGED <<poolVars, pc, call, outcome, task, index, threw, lost,
                       destructor, ghostVars>>
    BY <1>12, EpilogueOrder DEF Complete
  <2>2. WorkerVarsType'
    BY <1>m, <1>t, <2>1 DEF WorkerStates, Holding, Active
  <2>3. CallerVarsType'
    <3> DEFINE o == task[w].owner
    <3>1. o \in Callers
      BY <1>h, <2>1 DEF Holding
    <3>2. remaining' = [remaining EXCEPT ![o] = @ - 1]
      BY <2>1
    <3>3. failed' = [failed EXCEPT ![o] = @ \/ lost[w]]
      BY <2>1
    <3> HIDE DEF o
    <3>4. remaining' \in [Callers -> Int]
      BY <1>t, <3>1, <3>2
    <3>5. failed' \in [Callers -> BOOLEAN]
      BY <1>t, <3>1, <3>3
    <3> QED BY <1>p, <2>1, <3>4, <3>5 DEF CallerVarsType
  <2> QED BY <1>q, <1>c, <1>f, <1>r, <2>1, <2>2, <2>3 DEF PoolType
<1> QED
  BY <1>1, <1>2, <1>3, <1>4, <1>5, <1>6, <1>7, <1>8, <1>9, <1>10, <1>11, <1>12
     DEF WorkerStep

LEMMA TypeStep ==
  ASSUME PoolType, [Next]_vars
  PROVE  PoolType'
<1>1. CASE UNCHANGED vars
  BY <1>1 DEF vars, poolVars, callerVars, workerVars, ghostVars, PoolType,
     QueueType, CounterType, FlagType, CallerVarsType, WorkerVarsType, RunsType,
     Holders
<1>2. AtRest => UNCHANGED vars
  BY DEF AtRest
<1> QED BY <1>1, <1>2, CallerType, WorkerType DEF Next

-----------------------------------------------------------------------------
(* Chunks move from the queue to a worker and out *)

Entering(c) == pc[c] \in {"enqueue", "space"}

(* No chunk moves and no call begins, is taken in or ends.                 *)
Still ==
  /\ UNCHANGED <<tasks, task, remaining>> /\ Holders' = Holders
  /\ \A c \in Callers : InPool(c)' = InPool(c) /\ Entering(c)' = Entering(c)

Moves(w, from, to) == wpc[w] = from /\ wpc' = [wpc EXCEPT ![w] = to]

LEMMA MovesHolding ==
  ASSUME PoolType, NEW w \in Workers, NEW a, NEW b, Moves(w, a, b),
         a \in Holding <=> b \in Holding
  PROVE  Holders' = Holders
<1>1. /\ wpc \in [Workers -> WorkerStates] /\ wpc[w] = a
      /\ wpc' = [wpc EXCEPT ![w] = b]
  BY DEF Moves, PoolType, WorkerVarsType
<1>2. \A v \in Workers : wpc'[v] \in Holding <=> wpc[v] \in Holding
  BY <1>1
<1> QED BY <1>2 DEF Holders

(* What each step of a worker does to its own place.                       *)
LEMMA WorkerMoves ==
  ASSUME PoolType, NEW w \in Workers
  PROVE  /\ Pop(w) => Moves(w, "idle", "popped")
         /\ Sleep(w) => Moves(w, "idle", "asleep")
         /\ Exit(w) => Moves(w, "idle", "exited")
         /\ Activate(w) => Moves(w, "popped", "run")
         /\ RunIndex(w) => Moves(w, "run", "run") \/ Moves(w, "run", "nested")
         /\ NestedInline(w) => Moves(w, "nested", "inline")
         /\ NestedRefused(w) => Moves(w, "nested", "run")
         /\ InlineReceipt(w) => Moves(w, "inline", "run")
         /\ FinishRun(w) => Moves(w, "run", "receipt")
         /\ Receipt(w) => Moves(w, "receipt", "down")
         /\ StepDown(w) => Moves(w, "down", "complete")
         /\ Complete(w) => Moves(w, "complete", "idle")
<1>1. wpc \in [Workers -> WorkerStates]
  BY DEF PoolType, WorkerVarsType
<1>2. RunIndex(w) => Moves(w, "run", "run") \/ Moves(w, "run", "nested")
  BY <1>1 DEF RunIndex, Moves
<1>3. /\ FinishRun(w) => Moves(w, "run", "receipt")
      /\ Receipt(w) => Moves(w, "receipt", "down")
      /\ StepDown(w) => Moves(w, "down", "complete")
      /\ Complete(w) => Moves(w, "complete", "idle")
  BY EpilogueOrder DEF FinishRun, Receipt, StepDown, Complete, Moves
<1>4. /\ Pop(w) => Moves(w, "idle", "popped")
      /\ Sleep(w) => Moves(w, "idle", "asleep")
      /\ Exit(w) => Moves(w, "idle", "exited")
      /\ Activate(w) => Moves(w, "popped", "run")
      /\ NestedInline(w) => Moves(w, "nested", "inline")
      /\ NestedRefused(w) => Moves(w, "nested", "run")
      /\ InlineReceipt(w) => Moves(w, "inline", "run")
  BY DEF Pop, Sleep, Exit, Activate, NestedInline, NestedRefused,
         InlineReceipt, Moves
<1> QED BY <1>2, <1>3, <1>4

(* Every other step leaves the chunks where they are.                      *)
LEMMA StillSteps ==
  ASSUME PoolType, [Next]_vars
  PROVE  \/ Still
         \/ \E c \in Callers : Call(c) \/ Enqueue(c) \/ Reject(c) \/ Return(c)
         \/ \E w \in Workers : Pop(w) \/ Complete(w)
<1>t. /\ pc \in [Callers -> CallerStates] /\ wpc \in [Workers -> WorkerStates]
  BY DEF PoolType, CallerVarsType, WorkerVarsType
<1>p. ASSUME UNCHANGED pc
      PROVE  \A c \in Callers : InPool(c)' = InPool(c) /\ Entering(c)' = Entering(c)
  BY <1>p DEF InPool, Entering
<1>w. ASSUME UNCHANGED wpc PROVE Holders' = Holders
  BY <1>w DEF Holders
<1>a. ASSUME wpc' = [w \in Workers |-> IF wpc[w] = "asleep" THEN "idle" ELSE wpc[w]]
      PROVE  Holders' = Holders
  <2>1. \A v \in Workers : wpc'[v] \in Holding <=> wpc[v] \in Holding
    BY <1>a DEF Holding, Active
  <2> QED BY <2>1 DEF Holders
<1>c. ASSUME NEW c \in Callers, NEW a, NEW b,
             pc[c] = a, pc' = [pc EXCEPT ![c] = b],
             a \in {"notify", "wait"} <=> b \in {"notify", "wait"},
             a \in {"enqueue", "space"} <=> b \in {"enqueue", "space"}
      PROVE  \A d \in Callers : InPool(d)' = InPool(d) /\ Entering(d)' = Entering(d)
  BY <1>c, <1>t DEF InPool, Entering
<1>e. ASSUME NEW c \in Callers, pc[c] \in {"idle", "consume"}, NEW result,
             End(c, result, "start")
      PROVE  \A d \in Callers : InPool(d)' = InPool(d) /\ Entering(d)' = Entering(d)
  <2>1. \E b \in {"start", "done"} : pc' = [pc EXCEPT ![c] = b]
    BY <1>e DEF End
  <2> QED BY <1>c, <1>e, <2>1
<1> USE DEF poolVars, callerVars, workerVars
<1>1. CASE UNCHANGED vars
  BY <1>1, <1>p, <1>w DEF vars, Still
<1>2. ASSUME NEW c \in Callers,
             \/ AwaitSpace(c) \/ NotifyReady(c) \/ FoundBusy(c) \/ Block(c)
             \/ FoundIdle(c) \/ Consume(c) \/ ConsumeRefused(c)
      PROVE  Still
  <2>1. CASE AwaitSpace(c)
    BY <2>1, <1>c, <1>w DEF AwaitSpace, Still
  <2>2. CASE NotifyReady(c)
    BY <2>2, <1>c, <1>a DEF NotifyReady, Still
  <2>3. CASE FoundBusy(c)
    BY <2>3, <1>c, <1>w DEF FoundBusy, Still
  <2>4. CASE Block(c)
    BY <2>4, <1>c, <1>w DEF Block, Still
  <2>5. CASE FoundIdle(c)
    <3>1. CASE receiptError
      BY <2>5, <3>1, <1>e, <1>w DEF FoundIdle, Still
    <3>2. CASE ~receiptError
      BY <2>5, <3>2, <1>c, <1>w DEF FoundIdle, Still
    <3> QED BY <3>1, <3>2
  <2>6. CASE Consume(c)
    BY <2>6, <1>e, <1>w DEF Consume, Still
  <2>7. CASE ConsumeRefused(c)
    BY <2>7, <1>e, <1>w DEF ConsumeRefused, Still
  <2> QED BY <1>2, <2>1, <2>2, <2>3, <2>4, <2>5, <2>6, <2>7
<1>3. CASE Stop \/ Join
  BY <1>3, <1>p, <1>w DEF Stop, Join, Still
<1>4. CASE NotifyStop
  <2>1. \A d \in Callers : InPool(d)' = InPool(d) /\ Entering(d)' = Entering(d)
    BY <1>4, <1>t DEF NotifyStop, InPool, Entering
  <2> QED BY <1>4, <1>a, <2>1 DEF NotifyStop, Still
<1>5. ASSUME NEW w \in Workers, WorkerStep(w), ~Pop(w), ~Complete(w)
      PROVE  Still
  <2>1. \E a, b : Moves(w, a, b) /\ (a \in Holding <=> b \in Holding)
    BY <1>5, WorkerMoves DEF WorkerStep, Holding, Active
  <2>2. Holders' = Holders
    BY <2>1, MovesHolding
  <2>3. UNCHANGED <<tasks, task, remaining>>
    BY <1>5 DEF WorkerStep, Sleep, Exit, Activate, RunIndex, NestedInline,
       NestedRefused, InlineReceipt, FinishRun, Receipt, StepDown
  <2>4. CASE StepDown(w)
    <3>1. \A d \in Callers : InPool(d)' = InPool(d) /\ Entering(d)' = Entering(d)
      BY <2>4, <1>t DEF StepDown, InPool, Entering
    <3> QED BY <3>1, <2>2, <2>3 DEF Still
  <2>5. CASE ~StepDown(w)
    <3>1. UNCHANGED pc
      BY <1>5, <2>5 DEF WorkerStep, Sleep, Exit, Activate, RunIndex,
         NestedInline, NestedRefused, InlineReceipt, FinishRun, Receipt
    <3> QED BY <3>1, <1>p, <2>2, <2>3 DEF Still
  <2> QED BY <2>4, <2>5
<1>6. AtRest => UNCHANGED vars
  BY DEF AtRest
<1> QED BY <1>1, <1>2, <1>3, <1>4, <1>5, <1>6 DEF Next, CallerStep

(* The chunks in the pool, and the calls they belong to.                   *)
LEMMA LiveTasks ==
  ASSUME PoolType
  PROVE  \A t \in Live : /\ t \in TaskSet /\ t.owner \in Callers
                         /\ t.chunk \in 1..ChunkCount(t.owner)
                         /\ t = Task(t.owner, t.chunk)
                         /\ t.chunk \in Outstanding(t.owner)
<1>1. \A t \in Queued : t \in TaskSet
  BY ElementOfSeq DEF Queued, PoolType, QueueType
<1>2. \A w \in Holders : task[w] \in TaskSet
  BY DEF PoolType, WorkerVarsType
<1>3. \A t \in Live : t \in TaskSet
  BY <1>1, <1>2 DEF Live
<1> QED BY <1>3, TaskSetIs DEF Outstanding

LEMMA OutstandingFinite ==
  ASSUME NEW c \in Callers
  PROVE  /\ IsFiniteSet(Outstanding(c)) /\ Cardinality(Outstanding(c)) \in Nat
         /\ Cardinality(Outstanding(c)) = 0 <=> Outstanding(c) = {}
<1>1. ChunkCount(c) \in Nat
  BY ChunkCountType
<1>2. IsFiniteSet(1..ChunkCount(c))
  BY <1>1, FS_Interval
<1>3. IsFiniteSet(Outstanding(c))
  BY <1>2, FS_Subset DEF Outstanding
<1> QED BY <1>3, FS_CardinalityType, FS_EmptySet

LEMMA ChunkInit == Init => ChunkInv
<1> SUFFICES ASSUME Init PROVE ChunkInv
  OBVIOUS
<1>1. Holders = {}
  BY DEF Init, Holders, Holding, Active
<1>2. tasks = <<>> /\ 1..Len(tasks) = {}
  BY DEF Init
<1>3. Queued = {}
  BY <1>2 DEF Queued
<1>4. Live = {}
  BY <1>1, <1>3 DEF Live
<1>5. \A c \in Callers : ~InPool(c) /\ ~Entering(c) /\ remaining[c] = 0
  BY DEF Init, InPool, Entering
<1> QED BY <1>1, <1>2, <1>4, <1>5 DEF ChunkInv, Entering

LEMMA ChunkStep ==
  ASSUME PoolType, PoolType', ChunkInv, [Next]_vars
  PROVE  ChunkInv'
<1>i. /\ \A i, j \in 1..Len(tasks) : tasks[i] = tasks[j] => i = j
      /\ \A v, w \in Holders : task[v] = task[w] => v = w
      /\ \A w \in Holders : task[w] \notin Queued
      /\ \A t \in Live : InPool(t.owner)
      /\ \A c \in Callers :
           remaining[c] = IF InPool(c) THEN Cardinality(Outstanding(c))
                          ELSE IF Entering(c) THEN ChunkCount(c) ELSE 0
  BY DEF ChunkInv, Entering
<1>n. \A c \in Callers : ~InPool(c) =>
        Outstanding(c) = {} /\ \A t \in Live : t.owner # c
  BY <1>i DEF Outstanding, Task
<1>t. /\ pc \in [Callers -> CallerStates] /\ wpc \in [Workers -> WorkerStates]
      /\ remaining \in [Callers -> Int] /\ tasks \in Seq(TaskSet)
      /\ task \in [Workers -> TaskSet \cup {NoTask}]
      /\ \A w \in Holders : task[w] \in TaskSet
  BY DEF PoolType, CallerVarsType, WorkerVarsType, QueueType
<1>1. CASE Still
  <2>1. Queued' = Queued /\ 1..Len(tasks') = 1..Len(tasks)
    BY <1>1 DEF Still, Queued
  <2>2. Live' = Live
    BY <1>1, <2>1 DEF Still, Live
  <2>3. \A c : Outstanding(c)' = Outstanding(c)
    BY <2>2 DEF Outstanding
  <2>4. \A t \in Live' : InPool(t.owner)'
    BY <2>2, <1>1, <1>i, LiveTasks DEF Still
  <2>5. \A c \in Callers :
          remaining'[c] = IF InPool(c)' THEN Cardinality(Outstanding(c)')
                          ELSE IF Entering(c)' THEN ChunkCount(c) ELSE 0
    BY <1>1, <1>i, <2>3 DEF Still
  <2> QED BY <1>1, <1>i, <2>1, <2>4, <2>5 DEF ChunkInv, Entering, Still
<1>2. ASSUME NEW c \in Callers, Call(c) PROVE ChunkInv'
  <2>1. /\ pc[c] = "start" /\ UNCHANGED <<tasks, wpc, task>>
        /\ \/ /\ \E v \in {"start", "done"} : pc' = [pc EXCEPT ![c] = v]
              /\ UNCHANGED remaining
           \/ /\ pc' = [pc EXCEPT ![c] = "enqueue"]
              /\ remaining' = [remaining EXCEPT ![c] = ChunkCount(c)]
    BY <1>2 DEF Call, poolVars, workerVars
  <2>2. Queued' = Queued /\ Holders' = Holders /\ UNCHANGED <<tasks, task>>
    BY <2>1 DEF Queued, Holders
  <2>3. Live' = Live
    BY <2>2 DEF Live
  <2>4. \A d : Outstanding(d)' = Outstanding(d)
    BY <2>3 DEF Outstanding
  <2>5. /\ ~InPool(c) /\ ~InPool(c)'
        /\ \A d \in Callers \ {c} : /\ InPool(d)' = InPool(d)
                                    /\ Entering(d)' = Entering(d)
                                    /\ remaining'[d] = remaining[d]
    BY <1>t, <2>1 DEF InPool, Entering
  <2>6. remaining'[c] = IF Entering(c)' THEN ChunkCount(c) ELSE 0
    <3>1. remaining[c] = 0
      BY <1>i, <2>1 DEF InPool, Entering
    <3> QED BY <1>t, <2>1, <3>1 DEF Entering
  <2>7. \A t \in Live' : InPool(t.owner)'
    BY <1>i, <1>n, <2>3, <2>5, LiveTasks
  <2>8. \A d \in Callers :
          remaining'[d] = IF InPool(d)' THEN Cardinality(Outstanding(d)')
                          ELSE IF Entering(d)' THEN ChunkCount(d) ELSE 0
    BY <1>i, <2>4, <2>5, <2>6
  <2> QED BY <1>i, <2>2, <2>7, <2>8 DEF ChunkInv, Entering
<1>3. ASSUME NEW c \in Callers, Reject(c) PROVE ChunkInv'
  <2>1. /\ pc[c] = "enqueue" /\ UNCHANGED <<tasks, wpc, task>>
        /\ pc' = [pc EXCEPT ![c] = "notify"]
        /\ remaining' = [remaining EXCEPT ![c] = 0]
    BY <1>3 DEF Reject, poolVars, workerVars
  <2>2. Queued' = Queued /\ Holders' = Holders
    BY <2>1 DEF Queued, Holders
  <2>3. Live' = Live
    BY <2>1, <2>2 DEF Live
  <2>4. \A d : Outstanding(d)' = Outstanding(d)
    BY <2>3 DEF Outstanding
  <2>5. /\ ~InPool(c) /\ InPool(c)' /\ remaining'[c] = 0
        /\ \A d \in Callers \ {c} : /\ InPool(d)' = InPool(d)
                                    /\ Entering(d)' = Entering(d)
                                    /\ remaining'[d] = remaining[d]
    BY <1>t, <2>1 DEF InPool, Entering
  <2>6. Cardinality(Outstanding(c)') = 0
    BY <1>n, <2>4, <2>5, FS_EmptySet
  <2>7. \A t \in Live' : InPool(t.owner)'
    BY <1>i, <2>3, <2>5, LiveTasks
  <2>8. \A d \in Callers :
          remaining'[d] = IF InPool(d)' THEN Cardinality(Outstanding(d)')
                          ELSE IF Entering(d)' THEN ChunkCount(d) ELSE 0
    BY <1>i, <2>4, <2>5, <2>6
  <2> QED BY <1>i, <2>1, <2>2, <2>7, <2>8 DEF ChunkInv, Entering
<1>4. ASSUME NEW c \in Callers, Return(c) PROVE ChunkInv'
  <2>1. /\ pc[c] = "wait" /\ remaining[c] = 0
        /\ UNCHANGED <<tasks, wpc, task, remaining>>
        /\ \E v \in {"start", "done", "consume", "idle"} :
             pc' = [pc EXCEPT ![c] = v]
    BY <1>4, PoolAssumption DEF Return, End, poolVars, workerVars
  <2>2. Queued' = Queued /\ Holders' = Holders
    BY <2>1 DEF Queued, Holders
  <2>3. Live' = Live
    BY <2>1, <2>2 DEF Live
  <2>4. \A d : Outstanding(d)' = Outstanding(d)
    BY <2>3 DEF Outstanding
  <2>5. /\ InPool(c) /\ ~InPool(c)' /\ ~Entering(c)'
        /\ \A d \in Callers \ {c} : /\ InPool(d)' = InPool(d)
                                    /\ Entering(d)' = Entering(d)
    BY <1>t, <2>1 DEF InPool, Entering
  <2>6. Outstanding(c) = {}
    BY <1>i, <2>1, <2>5, OutstandingFinite
  <2>7. \A t \in Live' : InPool(t.owner)'
    BY <1>i, <2>3, <2>5, <2>6, LiveTasks
  <2>8. \A d \in Callers :
          remaining'[d] = IF InPool(d)' THEN Cardinality(Outstanding(d)')
                          ELSE IF Entering(d)' THEN ChunkCount(d) ELSE 0
    BY <1>i, <2>1, <2>4, <2>5
  <2> QED BY <1>i, <2>1, <2>2, <2>7, <2>8 DEF ChunkInv, Entering
<1>5. ASSUME NEW c \in Callers, Enqueue(c) PROVE ChunkInv'
  <2>1. /\ pc[c] = "enqueue" /\ UNCHANGED <<remaining, wpc, task>>
        /\ pc' = [pc EXCEPT ![c] = "notify"] /\ tasks' = tasks \o Chunks(c)
    BY <1>5 DEF Enqueue, workerVars
  <2>2. /\ Holders' = Holders /\ Queued' = Queued \cup ChunkSet(c)
        /\ Len(tasks') = Len(tasks) + ChunkCount(c)
        /\ \A j \in 1..Len(tasks') :
             tasks'[j] = IF j <= Len(tasks) THEN tasks[j]
                         ELSE Task(c, j - Len(tasks))
    BY <1>t, <2>1, Enqueued DEF Holders
  <2>3. Live' = Live \cup ChunkSet(c)
    BY <2>1, <2>2 DEF Live
  <2>4. \A t \in ChunkSet(c) : t.owner = c /\ t.chunk \in 1..ChunkCount(c)
    BY DEF ChunkSet, Task
  <2>5. /\ ~InPool(c) /\ Entering(c) /\ InPool(c)'
        /\ \A d \in Callers \ {c} : /\ InPool(d)' = InPool(d)
                                    /\ Entering(d)' = Entering(d)
    BY <1>t, <2>1 DEF InPool, Entering
  <2>6. \A t \in Live : t.owner # c
    BY <1>n, <2>5
  <2>7. \A i, j \in 1..Len(tasks') : tasks'[i] = tasks'[j] => i = j
    <3> SUFFICES ASSUME NEW i \in 1..Len(tasks'), NEW j \in 1..Len(tasks'),
                        tasks'[i] = tasks'[j]
                 PROVE  i = j
      OBVIOUS
    <3> DEFINE m == Len(tasks)
    <3>1. m \in Nat /\ ChunkCount(c) \in Nat
      BY <1>t, LenProperties, ChunkCountType
    <3>2. \A k \in 1..m : tasks[k] \in Live
      BY DEF Queued, Live
    <3>3. \A k : Task(c, k).owner = c /\ Task(c, k).chunk = k
      BY DEF Task
    <3>4. i \in 1..(m + ChunkCount(c)) /\ j \in 1..(m + ChunkCount(c))
      BY <2>2
    <3>5. /\ i <= m => tasks'[i] = tasks[i] /\ tasks[i].owner # c
          /\ j <= m => tasks'[j] = tasks[j] /\ tasks[j].owner # c
      BY <2>2, <2>6, <3>1, <3>2, <3>4
    <3>6. /\ ~(i <= m) => tasks'[i] = Task(c, i - m)
          /\ ~(j <= m) => tasks'[j] = Task(c, j - m)
      BY <2>2
    <3> HIDE DEF m
    <3>7. CASE i <= m /\ j <= m
      BY <1>i, <3>1, <3>4, <3>5, <3>7 DEF m
    <3>8. CASE ~(i <= m) /\ ~(j <= m)
      <4>1. i - m = j - m
        BY <3>3, <3>6, <3>8
      <4> QED BY <4>1, <3>1, <3>4
    <3>9. CASE (i <= m) # (j <= m)
      BY <3>3, <3>5, <3>6, <3>9
    <3> QED BY <3>7, <3>8, <3>9
  <2>8. \A w \in Holders' : task'[w] \notin Queued'
    <3>1. \A w \in Holders : task[w] \in Live
      BY DEF Live
    <3> QED BY <1>i, <2>1, <2>2, <2>4, <2>6, <3>1
  <2>9. \A t \in Live' : InPool(t.owner)'
    BY <1>i, <2>3, <2>4, <2>5, LiveTasks
  <2>10. Cardinality(Outstanding(c)') = ChunkCount(c)
    <3>1. ChunkCount(c) \in Nat
      BY ChunkCountType
    <3>2. \A k \in 1..ChunkCount(c) : Task(c, k) \in Live'
      BY <2>3 DEF ChunkSet
    <3>3. Outstanding(c)' = 1..ChunkCount(c)
      BY <3>2 DEF Outstanding
    <3>4. Cardinality(1..ChunkCount(c)) = ChunkCount(c)
      BY <3>1, FS_Interval
    <3> QED BY <3>3, <3>4
  <2>11. \A d \in Callers \ {c} : Outstanding(d)' = Outstanding(d)
    <3> TAKE d \in Callers \ {c}
    <3>1. \A k : Task(d, k).owner # c
      BY DEF Task
    <3>2. \A k : Task(d, k) \in Live' <=> Task(d, k) \in Live
      BY <2>3, <2>4, <3>1
    <3> QED BY <3>2 DEF Outstanding
  <2>12. \A d \in Callers :
           remaining'[d] = IF InPool(d)' THEN Cardinality(Outstanding(d)')
                           ELSE IF Entering(d)' THEN ChunkCount(d) ELSE 0
    BY <1>i, <2>1, <2>5, <2>10, <2>11
  <2> QED BY <1>i, <2>1, <2>2, <2>7, <2>8, <2>9, <2>12 DEF ChunkInv, Entering
<1>6. ASSUME NEW w \in Workers, Pop(w) PROVE ChunkInv'
  <2> DEFINE h == Head(tasks)
  <2>1. /\ tasks # <<>> /\ tasks' = Tail(tasks) /\ UNCHANGED remaining
        /\ task' = [task EXCEPT ![w] = h]
        /\ wpc[w] = "idle" /\ wpc' = [wpc EXCEPT ![w] = "popped"]
        /\ \/ UNCHANGED pc
           \/ \E c \in Callers : pc[c] = "space" /\ pc' = [pc EXCEPT ![c] = "enqueue"]
    BY <1>6 DEF Pop, NotifySpace
  <2>2. /\ h \in Queued /\ Queued' = Queued \ {h}
        /\ \A i, j \in 1..Len(tasks') : tasks'[i] = tasks'[j] => i = j
    BY <1>i, <1>t, <2>1, Popped
  <2>3. w \notin Holders /\ Holders' = Holders \cup {w}
    BY <1>t, <2>1 DEF Holders, Holding, Active
  <2>4. task'[w] = h /\ \A v \in Holders : task'[v] = task[v]
    <3> HIDE DEF h
    <3>1. \A v \in Holders : v \in Workers
      BY DEF Holders
    <3> QED BY <1>t, <2>1, <2>3, <3>1
  <2> HIDE DEF h
  <2>5. Live' = Live
    <3>1. Live' = Queued' \cup {task'[v] : v \in Holders'}
      BY DEF Live
    <3>2. {task'[v] : v \in Holders'} = {task[v] : v \in Holders} \cup {h}
      BY <2>3, <2>4
    <3> QED BY <2>2, <3>1, <3>2 DEF Live
  <2>6. \A d : Outstanding(d)' = Outstanding(d)
    BY <2>5 DEF Outstanding
  <2>7. \A d \in Callers : InPool(d)' = InPool(d) /\ Entering(d)' = Entering(d)
    BY <1>t, <2>1 DEF InPool, Entering
  <2>8. \A u, v \in Holders' : task'[u] = task'[v] => u = v
    BY <1>i, <2>2, <2>3, <2>4
  <2>9. \A v \in Holders' : task'[v] \notin Queued'
    BY <1>i, <2>2, <2>3, <2>4
  <2>10. \A t \in Live' : InPool(t.owner)'
    BY <1>i, <2>5, <2>7, LiveTasks
  <2>11. \A d \in Callers :
           remaining'[d] = IF InPool(d)' THEN Cardinality(Outstanding(d)')
                           ELSE IF Entering(d)' THEN ChunkCount(d) ELSE 0
    BY <1>i, <2>1, <2>6, <2>7
  <2> QED BY <2>2, <2>8, <2>9, <2>10, <2>11 DEF ChunkInv, Entering
<1>7. ASSUME NEW w \in Workers, Complete(w) PROVE ChunkInv'
  <2>0. /\ wpc[w] = "complete" /\ wpc' = [wpc EXCEPT ![w] = "idle"]
        /\ remaining' = [remaining EXCEPT ![task[w].owner] = @ - 1]
        /\ UNCHANGED <<tasks, task, pc>>
    BY <1>7, EpilogueOrder DEF Complete, poolVars
  <2>2. w \in Holders /\ Holders' = Holders \ {w}
    BY <1>t, <2>0 DEF Holders, Holding, Active
  <2>3. PICK o \in Callers, k \in Int :
          /\ k \in 1..ChunkCount(o) /\ task[w] = Task(o, k)
          /\ task[w].owner = o
    BY <1>t, <2>2, TaskSetIs
  <2>1. /\ remaining' = [remaining EXCEPT ![o] = @ - 1]
        /\ UNCHANGED <<tasks, task, pc>>
    BY <2>0, <2>3
  <2>4. Queued' = Queued
    BY <2>1 DEF Queued
  <2>5. Live' = Live \ {task[w]}
    <3>1. Live' = Queued \cup {task[v] : v \in Holders \ {w}}
      BY <2>1, <2>2, <2>4 DEF Live
    <3> QED BY <1>i, <2>2, <3>1 DEF Live
  <2>6. \A d \in Callers : InPool(d)' = InPool(d) /\ Entering(d)' = Entering(d)
    BY <2>1 DEF InPool, Entering
  <2>7. \A d, l : Task(d, l) = Task(o, k) <=> d = o /\ l = k
    BY DEF Task
  <2>8. \A d \in Callers : Outstanding(d)' = IF d = o THEN Outstanding(d) \ {k}
                                             ELSE Outstanding(d)
    BY <2>3, <2>5, <2>7 DEF Outstanding
  <2>9. k \in Outstanding(o) /\ InPool(o)
    <3>1. Task(o, k) \in Live
      BY <2>2, <2>3 DEF Live
    <3>2. Task(o, k).owner = o
      BY DEF Task
    <3> QED BY <1>i, <2>3, <3>1, <3>2 DEF Outstanding
  <2>10. Cardinality(Outstanding(o)') = Cardinality(Outstanding(o)) - 1
    <3> DEFINE S == Outstanding(o)
    <3>1. IsFiniteSet(S) /\ k \in S
      BY <2>3, <2>9, OutstandingFinite
    <3>2. Outstanding(o)' = S \ {k}
      BY <2>3, <2>8
    <3> HIDE DEF S
    <3>3. Cardinality(S \ {k}) = Cardinality(S) - 1
      BY <3>1, FS_RemoveElement
    <3> QED BY <3>2, <3>3 DEF S
  <2>11. \A d \in Callers :
           remaining'[d] = IF d = o THEN remaining[d] - 1 ELSE remaining[d]
    BY <1>t, <2>1, <2>3
  <2>12. \A d \in Callers :
           remaining'[d] = IF InPool(d)' THEN Cardinality(Outstanding(d)')
                           ELSE IF Entering(d)' THEN ChunkCount(d) ELSE 0
    <3> TAKE d \in Callers
    <3>1. CASE d = o
      BY <3>1, <1>i, <2>3, <2>6, <2>9, <2>10, <2>11
    <3>2. CASE d # o
      <4>1. Outstanding(d)' = Outstanding(d) /\ remaining'[d] = remaining[d]
        BY <3>2, <2>8, <2>11
      <4> QED BY <4>1, <1>i, <2>6
    <3> QED BY <3>1, <3>2
  <2>13. \A t \in Live' : InPool(t.owner)'
    BY <1>i, <2>5, <2>6, LiveTasks
  <2> QED BY <1>i, <2>1, <2>2, <2>4, <2>12, <2>13 DEF ChunkInv, Entering
<1> QED BY <1>1, <1>2, <1>3, <1>4, <1>5, <1>6, <1>7, StillSteps

-----------------------------------------------------------------------------
(* How far a worker is, and how often an index has run *)

(* A worker's own variables change in its own steps; others only wake it.  *)
LEMMA Elsewhere ==
  ASSUME PoolType, [Next]_vars, NEW v \in Workers, ~WorkerStep(v)
  PROVE  /\ index'[v] = index[v] /\ task'[v] = task[v]
         /\ threw'[v] = threw[v] /\ lost'[v] = lost[v]
         /\ wpc'[v] = wpc[v] \/ (wpc[v] = "asleep" /\ wpc'[v] = "idle")
<1>t. /\ wpc \in [Workers -> WorkerStates] /\ index \in [Workers -> Nat]
      /\ task \in [Workers -> TaskSet \cup {NoTask}]
      /\ threw \in [Workers -> BOOLEAN] /\ lost \in [Workers -> BOOLEAN]
  BY DEF PoolType, WorkerVarsType
<1>1. CASE UNCHANGED workerVars
  BY <1>1 DEF workerVars
<1>2. CASE /\ wpc' = [w \in Workers |-> IF wpc[w] = "asleep" THEN "idle" ELSE wpc[w]]
           /\ UNCHANGED <<task, index, threw, lost>>
  BY <1>2
<1>3. ASSUME NEW w \in Workers, WorkerStep(w), w # v
      PROVE  /\ index'[v] = index[v] /\ task'[v] = task[v]
             /\ threw'[v] = threw[v] /\ lost'[v] = lost[v] /\ wpc'[v] = wpc[v]
  <2>1. \E a, b : Moves(w, a, b)
    BY <1>3, WorkerMoves DEF WorkerStep
  <2>2. wpc'[v] = wpc[v]
    BY <1>t, <1>3, <2>1 DEF Moves
  <2>3. task'[v] = task[v]
    <3>1. UNCHANGED task \/ \E x : task' = [task EXCEPT ![w] = x]
      BY <1>3 DEF WorkerStep, Pop, Sleep, Exit, Activate, RunIndex,
         NestedInline, NestedRefused, InlineReceipt, FinishRun, Receipt,
         StepDown, Complete
    <3> QED BY <1>t, <1>3, <3>1
  <2>4. index'[v] = index[v]
    <3>1. UNCHANGED index \/ \E x : index' = [index EXCEPT ![w] = x]
      BY <1>3 DEF WorkerStep, Pop, Sleep, Exit, Activate, RunIndex,
         NestedInline, NestedRefused, InlineReceipt, FinishRun, Receipt,
         StepDown, Complete
    <3> QED BY <1>t, <1>3, <3>1
  <2>5. threw'[v] = threw[v]
    <3>1. UNCHANGED threw \/ \E x : threw' = [threw EXCEPT ![w] = x]
      BY <1>3 DEF WorkerStep, Pop, Sleep, Exit, Activate, RunIndex,
         NestedInline, NestedRefused, InlineReceipt, FinishRun, Receipt,
         StepDown, Complete
    <3> QED BY <1>t, <1>3, <3>1
  <2>6. lost'[v] = lost[v]
    <3>1. UNCHANGED lost \/ \E x : lost' = [lost EXCEPT ![w] = x]
      BY <1>3 DEF WorkerStep, Pop, Sleep, Exit, Activate, RunIndex,
         NestedInline, NestedRefused, InlineReceipt, FinishRun, Receipt,
         StepDown, Complete
    <3> QED BY <1>t, <1>3, <3>1
  <2> QED BY <2>2, <2>3, <2>4, <2>5, <2>6
<1>4. ASSUME NEW c \in Callers, CallerStep(c)
      PROVE  \/ UNCHANGED workerVars
             \/ /\ wpc' = [w \in Workers |->
                             IF wpc[w] = "asleep" THEN "idle" ELSE wpc[w]]
                /\ UNCHANGED <<task, index, threw, lost>>
  BY <1>4 DEF CallerStep, Call, AwaitSpace, Enqueue, Reject, NotifyReady,
     Return, FoundIdle, FoundBusy, Block, Consume, ConsumeRefused
<1>5. CASE Stop \/ NotifyStop \/ Join \/ AtRest \/ UNCHANGED vars
  <2>1. \/ UNCHANGED workerVars
        \/ /\ wpc' = [w \in Workers |->
                        IF wpc[w] = "asleep" THEN "idle" ELSE wpc[w]]
           /\ UNCHANGED <<task, index, threw, lost>>
    BY <1>5 DEF Stop, NotifyStop, Join, AtRest, vars
  <2> QED BY <2>1, <1>1, <1>2
<1> QED BY <1>1, <1>2, <1>3, <1>4, <1>5 DEF Next

LEMMA IndexInit == Init => IndexInv
BY DEF Init, IndexInv, IndexAt

LEMMA IndexStep ==
  ASSUME PoolType, PoolType', IndexInv, [Next]_vars
  PROVE  IndexInv'
<1>1. ASSUME NEW v \in Workers, ~WorkerStep(v) PROVE IndexAt(v)'
  <2>1. /\ index'[v] = index[v] /\ task'[v] = task[v]
        /\ wpc'[v] = wpc[v] \/ wpc'[v] = "idle"
    BY <1>1, Elsewhere
  <2>2. IndexAt(v)
    BY DEF IndexInv
  <2> DEFINE o == task[v].owner  k == task[v].chunk
  <2>3. /\ task'[v].owner = o /\ task'[v].chunk = k
    BY <2>1
  <2>4. /\ First(task[v].owner, task[v].chunk)' = First(o, k)
        /\ Last(task[v].owner, task[v].chunk)' = Last(o, k)
    BY <2>3 DEF First, Last, ChunkCount
  <2> QED BY <2>1, <2>2, <2>4 DEF IndexAt
<1>2. ASSUME NEW w \in Workers, WorkerStep(w) PROVE IndexAt(w)'
  <2>t. /\ wpc \in [Workers -> WorkerStates] /\ index \in [Workers -> Nat]
        /\ task \in [Workers -> TaskSet \cup {NoTask}]
    BY DEF PoolType, WorkerVarsType
  <2>1. CASE Pop(w) \/ Sleep(w) \/ Exit(w) \/ Complete(w)
    <3>1. wpc'[w] \in {"idle", "popped", "asleep", "exited"}
      BY <2>t, <2>1, WorkerMoves DEF Moves
    <3> QED BY <3>1 DEF IndexAt
  <2>2. CASE ~(Pop(w) \/ Sleep(w) \/ Exit(w) \/ Complete(w))
    <3>1. w \in Holders /\ UNCHANGED task
      <4>1. wpc[w] \in Holding
        BY <1>2, <2>2, WorkerMoves DEF WorkerStep, Moves, Holding, Active
      <4>2. UNCHANGED task
        BY <1>2, <2>2 DEF WorkerStep, Activate, RunIndex, NestedInline,
           NestedRefused, InlineReceipt, FinishRun, Receipt, StepDown
      <4> QED BY <4>1, <4>2 DEF Holders
    <3> DEFINE first == First(task[w].owner, task[w].chunk)
               last  == Last(task[w].owner, task[w].chunk)
    <3>2. first \in Int /\ last \in Int /\ first <= last
      <4>1. /\ first \in 1..Count[task[w].owner] /\ last \in 1..Count[task[w].owner]
            /\ first <= last
        BY <3>1, HeldChunk
      <4> QED BY <4>1
    <3>3. /\ wpc[w] = "run" => index[w] \in first..(last + 1)
          /\ wpc[w] \in {"nested", "inline"} => index[w] \in first..last
          /\ wpc[w] \in {"receipt", "down", "complete"} => index[w] = last + 1
      BY DEF IndexInv, IndexAt
    <3>4. /\ First(task[w].owner, task[w].chunk)' = first
          /\ Last(task[w].owner, task[w].chunk)' = last
      BY <3>1 DEF First, Last, ChunkCount
    <3>5. IndexAt(w)' = (
            /\ wpc'[w] = "run" => index'[w] \in first..(last + 1)
            /\ wpc'[w] \in {"nested", "inline"} => index'[w] \in first..last
            /\ wpc'[w] \in {"receipt", "down", "complete"} =>
                 index'[w] = last + 1)
      BY <3>4 DEF IndexAt
    <3>6. index[w] \in Int
      BY <2>t
    <3>7. CASE Activate(w)
      <4>1. wpc'[w] = "run" /\ index'[w] = first
        BY <2>t, <3>7 DEF Activate
      <4> HIDE DEF first, last
      <4> QED BY <3>2, <3>5, <4>1
    <3>8. CASE RunIndex(w)
      <4>1. /\ wpc[w] = "run" /\ index[w] <= last
            /\ \/ wpc'[w] = "nested" /\ index'[w] = index[w]
               \/ wpc'[w] = "run" /\ index'[w] = index[w] + 1
        BY <2>t, <3>8 DEF RunIndex
      <4> HIDE DEF first, last
      <4> QED BY <3>2, <3>3, <3>5, <3>6, <4>1
    <3>9. CASE NestedInline(w)
      <4>1. wpc[w] = "nested" /\ wpc'[w] = "inline" /\ index'[w] = index[w]
        BY <2>t, <3>9 DEF NestedInline
      <4> HIDE DEF first, last
      <4> QED BY <3>3, <3>5, <4>1
    <3>10. CASE NestedRefused(w) \/ InlineReceipt(w)
      <4>1. /\ wpc[w] \in {"nested", "inline"} /\ wpc'[w] = "run"
            /\ index'[w] = index[w] + 1
        BY <2>t, <3>10 DEF NestedRefused, InlineReceipt
      <4> HIDE DEF first, last
      <4> QED BY <3>2, <3>3, <3>5, <3>6, <4>1
    <3>11. CASE FinishRun(w)
      <4>1. wpc[w] = "run" /\ index[w] > last /\ index'[w] = index[w]
        BY <3>11 DEF FinishRun
      <4>2. wpc'[w] = "receipt"
        BY <2>t, <3>11, WorkerMoves DEF Moves
      <4> HIDE DEF first, last
      <4> QED BY <3>2, <3>3, <3>5, <3>6, <4>1, <4>2
    <3>12. CASE Receipt(w) \/ StepDown(w)
      <4>1. index'[w] = index[w]
        BY <3>12 DEF Receipt, StepDown
      <4>2. wpc[w] \in {"receipt", "down"} /\ wpc'[w] \in {"down", "complete"}
        BY <2>t, <3>12, WorkerMoves DEF Moves
      <4> HIDE DEF first, last
      <4> QED BY <3>3, <3>5, <4>1, <4>2
    <3> QED BY <1>2, <2>2, <3>7, <3>8, <3>9, <3>10, <3>11, <3>12 DEF WorkerStep
  <2> QED BY <2>1, <2>2
<1> QED BY <1>1, <1>2 DEF IndexInv

(* Only RunIndex takes a worker past an index of its chunk.                *)
LEMMA PassedKept ==
  ASSUME PoolType, IndexInv, [Next]_vars, NEW v \in Holders, v \in Holders',
         ~RunIndex(v),
         NEW i \in First(task[v].owner, task[v].chunk)..Last(task[v].owner, task[v].chunk)
  PROVE  task'[v] = task[v] /\ (Passed(v, i)' <=> Passed(v, i))
<1>t. /\ wpc \in [Workers -> WorkerStates] /\ index \in [Workers -> Nat]
      /\ v \in Workers
  BY DEF PoolType, WorkerVarsType, Holders
<1>h. wpc[v] \in Holding /\ wpc'[v] \in Holding
  BY DEF Holders
<1> DEFINE first == First(task[v].owner, task[v].chunk)
           last  == Last(task[v].owner, task[v].chunk)
<1>f. first \in Int /\ last \in Int
  <2>1. first \in 1..Count[task[v].owner] /\ last \in 1..Count[task[v].owner]
    BY HeldChunk
  <2> QED BY <2>1
<1>x. i \in Int /\ first <= i /\ i <= last /\ index[v] \in Int
  BY <1>t, <1>f
<1>i. wpc[v] \in {"receipt", "down", "complete"} => index[v] = last + 1
  BY <1>t DEF IndexInv, IndexAt
<1>1. CASE ~WorkerStep(v)
  <2>1. /\ index'[v] = index[v] /\ task'[v] = task[v]
        /\ wpc'[v] = wpc[v] \/ wpc[v] = "asleep"
    BY <1>t, <1>1, Elsewhere
  <2>2. wpc'[v] = wpc[v]
    BY <1>h, <2>1 DEF Holding, Active
  <2> QED BY <2>1, <2>2 DEF Passed
<1>2. CASE WorkerStep(v)
  <2>1. ~Pop(v) /\ ~Sleep(v) /\ ~Exit(v) /\ ~Complete(v)
    BY <1>t, <1>h, WorkerMoves DEF Moves, Holding, Active
  <2>2. UNCHANGED task
    BY <1>2, <2>1 DEF WorkerStep, Activate, RunIndex, NestedInline,
       NestedRefused, InlineReceipt, FinishRun, Receipt, StepDown
  <2> HIDE DEF first, last
  <2>3. CASE Activate(v)
    <3>1. wpc[v] = "popped" /\ wpc'[v] = "run" /\ index'[v] = first
      BY <1>t, <2>3 DEF Activate, first
    <3> QED BY <1>x, <1>f, <2>2, <3>1 DEF Passed
  <2>4. CASE NestedInline(v)
    <3>1. wpc[v] = "nested" /\ wpc'[v] = "inline" /\ index'[v] = index[v]
      BY <1>t, <2>4 DEF NestedInline
    <3> QED BY <2>2, <3>1 DEF Passed
  <2>5. CASE NestedRefused(v) \/ InlineReceipt(v)
    <3>1. /\ wpc[v] \in {"nested", "inline"} /\ wpc'[v] = "run"
          /\ index'[v] = index[v] + 1
      BY <1>t, <2>5 DEF NestedRefused, InlineReceipt
    <3> QED BY <1>x, <2>2, <3>1 DEF Passed
  <2>6. CASE FinishRun(v) \/ Receipt(v) \/ StepDown(v)
    <3>1. index'[v] = index[v]
      BY <2>6 DEF FinishRun, Receipt, StepDown
    <3>2. /\ wpc[v] \in {"run", "receipt", "down"}
          /\ wpc'[v] \in {"receipt", "down", "complete"}
      BY <1>t, <2>6, WorkerMoves DEF Moves
    <3> QED BY <1>x, <2>2, <3>1, <3>2 DEF Passed
  <2> QED BY <1>2, <2>1, <2>3, <2>4, <2>5, <2>6 DEF WorkerStep
<1> QED BY <1>1, <1>2

LEMMA RunsInit == Init => RunsInv
<1> SUFFICES ASSUME Init PROVE RunsInv
  OBVIOUS
<1>1. \A c \in Callers : /\ ~InPool(c) /\ \A i \in 1..Count[c] : runs[c][i] = 0
  BY DEF Init, InPool
<1> QED BY <1>1 DEF RunsInv, RunsAt, InPool

(* A call none of whose chunks or indices moved.                           *)
LEMMA RunsFrame ==
  ASSUME NEW c \in Callers, RunsAt(c), runs'[c] = runs[c], stopping => stopping',
         InPool(c)' = InPool(c), Entering(c)' = Entering(c),
         \A k \in 1..ChunkCount(c) :
           /\ Task(c, k) \in Queued' <=> Task(c, k) \in Queued
           /\ Task(c, k) \in Live' <=> Task(c, k) \in Live,
         \A k \in 1..ChunkCount(c) : \A i \in First(c, k)..Last(c, k) :
           \A v \in Holders' : task'[v] = Task(c, k) =>
             v \in Holders /\ task[v] = Task(c, k) /\ (Passed(v, i)' <=> Passed(v, i))
  PROVE  RunsAt(c)'
<1>1. Outstanding(c)' = Outstanding(c)
  BY DEF Outstanding
<1>2. Rejected(c) => Rejected(c)'
  BY <1>1 DEF Rejected
<1>3. Accepted(c) => Accepted(c)'
  BY DEF Accepted
<1>4. /\ InCall(c) <=> InPool(c) \/ Entering(c)
      /\ InCall(c)' <=> InPool(c)' \/ Entering(c)'
  BY DEF InCall, InPool, Entering
<1> QED BY <1>2, <1>3, <1>4 DEF RunsAt, Entering

(* One index runs: its chunk is the one the worker holds.                  *)
LEMMA RunsRun ==
  ASSUME PoolType, PoolType', ChunkInv, IndexInv, RunsInv,
         NEW w \in Workers, RunIndex(w), NEW c \in Callers
  PROVE  RunsAt(c)'
<1>1. /\ wpc[w] = "run" /\ index[w] <= Last(task[w].owner, task[w].chunk)
      /\ runs' = [runs EXCEPT ![task[w].owner][index[w]] = @ + 1]
      /\ UNCHANGED <<tasks, task, pc, stopping>>
  BY DEF RunIndex, poolVars, callerVars
<1>t. /\ wpc \in [Workers -> WorkerStates] /\ index \in [Workers -> Nat]
      /\ runs \in [Callers -> RunTable] /\ runs[c] \in [1..Count[c] -> Nat]
  BY DEF PoolType, WorkerVarsType, RunsType
<1>2. w \in Holders /\ Holders' = Holders
  <2>1. w \in Holders
    BY <1>1 DEF Holders, Holding, Active
  <2>2. \E a, b : Moves(w, a, b) /\ a \in Holding /\ b \in Holding
    BY WorkerMoves DEF Holding, Active
  <2> QED BY <2>1, <2>2, MovesHolding
<1>3. Queued' = Queued
  BY <1>1 DEF Queued
<1>4. Live' = Live
  BY <1>1, <1>2, <1>3 DEF Live
<1>5. InPool(c)' = InPool(c) /\ Entering(c)' = Entering(c)
  BY <1>1 DEF InPool, Entering
<1>6. \A v \in Workers \ {w} : \A i : Passed(v, i)' <=> Passed(v, i)
  <2>1. \A v \in Workers \ {w} : wpc'[v] = wpc[v] /\ index'[v] = index[v]
    BY <1>t DEF RunIndex
  <2> QED BY <2>1 DEF Passed
<1>7. RunsAt(c)
  BY DEF RunsInv
<1>8. CASE task[w].owner # c
  <2>1. runs'[c] = runs[c]
    BY <1>t, <1>1, <1>8
  <2>2. \A v \in Holders' : task'[v].owner = c => v \in Workers \ {w}
    BY <1>1, <1>2, <1>8 DEF Holders
  <2>3. \A k : Task(c, k).owner = c
    BY DEF Task
  <2> QED BY <1>1, <1>2, <1>3, <1>4, <1>5, <1>6, <1>7, <2>1, <2>2, <2>3, RunsFrame
<1>9. CASE task[w].owner = c
  <2> DEFINE k == task[w].chunk  x == index[w]
  <2>1. /\ k \in 1..ChunkCount(c) /\ task[w] = Task(c, k)
        /\ First(c, k) \in 1..Count[c] /\ Last(c, k) \in 1..Count[c]
        /\ Count[c] \in Nat
    BY <1>2, <1>9, HeldChunk
  <2>2. Task(c, k) \in Live /\ Task(c, k) \notin Queued
    BY <1>2, <2>1 DEF Live, ChunkInv
  <2>3. InPool(c)
    <3>1. task[w] \in Live
      BY <2>1, <2>2
    <3> QED BY <1>9, <3>1 DEF ChunkInv
  <2>4. Accepted(c)
    <3>1. Outstanding(c) # {}
      BY <2>1, <2>2 DEF Outstanding
    <3> QED BY <1>7, <2>3, <3>1 DEF RunsAt, Rejected
  <2>5. x \in First(c, k)..Last(c, k)
    <3>1. x \in First(c, k)..(Last(c, k) + 1) /\ x <= Last(c, k)
      BY <1>1, <1>9 DEF IndexInv, IndexAt
    <3> QED BY <2>1, <3>1
  <2>6. x \in 1..Count[c]
    <3> HIDE DEF x, k
    <3> QED BY <2>1, <2>5
  <2>7. \A i \in 1..Count[c] :
          runs'[c][i] = IF i = x THEN runs[c][i] + 1 ELSE runs[c][i]
    <3> DEFINE f == runs[c]
    <3>1. runs' = [runs EXCEPT ![c] = [f EXCEPT ![x] = @ + 1]]
      BY <1>1, <1>9
    <3>2. f \in [1..Count[c] -> Nat]
      BY <1>t
    <3> HIDE DEF f, x
    <3>3. runs'[c] = [f EXCEPT ![x] = @ + 1]
      BY <1>t, <3>1
    <3>4. \A i \in 1..Count[c] :
            runs'[c][i] = IF i = x THEN f[i] + 1 ELSE f[i]
      BY <2>6, <3>2, <3>3
    <3> QED BY <3>4 DEF f
  <2>8. \A i \in Int : ~Passed(w, x) /\ (Passed(w, i)' <=> Passed(w, i) \/ i = x)
    <3>1. \/ wpc'[w] = "nested" /\ index'[w] = x
          \/ wpc'[w] = "run" /\ index'[w] = x + 1
      BY <1>t DEF RunIndex
    <3>2. x \in Int
      BY <1>t
    <3>3. \A i : Passed(w, i) <=> i < x
      BY <1>1 DEF Passed
    <3>4. \A i : Passed(w, i)' <=> i < index'[w] \/ (i = index'[w] /\ wpc'[w] = "nested")
      BY <3>1 DEF Passed
    <3> HIDE DEF x
    <3> QED BY <3>1, <3>2, <3>3, <3>4
  <2> HIDE DEF k, x
  <2>9. \A v \in Holders : task[v] = Task(c, k) => v = w
    BY <1>2, <2>1 DEF ChunkInv
  <2>10. ASSUME NEW l \in 1..ChunkCount(c), NEW i \in First(c, l)..Last(c, l)
         PROVE  /\ i \in Int /\ i \in 1..Count[c]
                /\ i = x => l = k
    <3>1. /\ First(c, l) \in 1..Count[c] /\ Last(c, l) \in 1..Count[c]
      BY ChunkPartition
    <3>2. i \in Int /\ i \in 1..Count[c]
      BY <2>1, <3>1
    <3>3. i = x => l = k
      BY <2>1, <2>5, ChunkPartition
    <3> QED BY <3>2, <3>3
  <2>11. ASSUME NEW l \in 1..ChunkCount(c), NEW i \in First(c, l)..Last(c, l)
         PROVE  /\ Task(c, l) \in Queued' => runs'[c][i] = 0
                /\ \A v \in Holders' : task'[v] = Task(c, l) =>
                     runs'[c][i] = IF Passed(v, i)' THEN 1 ELSE 0
                /\ Task(c, l) \notin Live' => runs'[c][i] = 1
    <3>1. /\ Task(c, l) \in Queued => runs[c][i] = 0
          /\ \A v \in Holders : task[v] = Task(c, l) =>
               runs[c][i] = IF Passed(v, i) THEN 1 ELSE 0
          /\ Task(c, l) \notin Live => runs[c][i] = 1
      BY <2>4 DEF Accepted
    <3>2. i \in Int /\ i \in 1..Count[c] /\ (i = x => l = k)
      BY <2>10
    <3>3. CASE l # k
      <4>1. runs'[c][i] = runs[c][i]
        BY <3>2, <3>3, <2>7
      <4>2. \A v \in Holders : task[v] = Task(c, l) => v \in Workers \ {w}
        BY <1>9, <2>1, <3>3 DEF Holders, Task
      <4>3. \A v \in Holders' : task'[v] = Task(c, l) =>
              runs'[c][i] = IF Passed(v, i)' THEN 1 ELSE 0
        BY <1>1, <1>2, <1>6, <3>1, <4>1, <4>2
      <4> QED BY <1>3, <1>4, <3>1, <4>1, <4>3
    <3>4. CASE l = k
      <4>1. runs[c][i] = IF Passed(w, i) THEN 1 ELSE 0
        BY <1>2, <2>1, <3>1, <3>4
      <4>2. runs'[c][i] = IF Passed(w, i)' THEN 1 ELSE 0
        <5>1. CASE i = x
          BY <5>1, <2>7, <2>8, <3>2, <4>1
        <5>2. CASE i # x
          BY <5>2, <2>7, <2>8, <3>2, <4>1
        <5> QED BY <5>1, <5>2
      <4>3. \A v \in Holders' : task'[v] = Task(c, l) => v = w
        BY <1>1, <1>2, <2>9, <3>4
      <4> QED BY <1>3, <1>4, <2>2, <3>4, <4>2, <4>3
    <3> QED BY <3>3, <3>4
  <2>12. Accepted(c)'
    BY <2>11 DEF Accepted
  <2>13. InCall(c)' /\ ~Entering(c)'
    BY <1>5, <2>3 DEF InCall, InPool, Entering
  <2> QED BY <1>5, <2>3, <2>12, <2>13 DEF RunsAt, Entering
<1> QED BY <1>8, <1>9

LEMMA RunsStep ==
  ASSUME PoolType, PoolType', ChunkInv, ChunkInv', IndexInv, RunsInv, [Next]_vars
  PROVE  RunsInv'
<1> SUFFICES ASSUME NEW c \in Callers PROVE RunsAt(c)'
  BY DEF RunsInv
<1>0. RunsAt(c)
  BY DEF RunsInv
<1>t. /\ pc \in [Callers -> CallerStates] /\ wpc \in [Workers -> WorkerStates]
      /\ task \in [Workers -> TaskSet \cup {NoTask}] /\ tasks \in Seq(TaskSet)
      /\ runs \in [Callers -> RunTable]
  BY DEF PoolType, CallerVarsType, WorkerVarsType, QueueType, RunsType
<1>k. \A k : Task(c, k).owner = c /\ Task(c, k).chunk = k
  BY DEF Task
<1>s. stopping => stopping'
  BY DEF Next, CallerStep, WorkerStep, Call, AwaitSpace, Enqueue, Reject,
     NotifyReady, Return, FoundIdle, FoundBusy, Block, Consume, ConsumeRefused,
     Pop, Sleep, Exit, Activate, RunIndex, NestedInline, NestedRefused,
     InlineReceipt, FinishRun, Receipt, StepDown, Complete, Stop, NotifyStop,
     Join, AtRest, vars, poolVars
<1>1. ASSUME NEW w \in Workers, RunIndex(w) PROVE RunsAt(c)'
  BY <1>1, RunsRun
<1>2. ASSUME NEW d \in Callers, Call(d) PROVE RunsAt(c)'
  <2>1. /\ runs' = [runs EXCEPT ![d] = [i \in 1..Count[d] |-> 0]]
        /\ UNCHANGED <<tasks, task, wpc, index>>
        /\ \E v \in {"start", "done", "enqueue"} : pc' = [pc EXCEPT ![d] = v]
    BY <1>2 DEF Call, poolVars, workerVars
  <2>2. CASE d = c
    <3>1. ~InPool(c)'
      BY <1>t, <2>1, <2>2 DEF InPool
    <3>2. \A i \in 1..Count[c] : runs'[c][i] = 0
      BY <1>t, <2>1, <2>2
    <3> QED BY <3>1, <3>2 DEF RunsAt
  <2>3. CASE d # c
    <3>1. /\ runs'[c] = runs[c] /\ InPool(c)' = InPool(c)
          /\ Entering(c)' = Entering(c)
      BY <1>t, <2>1, <2>3 DEF InPool, Entering
    <3>2. Queued' = Queued /\ Holders' = Holders
      BY <2>1 DEF Queued, Holders
    <3>3. Live' = Live
      BY <2>1, <3>2 DEF Live
    <3>4. \A v, i : Passed(v, i)' <=> Passed(v, i)
      BY <2>1 DEF Passed
    <3> QED BY <1>0, <1>s, <2>1, <3>1, <3>2, <3>3, <3>4, RunsFrame
  <2> QED BY <2>2, <2>3
<1>3. ASSUME ~\E w \in Workers : RunIndex(w), ~\E d \in Callers : Call(d)
      PROVE  UNCHANGED runs
  BY <1>3 DEF Next, CallerStep, WorkerStep, AwaitSpace, Enqueue, Reject,
     NotifyReady, Return, FoundIdle, FoundBusy, Block, Consume, ConsumeRefused,
     Pop, Sleep, Exit, Activate, NestedInline, NestedRefused,
     InlineReceipt, FinishRun, Receipt, StepDown, Complete, Stop, NotifyStop,
     Join, AtRest, vars, ghostVars
<1> DEFINE Keeps == ~(\E w \in Workers : RunIndex(w)) /\ ~(\E d \in Callers : Call(d))
<1>4. ASSUME Keeps,
             NEW k \in 1..ChunkCount(c), NEW i \in First(c, k)..Last(c, k),
             NEW v \in Holders', v \in Holders, task[v] = Task(c, k)
      PROVE  task'[v] = Task(c, k) /\ (Passed(v, i)' <=> Passed(v, i))
  <2>1. task[v].owner = c /\ task[v].chunk = k /\ v \in Workers
    BY <1>4, <1>k DEF Holders
  <2> QED BY <1>4, <2>1, PassedKept
<1>5. CASE Keeps /\ Still
  <2>1. UNCHANGED runs
    BY <1>3, <1>5
  <2>2. Queued' = Queued /\ Holders' = Holders
    BY <1>5 DEF Still, Queued
  <2>3. Live' = Live
    BY <1>5, <2>2 DEF Still, Live
  <2>4. \A k \in 1..ChunkCount(c) : \A i \in First(c, k)..Last(c, k) :
           \A v \in Holders' : task'[v] = Task(c, k) =>
             v \in Holders /\ task[v] = Task(c, k) /\ (Passed(v, i)' <=> Passed(v, i))
    BY <1>4, <1>5, <2>2 DEF Still
  <2>5. InPool(c)' = InPool(c) /\ Entering(c)' = Entering(c)
    BY <1>5 DEF Still
  <2> HIDE DEF Keeps
  <2> QED BY <1>0, <1>s, <2>1, <2>2, <2>3, <2>4, <2>5, RunsFrame
<1>6. ASSUME NEW d \in Callers, Reject(d), Keeps PROVE RunsAt(c)'
  <2>1. /\ pc[d] = "enqueue" /\ UNCHANGED <<tasks, wpc, task, index, stopping>>
        /\ pc' = [pc EXCEPT ![d] = "notify"] /\ stopping
    BY <1>6 DEF Reject, poolVars, workerVars
  <2>2. UNCHANGED runs
    BY <1>3, <1>6
  <2>3. Queued' = Queued /\ Holders' = Holders
    BY <2>1 DEF Queued, Holders
  <2>4. Live' = Live
    BY <2>1, <2>3 DEF Live
  <2>5. CASE d = c
    <3>1. /\ ~InPool(c) /\ InPool(c)' /\ ~Entering(c)' /\ InCall(c)'
          /\ Entering(c)
      BY <1>t, <2>1, <2>5 DEF InPool, Entering, InCall
    <3>2. Outstanding(c)' = {}
      <4>1. \A k : Task(c, k) \notin Live
        BY <1>k, <3>1 DEF ChunkInv
      <4> QED BY <2>4, <4>1 DEF Outstanding
    <3>3. \A i \in 1..Count[c] : runs'[c][i] = 0
      BY <1>0, <2>2, <3>1 DEF RunsAt, Entering
    <3>4. Rejected(c)'
      BY <2>1, <3>2, <3>3 DEF Rejected
    <3> QED BY <3>1, <3>4 DEF RunsAt, Entering
  <2>6. CASE d # c
    <3>1. InPool(c)' = InPool(c) /\ Entering(c)' = Entering(c)
      BY <1>t, <2>1, <2>6 DEF InPool, Entering
    <3>2. \A v, i : Passed(v, i)' <=> Passed(v, i)
      BY <2>1 DEF Passed
    <3> HIDE DEF Keeps
    <3> QED BY <1>0, <1>s, <2>1, <2>2, <2>3, <2>4, <3>1, <3>2, RunsFrame
  <2> QED BY <2>5, <2>6
<1>7. ASSUME NEW d \in Callers, Return(d), Keeps PROVE RunsAt(c)'
  <2>1. /\ pc[d] = "wait" /\ remaining[d] = 0
        /\ UNCHANGED <<tasks, wpc, task, index, stopping>>
        /\ \E v \in {"start", "done", "consume", "idle"} :
             pc' = [pc EXCEPT ![d] = v]
    BY <1>7, PoolAssumption DEF Return, End, poolVars, workerVars
  <2>2. UNCHANGED runs
    BY <1>3, <1>7
  <2>3. CASE d = c
    <3>1. InPool(c) /\ ~InPool(c)' /\ ~Entering(c)' /\ ~InCall(c)'
      BY <1>t, <2>1, <2>3 DEF InPool, Entering, InCall
    <3>2. Outstanding(c) = {}
      BY <2>1, <2>3, <3>1, OutstandingFinite DEF ChunkInv
    <3>3. ASSUME NEW i \in 1..Count[c] PROVE runs'[c][i] <= 1
      <4>1. CASE Rejected(c)
        BY <2>2, <4>1 DEF Rejected
      <4>2. CASE Accepted(c)
        <5>1. PICK k \in 1..ChunkCount(c) : i \in First(c, k)..Last(c, k)
          BY ChunkPartition
        <5>2. Task(c, k) \notin Live
          BY <3>2 DEF Outstanding
        <5> QED BY <2>2, <4>2, <5>1, <5>2 DEF Accepted
      <4> QED BY <1>0, <3>1, <4>1, <4>2 DEF RunsAt
    <3> QED BY <3>1, <3>3 DEF RunsAt, Entering
  <2>4. CASE d # c
    <3>1. InPool(c)' = InPool(c) /\ Entering(c)' = Entering(c)
      BY <1>t, <2>1, <2>4 DEF InPool, Entering
    <3>2. \A v, i : Passed(v, i)' <=> Passed(v, i)
      BY <2>1 DEF Passed
    <3>3. Queued' = Queued /\ Holders' = Holders
      BY <2>1 DEF Queued, Holders
    <3>4. Live' = Live
      BY <2>1, <3>3 DEF Live
    <3> HIDE DEF Keeps
    <3> QED BY <1>0, <1>s, <2>1, <2>2, <3>1, <3>2, <3>3, <3>4, RunsFrame
  <2> QED BY <2>3, <2>4
<1>8. ASSUME NEW d \in Callers, Enqueue(d), Keeps PROVE RunsAt(c)'
  <2>1. /\ pc[d] = "enqueue" /\ UNCHANGED <<wpc, task, index, stopping>>
        /\ pc' = [pc EXCEPT ![d] = "notify"] /\ tasks' = tasks \o Chunks(d)
    BY <1>8 DEF Enqueue, workerVars
  <2>2. UNCHANGED runs
    BY <1>3, <1>8
  <2>3. Queued' = Queued \cup ChunkSet(d) /\ Holders' = Holders
    BY <1>t, <2>1, Enqueued DEF Holders
  <2>4. Live' = Live \cup ChunkSet(d)
    BY <2>1, <2>3 DEF Live
  <2>5. CASE d = c
    <3>1. /\ ~InPool(c) /\ InPool(c)' /\ ~Entering(c)' /\ InCall(c)'
          /\ Entering(c)
      BY <1>t, <2>1, <2>5 DEF InPool, Entering, InCall
    <3>2. \A k \in 1..ChunkCount(c) : Task(c, k) \in Live' /\ Task(c, k) \notin Live
      BY <1>k, <2>4, <2>5, <3>1 DEF ChunkSet, ChunkInv
    <3>3. \A v \in Holders' : \A k \in 1..ChunkCount(c) : task'[v] # Task(c, k)
      BY <2>1, <2>3, <3>2 DEF Live
    <3>4. \A i \in 1..Count[c] : runs'[c][i] = 0
      BY <1>0, <2>2, <3>1 DEF RunsAt, Entering
    <3>5. \A k \in 1..ChunkCount(c) : \A i \in First(c, k)..Last(c, k) :
            i \in 1..Count[c]
      <4> TAKE k \in 1..ChunkCount(c)
      <4> TAKE i \in First(c, k)..Last(c, k)
      <4>1. /\ First(c, k) \in 1..Count[c] /\ Last(c, k) \in 1..Count[c]
            /\ Count[c] \in Nat
        BY ChunkPartition, ChunkCountType
      <4> QED BY <4>1
    <3>6. Accepted(c)'
      BY <3>2, <3>3, <3>4, <3>5 DEF Accepted
    <3> QED BY <3>1, <3>6 DEF RunsAt, Entering
  <2>6. CASE d # c
    <3>1. InPool(c)' = InPool(c) /\ Entering(c)' = Entering(c)
      BY <1>t, <2>1, <2>6 DEF InPool, Entering
    <3>2. \A v, i : Passed(v, i)' <=> Passed(v, i)
      BY <2>1 DEF Passed
    <3>3. \A k : Task(c, k) \notin ChunkSet(d)
      BY <2>6 DEF ChunkSet, Task
    <3>4. \A k : /\ Task(c, k) \in Queued' <=> Task(c, k) \in Queued
                 /\ Task(c, k) \in Live' <=> Task(c, k) \in Live
      BY <2>3, <2>4, <3>3
    <3> HIDE DEF Keeps
    <3> QED BY <1>0, <1>s, <2>1, <2>2, <2>3, <3>1, <3>2, <3>4, RunsFrame
  <2> QED BY <2>5, <2>6
<1>9. ASSUME NEW w \in Workers, Pop(w), Keeps PROVE RunsAt(c)'
  <2> DEFINE h == Head(tasks)
  <2>1. /\ tasks # <<>> /\ tasks' = Tail(tasks) /\ UNCHANGED stopping
        /\ task' = [task EXCEPT ![w] = h]
        /\ wpc[w] = "idle" /\ wpc' = [wpc EXCEPT ![w] = "popped"]
        /\ \/ UNCHANGED pc
           \/ \E e \in Callers : pc[e] = "space" /\ pc' = [pc EXCEPT ![e] = "enqueue"]
    BY <1>9 DEF Pop, NotifySpace
  <2>2. h \in Queued /\ Queued' = Queued \ {h}
    BY <1>t, <2>1, Popped DEF ChunkInv
  <2>3. w \notin Holders /\ Holders' = Holders \cup {w} /\ wpc'[w] = "popped"
    BY <1>t, <2>1 DEF Holders, Holding, Active
  <2>4. task'[w] = h /\ \A v \in Holders : task'[v] = task[v]
    <3> HIDE DEF h
    <3>1. \A v \in Holders : v \in Workers
      BY DEF Holders
    <3> QED BY <1>t, <2>1, <2>3, <3>1
  <2> HIDE DEF h, Keeps
  <2>5. Live' = Live
    <3>1. Live' = Queued' \cup {task'[v] : v \in Holders'}
      BY DEF Live
    <3>2. {task'[v] : v \in Holders'} = {task[v] : v \in Holders} \cup {h}
      BY <2>3, <2>4
    <3> QED BY <2>2, <3>1, <3>2 DEF Live
  <2>6. InPool(c)' = InPool(c) /\ Entering(c)' = Entering(c)
    BY <1>t, <2>1 DEF InPool, Entering
  <2>7. UNCHANGED runs
    BY <1>3, <1>9 DEF Keeps
  <2>8. Accepted(c) => Accepted(c)'
    <3> SUFFICES ASSUME Accepted(c), NEW k \in 1..ChunkCount(c),
                        NEW i \in First(c, k)..Last(c, k)
                 PROVE  /\ Task(c, k) \in Queued' => runs'[c][i] = 0
                        /\ \A v \in Holders' : task'[v] = Task(c, k) =>
                             runs'[c][i] = IF Passed(v, i)' THEN 1 ELSE 0
                        /\ Task(c, k) \notin Live' => runs'[c][i] = 1
      BY DEF Accepted
    <3>1. /\ Task(c, k) \in Queued => runs[c][i] = 0
          /\ \A v \in Holders : task[v] = Task(c, k) =>
               runs[c][i] = IF Passed(v, i) THEN 1 ELSE 0
          /\ Task(c, k) \notin Live => runs[c][i] = 1
      BY DEF Accepted
    <3>2. ASSUME NEW v \in Holders', task'[v] = Task(c, k)
          PROVE  runs'[c][i] = IF Passed(v, i)' THEN 1 ELSE 0
      <4>1. CASE v = w
        <5>1. Task(c, k) \in Queued /\ ~Passed(v, i)'
          BY <2>2, <2>3, <2>4, <3>2, <4>1 DEF Passed
        <5> QED BY <2>7, <3>1, <5>1
      <4>2. CASE v # w
        <5>1. v \in Holders /\ task[v] = Task(c, k)
          BY <2>3, <2>4, <3>2, <4>2
        <5>2. Passed(v, i)' <=> Passed(v, i)
          BY <1>4, <1>9, <5>1
        <5> QED BY <2>7, <3>1, <5>1, <5>2
      <4> QED BY <4>1, <4>2
    <3> QED BY <2>2, <2>5, <2>7, <3>1, <3>2
  <2>9. Rejected(c) => Rejected(c)'
    BY <2>1, <2>5, <2>7 DEF Rejected, Outstanding
  <2>10. /\ InCall(c) <=> InPool(c) \/ Entering(c)
         /\ InCall(c)' <=> InPool(c)' \/ Entering(c)'
    BY DEF InCall, InPool, Entering
  <2> QED BY <1>0, <2>6, <2>7, <2>8, <2>9, <2>10 DEF RunsAt, Entering
<1>10. ASSUME NEW w \in Workers, Complete(w), Keeps PROVE RunsAt(c)'
  <2>1. /\ wpc[w] = "complete" /\ wpc' = [wpc EXCEPT ![w] = "idle"]
        /\ UNCHANGED <<tasks, task, pc, index, stopping>>
    BY <1>10, EpilogueOrder DEF Complete, poolVars
  <2>2. w \in Holders /\ Holders' = Holders \ {w}
    BY <1>t, <2>1 DEF Holders, Holding, Active
  <2>3. Queued' = Queued
    BY <2>1 DEF Queued
  <2>4. Live' = Live \ {task[w]}
    <3>1. Live' = Queued \cup {task[v] : v \in Holders \ {w}}
      BY <2>1, <2>2, <2>3 DEF Live
    <3> QED BY <2>2, <3>1 DEF Live, ChunkInv
  <2> HIDE DEF Keeps
  <2>5. InPool(c)' = InPool(c) /\ Entering(c)' = Entering(c)
    BY <2>1 DEF InPool, Entering
  <2>6. UNCHANGED runs
    BY <1>3, <1>10 DEF Keeps
  <2>7. Accepted(c) => Accepted(c)'
    <3> SUFFICES ASSUME Accepted(c), NEW k \in 1..ChunkCount(c),
                        NEW i \in First(c, k)..Last(c, k)
                 PROVE  /\ Task(c, k) \in Queued' => runs'[c][i] = 0
                        /\ \A v \in Holders' : task'[v] = Task(c, k) =>
                             runs'[c][i] = IF Passed(v, i)' THEN 1 ELSE 0
                        /\ Task(c, k) \notin Live' => runs'[c][i] = 1
      BY DEF Accepted
    <3>1. /\ Task(c, k) \in Queued => runs[c][i] = 0
          /\ \A v \in Holders : task[v] = Task(c, k) =>
               runs[c][i] = IF Passed(v, i) THEN 1 ELSE 0
          /\ Task(c, k) \notin Live => runs[c][i] = 1
      BY DEF Accepted
    <3>2. ASSUME NEW v \in Holders', task'[v] = Task(c, k)
          PROVE  runs'[c][i] = IF Passed(v, i)' THEN 1 ELSE 0
      <4>1. v \in Holders /\ task[v] = Task(c, k)
        BY <2>1, <2>2, <3>2
      <4>2. Passed(v, i)' <=> Passed(v, i)
        BY <1>4, <1>10, <4>1
      <4> QED BY <2>6, <3>1, <4>1, <4>2
    <3>3. CASE task[w] = Task(c, k)
      <4>1. task[w].owner = c /\ task[w].chunk = k
        BY <1>k, <3>3
      <4>2. index[w] = Last(c, k) + 1
        BY <2>1, <4>1 DEF IndexInv, IndexAt
      <4>3. Passed(w, i)
        <5>1. First(c, k) \in Int /\ Last(c, k) \in Int
          <6>1. First(c, k) \in 1..Count[c] /\ Last(c, k) \in 1..Count[c]
            BY ChunkPartition
          <6> QED BY <6>1
        <5>2. i < index[w]
          BY <4>2, <5>1
        <5> QED BY <2>1, <5>2 DEF Passed
      <4>4. runs'[c][i] = 1
        BY <2>2, <2>6, <3>1, <3>3, <4>3
      <4>5. Task(c, k) \notin Queued
        BY <2>2, <3>3 DEF ChunkInv
      <4> QED BY <2>3, <3>2, <4>4, <4>5
    <3>4. CASE task[w] # Task(c, k)
      BY <2>3, <2>4, <2>6, <3>1, <3>2, <3>4
    <3> QED BY <3>3, <3>4
  <2>8. Rejected(c) => Rejected(c)'
    BY <2>1, <2>4, <2>6 DEF Rejected, Outstanding
  <2>9. /\ InCall(c) <=> InPool(c) \/ Entering(c)
        /\ InCall(c)' <=> InPool(c)' \/ Entering(c)'
    BY DEF InCall, InPool, Entering
  <2> QED BY <1>0, <2>5, <2>6, <2>7, <2>8, <2>9 DEF RunsAt, Entering
<1>11. Keeps \/ (\E w \in Workers : RunIndex(w)) \/ (\E d \in Callers : Call(d))
  OBVIOUS
<1> HIDE DEF Keeps
<1> QED BY <1>1, <1>2, <1>5, <1>6, <1>7, <1>8, <1>9, <1>10, <1>11, StillSteps

-----------------------------------------------------------------------------
(* What a call reports *)

LEMMA ReportInit == Init => ReportInv
<1> SUFFICES ASSUME Init PROVE ReportInv
  OBVIOUS
<1>1. /\ receiptError = FALSE
      /\ \A w \in Workers : threw[w] = FALSE /\ lost[w] = FALSE
      /\ \A c \in Callers : outcome[c] = "none" /\ ~InPool(c) /\ ~Entering(c)
  BY DEF Init, InPool, Entering
<1> QED BY <1>1 DEF ReportInv, ReportWorker, ReportCaller, Truthful, Entering

(* Losing a receipt and stopping are never taken back, and a call forgets  *)
(* an exception only when its caller calls again.                          *)
LEMMA ReportGrows ==
  ASSUME PoolType, PoolType', receiptError => dropped > 0, [Next]_vars
  PROVE  /\ stopping => stopping'
         /\ dropped > 0 => dropped' > 0
         /\ receiptError' => dropped' > 0
         /\ \A d \in Callers : Call(d) \/ (d \in raised => d \in raised')
                               \/ \E c \in Callers \ {d} : Call(c)
<1>t. dropped \in Nat /\ dropped' \in Nat
  BY DEF PoolType, CounterType
<1>1. ASSUME RecordReceipt
      PROVE  /\ dropped > 0 => dropped' > 0
             /\ receiptError' => dropped' > 0
  <2>1. \/ dropped' = dropped + 1
        \/ UNCHANGED <<dropped, receiptError>>
    BY <1>1 DEF RecordReceipt
  <2> QED BY <1>t, <2>1
<1>2. CASE \E w \in Workers : InlineReceipt(w) \/ Receipt(w)
  <2>1. RecordReceipt /\ UNCHANGED <<stopping, raised>>
    BY <1>2 DEF InlineReceipt, Receipt, ghostVars
  <2> QED BY <1>1, <2>1
<1>3. CASE ~\E w \in Workers : InlineReceipt(w) \/ Receipt(w)
  <2>0. /\ ~\E w \in Workers : InlineReceipt(w)
        /\ ~\E w \in Workers : Receipt(w)
    BY <1>3
  <2>1. UNCHANGED <<dropped, receiptError>> /\ (stopping => stopping')
    <3>1. ASSUME NEW w \in Workers, WorkerStep(w)
          PROVE  UNCHANGED <<dropped, receiptError, stopping>>
      BY <2>0, <3>1 DEF WorkerStep, Pop, Sleep, Exit, Activate, RunIndex,
         NestedInline, NestedRefused, FinishRun, StepDown, Complete, poolVars
    <3>2. ASSUME NEW c \in Callers, CallerStep(c)
          PROVE  UNCHANGED <<dropped, receiptError, stopping>>
      BY <3>2 DEF CallerStep, Call, AwaitSpace, Enqueue, Reject, NotifyReady,
         Return, FoundIdle, FoundBusy, Block, Consume, ConsumeRefused, poolVars
    <3>3. CASE Stop \/ NotifyStop \/ Join \/ AtRest \/ UNCHANGED vars
      BY <3>3 DEF Stop, NotifyStop, Join, AtRest, vars, poolVars
    <3> QED BY <3>1, <3>2, <3>3 DEF Next
  <2>2. (\E c \in Callers : Call(c)) \/ raised \subseteq raised'
    BY <1>3 DEF Next, CallerStep, WorkerStep, AwaitSpace, Enqueue, Reject,
       NotifyReady, Return, FoundIdle, FoundBusy, Block, Consume,
       ConsumeRefused, Pop, Sleep, Exit, Activate, RunIndex, NestedInline,
       NestedRefused, FinishRun, StepDown, Complete, Stop, NotifyStop, Join,
       AtRest, vars, ghostVars
  <2> QED BY <2>1, <2>2
<1> QED BY <1>2, <1>3

(* A worker whose chunk has raised is inside a call that is still waiting. *)
LEMMA ThrownLive ==
  ASSUME PoolType, ChunkInv, ReportInv
  PROVE  /\ \A w \in Workers : threw[w] => w \in Holders /\ InPool(task[w].owner)
         /\ \A c \in Callers : Thrown(c) => InPool(c) /\ Outstanding(c) # {}
<1>1. ASSUME NEW w \in Workers, threw[w]
      PROVE  /\ w \in Holders /\ InPool(task[w].owner)
             /\ Outstanding(task[w].owner) # {}
  <2>1. w \in Holders
    BY <1>1 DEF ReportInv, ReportWorker, Holders, Holding, Active
  <2>2. task[w] \in Live
    BY <2>1 DEF Live
  <2> QED BY <2>1, <2>2, LiveTasks DEF ChunkInv
<1> QED BY <1>1 DEF Thrown

LEMMA ReportWorkerStep ==
  ASSUME PoolType, PoolType', ChunkInv, ReportInv, [Next]_vars, NEW v \in Workers
  PROVE  ReportWorker(v)'
<1>t. /\ wpc \in [Workers -> WorkerStates] /\ threw \in [Workers -> BOOLEAN]
      /\ lost \in [Workers -> BOOLEAN] /\ dropped \in Nat
      /\ task \in [Workers -> TaskSet \cup {NoTask}]
  BY DEF PoolType, WorkerVarsType, CounterType
<1>g. /\ dropped > 0 => dropped' > 0
      /\ receiptError' => dropped' > 0
      /\ receiptError => dropped > 0
  BY ReportGrows DEF ReportInv
<1>0. ReportWorker(v)
  BY DEF ReportInv
<1>1. CASE ~WorkerStep(v)
  <2>1. /\ task'[v] = task[v] /\ threw'[v] = threw[v] /\ lost'[v] = lost[v]
        /\ wpc'[v] = wpc[v] \/ (wpc[v] = "asleep" /\ wpc'[v] = "idle")
    BY <1>1, Elsewhere
  <2>2. threw[v] /\ task[v].owner \in raised => task[v].owner \in raised'
    <3> SUFFICES ASSUME threw[v], task[v].owner \in raised
                 PROVE  task[v].owner \in raised'
      OBVIOUS
    <3>1. InPool(task[v].owner) /\ v \in Holders
      BY ThrownLive
    <3>2. task[v].owner \in Callers
      BY <3>1, HeldChunk
    <3>3. CASE \E c \in Callers : Call(c)
      <4>1. PICK c \in Callers : Call(c)
        BY <3>3
      <4>2. task[v].owner # c
        BY <3>1, <4>1 DEF InPool, Call
      <4> QED BY <4>1, <4>2 DEF Call
    <3>4. CASE ~\E c \in Callers : Call(c)
      BY <3>2, <3>4, ReportGrows DEF ReportInv
    <3> QED BY <3>3, <3>4
  <2> QED BY <1>0, <1>g, <2>1, <2>2 DEF ReportWorker
<1>2. CASE WorkerStep(v)
  <2>1. CASE Pop(v) \/ Sleep(v) \/ Exit(v) \/ Activate(v) \/ Complete(v)
    <3>1. /\ wpc[v] \in {"idle", "popped", "complete"}
          /\ wpc'[v] \in {"popped", "asleep", "exited", "run", "idle"}
      BY <1>t, <2>1, WorkerMoves DEF Moves
    <3>2. threw'[v] = threw[v]
      BY <2>1 DEF Pop, Sleep, Exit, Activate, Complete
    <3> QED BY <1>0, <3>1, <3>2 DEF ReportWorker
  <2>2. CASE RunIndex(v)
    <3>1. /\ wpc'[v] \in {"run", "nested"} /\ UNCHANGED <<task, dropped>>
      BY <1>t, <2>2 DEF RunIndex, poolVars
    <3>2. threw'[v] => threw[v] \/ task[v].owner \in raised'
      BY <1>t, <2>2 DEF RunIndex
    <3>3. raised \subseteq raised'
      BY <2>2 DEF RunIndex
    <3> QED BY <1>0, <3>1, <3>2, <3>3 DEF ReportWorker
  <2>3. CASE NestedInline(v)
    <3>1. /\ wpc'[v] = "inline" /\ UNCHANGED <<task, dropped>>
      BY <1>t, <2>3 DEF NestedInline
    <3>2. threw'[v] => threw[v] \/ task[v].owner \in raised'
      BY <1>t, <2>3 DEF NestedInline
    <3>3. raised \subseteq raised'
      BY <2>3 DEF NestedInline
    <3> QED BY <1>0, <3>1, <3>2, <3>3 DEF ReportWorker
  <2>4. CASE NestedRefused(v)
    <3>1. /\ wpc'[v] = "run" /\ UNCHANGED <<task, dropped>> /\ receiptError
      BY <1>t, <2>4 DEF NestedRefused, poolVars
    <3> QED BY <1>g, <3>1 DEF ReportWorker
  <2>5. CASE InlineReceipt(v)
    <3>1. wpc[v] = "inline" /\ wpc'[v] = "run" /\ UNCHANGED <<task, raised>>
      BY <1>t, <2>5 DEF InlineReceipt, ghostVars
    <3>2. threw'[v] => threw[v] \/ receipts = MaxReceipts
      BY <1>t, <2>5 DEF InlineReceipt
    <3>3. receipts = MaxReceipts => dropped' > 0
      BY <1>t, <2>5 DEF InlineReceipt, RecordReceipt
    <3> QED BY <1>0, <1>g, <3>1, <3>2, <3>3 DEF ReportWorker
  <2>6. CASE FinishRun(v)
    <3>1. wpc'[v] = "receipt"
      BY <1>t, <2>6, WorkerMoves DEF Moves
    <3>2. ~threw'[v]
      BY <1>t, <2>6 DEF FinishRun
    <3> QED BY <3>1, <3>2 DEF ReportWorker
  <2>7. CASE Receipt(v)
    <3>1. wpc[v] = "receipt" /\ threw'[v] = threw[v]
      BY <2>7 DEF Receipt
    <3>2. lost'[v] => receipts = MaxReceipts
      BY <1>t, <2>7 DEF Receipt
    <3>3. receipts = MaxReceipts => dropped' > 0
      BY <1>t, <2>7 DEF Receipt, RecordReceipt
    <3> QED BY <1>0, <3>1, <3>2, <3>3 DEF ReportWorker
  <2>8. CASE StepDown(v)
    <3>1. /\ wpc[v] = "down" /\ threw'[v] = threw[v] /\ lost'[v] = lost[v]
          /\ UNCHANGED dropped
      BY <2>8 DEF StepDown
    <3> QED BY <1>0, <3>1 DEF ReportWorker
  <2> QED BY <1>2, <2>1, <2>2, <2>3, <2>4, <2>5, <2>6, <2>7, <2>8 DEF WorkerStep
<1> QED BY <1>1, <1>2

(* What a caller may blame besides its own indices.                        *)
Excused == stopping \/ dropped > 0

(* A caller nothing happened to.                                           *)
LEMMA ReportFrame ==
  ASSUME NEW c \in Callers, ReportCaller(c), Excused => Excused',
         InPool(c)' = InPool(c), Entering(c)' = Entering(c),
         failed'[c] = failed[c], outcome'[c] = outcome[c],
         (c \in raised') = (c \in raised), Thrown(c) => Thrown(c)'
  PROVE  ReportCaller(c)'
<1>1. /\ InCall(c) <=> InPool(c) \/ Entering(c)
      /\ InCall(c)' <=> InPool(c)' \/ Entering(c)'
  BY DEF InCall, InPool, Entering
<1>2. Truthful(c)'
  BY DEF ReportCaller, Truthful, Excused
<1> QED BY <1>1, <1>2 DEF ReportCaller, Entering, Excused

LEMMA ReportCallerStep ==
  ASSUME PoolType, PoolType', ChunkInv, ReportInv, [Next]_vars, NEW c \in Callers
  PROVE  ReportCaller(c)'
<1>t. /\ pc \in [Callers -> CallerStates] /\ failed \in [Callers -> BOOLEAN]
      /\ outcome \in [Callers -> Outcomes] /\ threw \in [Workers -> BOOLEAN]
      /\ task \in [Workers -> TaskSet \cup {NoTask}] /\ dropped \in Nat
  BY DEF PoolType, CallerVarsType, WorkerVarsType, CounterType
<1>g. /\ stopping => stopping'
      /\ dropped > 0 => dropped' > 0
      /\ receiptError => dropped > 0
  BY ReportGrows DEF ReportInv
<1>x. Excused => Excused'
  BY <1>g DEF Excused
<1>0. ReportCaller(c)
  BY DEF ReportInv
<1>c. /\ InCall(c) <=> InPool(c) \/ Entering(c)
      /\ InCall(c)' <=> InPool(c)' \/ Entering(c)'
  BY DEF InCall, InPool, Entering
<1>u. UNCHANGED <<threw, task>> => Thrown(c)' = Thrown(c)
  BY DEF Thrown
<1>p. ASSUME NEW d \in Callers, d # c, NEW x, pc' = [pc EXCEPT ![d] = x]
      PROVE  InPool(c)' = InPool(c) /\ Entering(c)' = Entering(c)
  BY <1>t, <1>p DEF InPool, Entering
<1>e. ASSUME NEW d \in Callers, NEW r, NEW n, End(d, r, n)
      PROVE  /\ \E x : pc' = [pc EXCEPT ![d] = x]
             /\ outcome' = [outcome EXCEPT ![d] = r]
  BY <1>e DEF End
<1> USE DEF poolVars, callerVars, workerVars, ghostVars
<1>1. ASSUME NEW d \in Callers, CallerStep(d), d # c PROVE ReportCaller(c)'
  <2>1. InPool(c)' = InPool(c) /\ Entering(c)' = Entering(c)
    <3>1. UNCHANGED pc \/ \E x : pc' = [pc EXCEPT ![d] = x]
      BY <1>1, <1>e DEF CallerStep, Call, AwaitSpace, Enqueue, Reject,
         NotifyReady, Return, FoundIdle, FoundBusy, Block, Consume,
         ConsumeRefused
    <3> QED BY <1>1, <1>p, <3>1 DEF InPool, Entering
  <2>2. failed'[c] = failed[c]
    <3>1. UNCHANGED failed \/ \E x : failed' = [failed EXCEPT ![d] = x]
      BY <1>1 DEF CallerStep, Call, AwaitSpace, Enqueue, Reject,
         NotifyReady, Return, FoundIdle, FoundBusy, Block, Consume,
         ConsumeRefused
    <3> QED BY <1>t, <1>1, <3>1
  <2>3. outcome'[c] = outcome[c]
    <3>1. UNCHANGED outcome \/ \E x : outcome' = [outcome EXCEPT ![d] = x]
      BY <1>1, <1>e DEF CallerStep, Call, AwaitSpace, Enqueue, Reject,
         NotifyReady, Return, FoundIdle, FoundBusy, Block, Consume,
         ConsumeRefused
    <3> QED BY <1>t, <1>1, <3>1
  <2>4. /\ UNCHANGED <<threw, task>>
        /\ UNCHANGED raised \/ raised' = raised \ {d}
    BY <1>1 DEF CallerStep, Call, AwaitSpace, Enqueue, Reject,
       NotifyReady, Return, FoundIdle, FoundBusy, Block, Consume,
       ConsumeRefused
  <2> QED BY <1>0, <1>1, <1>x, <1>u, <2>1, <2>2, <2>3, <2>4, ReportFrame
<1>2. CASE CallerStep(c)
  <2>1. CASE Call(c)
    <3>1. ~InPool(c)' /\ outcome'[c] \in {"none", "refused"}
      BY <1>t, <2>1 DEF Call, InPool
    <3>2. Entering(c)' => outcome'[c] = "none" /\ ~failed'[c] /\ c \notin raised'
      BY <1>t, <2>1 DEF Call, Entering
    <3> QED BY <1>c, <3>1, <3>2 DEF ReportCaller, Truthful, Entering
  <2>2. CASE Enqueue(c)
    <3>1. /\ Entering(c) /\ ~Entering(c)' /\ InPool(c)'
          /\ UNCHANGED <<failed, outcome, raised>>
      BY <1>t, <2>2 DEF Enqueue, InPool, Entering
    <3> QED BY <1>0, <1>c, <3>1 DEF ReportCaller, Truthful, Entering
  <2>3. CASE Reject(c)
    <3>1. /\ Entering(c) /\ ~Entering(c)' /\ InPool(c)' /\ failed'[c]
          /\ stopping' /\ UNCHANGED <<outcome, raised>>
      BY <1>t, <2>3 DEF Reject, InPool, Entering
    <3> QED BY <1>0, <1>c, <3>1 DEF ReportCaller, Truthful, Entering
  <2>4. CASE Return(c)
    <3>1. /\ pc[c] = "wait" /\ remaining[c] = 0
          /\ UNCHANGED <<raised, stopping, dropped>>
      BY <2>4 DEF Return
    <3>2. InPool(c) /\ ~Thrown(c)
      <4>1. InPool(c)
        BY <3>1 DEF InPool
      <4>2. Outstanding(c) = {}
        BY <3>1, <4>1, OutstandingFinite DEF ChunkInv
      <4> QED BY <4>1, <4>2, ThrownLive
    <3>3. ~InPool(c)' /\ ~Entering(c)'
      <4>1. \E x \in {"start", "done", "consume", "idle"} : pc' = [pc EXCEPT ![c] = x]
        BY <2>4, PoolAssumption DEF Return, End
      <4> QED BY <1>t, <4>1 DEF InPool, Entering
    <3>4. CASE failed[c] \/ receiptError
      <4>1. outcome'[c] = "raised"
        BY <1>t, <2>4, <3>4 DEF Return, End
      <4> QED BY <1>0, <1>c, <1>g, <3>1, <3>2, <3>3, <3>4, <4>1
              DEF ReportCaller, Truthful, Entering
    <3>5. CASE ~(failed[c] \/ receiptError)
      <4>1. outcome'[c] = "ok"
        BY <1>t, <2>4, <3>5 DEF Return, End
      <4>2. c \notin raised
        BY <1>0, <3>2, <3>5 DEF ReportCaller
      <4> QED BY <1>c, <3>1, <3>3, <4>1, <4>2 DEF ReportCaller, Truthful, Entering
    <3> QED BY <3>4, <3>5
  <2>5. CASE FoundIdle(c) \/ Consume(c) \/ ConsumeRefused(c)
    <3>1. ~InPool(c)' /\ ~Entering(c)'
      <4>1. \E x \in {"start", "done", "consume"} : pc' = [pc EXCEPT ![c] = x]
        BY <2>5 DEF FoundIdle, Consume, ConsumeRefused, End
      <4> QED BY <1>t, <4>1 DEF InPool, Entering
    <3>2. \/ outcome'[c] = outcome[c]
          \/ outcome'[c] \in {"consumed", "busy"}
          \/ outcome'[c] = "raised" /\ receiptError
      BY <1>t, <2>5 DEF FoundIdle, Consume, ConsumeRefused, End
    <3>3. UNCHANGED <<raised, stopping, dropped>>
      BY <2>5 DEF FoundIdle, Consume, ConsumeRefused
    <3>4. Truthful(c)
      BY <1>0 DEF ReportCaller
    <3>5. Truthful(c)'
      BY <1>g, <3>2, <3>3, <3>4 DEF Truthful
    <3> QED BY <1>c, <3>1, <3>5 DEF ReportCaller, Entering
  <2>6. CASE AwaitSpace(c) \/ NotifyReady(c) \/ FoundBusy(c) \/ Block(c)
    <3>1. InPool(c)' = InPool(c) /\ Entering(c)' = Entering(c)
      BY <1>t, <2>6 DEF AwaitSpace, NotifyReady, FoundBusy, Block, InPool, Entering
    <3>2. UNCHANGED <<failed, outcome, raised, threw, task>>
      BY <2>6 DEF AwaitSpace, NotifyReady, FoundBusy, Block
    <3> QED BY <1>0, <1>x, <1>u, <3>1, <3>2, ReportFrame
  <2> QED BY <1>2, <2>1, <2>2, <2>3, <2>4, <2>5, <2>6 DEF CallerStep
<1>3. CASE Stop \/ NotifyStop \/ Join \/ AtRest \/ UNCHANGED vars
  <2>1. UNCHANGED <<failed, outcome, raised, threw, task>>
    BY <1>3 DEF Stop, NotifyStop, Join, AtRest, vars
  <2>2. InPool(c)' = InPool(c) /\ Entering(c)' = Entering(c)
    BY <1>3, <1>t DEF Stop, NotifyStop, Join, AtRest, vars, InPool, Entering
  <2> QED BY <1>0, <1>x, <1>u, <2>1, <2>2, ReportFrame
<1>4. ASSUME NEW w \in Workers, WorkerStep(w) PROVE ReportCaller(c)'
  <2>1. InPool(c)' = InPool(c) /\ Entering(c)' = Entering(c) /\ UNCHANGED outcome
    <3>1. CASE Pop(w)
      BY <1>t, <3>1 DEF Pop, NotifySpace, InPool, Entering
    <3>2. CASE StepDown(w)
      BY <1>t, <3>2 DEF StepDown, InPool, Entering
    <3>3. CASE ~Pop(w) /\ ~StepDown(w)
      <4>1. UNCHANGED <<pc, outcome>>
        BY <1>4, <3>3 DEF WorkerStep, Sleep, Exit, Activate, RunIndex,
           NestedInline, NestedRefused, InlineReceipt, FinishRun, Receipt,
           Complete
      <4> QED BY <4>1 DEF InPool, Entering
    <3> QED BY <3>1, <3>2, <3>3
  <2>w. ReportWorker(w)
    BY DEF ReportInv
  <2>2. CASE Pop(w)
    <3>1. UNCHANGED <<failed, raised, threw>> /\ ~threw[w]
      BY <2>w, <2>2 DEF Pop, ReportWorker
    <3>2. \A v \in Workers \ {w} : task'[v] = task[v]
      BY <1>t, <2>2 DEF Pop
    <3>3. Thrown(c) => Thrown(c)'
      BY <3>1, <3>2 DEF Thrown
    <3> QED BY <1>0, <1>x, <2>1, <3>1, <3>3, ReportFrame
  <2>3. CASE Sleep(w) \/ Exit(w) \/ Activate(w) \/ Receipt(w) \/ StepDown(w)
    <3>1. UNCHANGED <<failed, raised, threw, task>>
      BY <2>3 DEF Sleep, Exit, Activate, Receipt, StepDown
    <3> QED BY <1>0, <1>x, <1>u, <2>1, <3>1, ReportFrame
  <2>4. CASE NestedRefused(w) \/ InlineReceipt(w)
    <3>1. UNCHANGED <<failed, raised, task>>
      BY <2>4 DEF NestedRefused, InlineReceipt
    <3>2. \A v \in Workers : threw[v] => threw'[v]
      BY <1>t, <2>4 DEF NestedRefused, InlineReceipt
    <3>3. Thrown(c) => Thrown(c)'
      BY <3>1, <3>2 DEF Thrown
    <3> QED BY <1>0, <1>x, <2>1, <3>1, <3>3, ReportFrame
  <2>5. CASE RunIndex(w) \/ NestedInline(w)
    <3>1. UNCHANGED <<failed, task, stopping, dropped>>
      BY <2>5 DEF RunIndex, NestedInline
    <3>2. \A v \in Workers : threw[v] => threw'[v]
      BY <1>t, <2>5 DEF RunIndex, NestedInline
    <3>3. Thrown(c) => Thrown(c)'
      BY <3>1, <3>2 DEF Thrown
    <3>4. CASE c \in raised' <=> c \in raised
      BY <1>0, <1>x, <2>1, <3>1, <3>3, <3>4, ReportFrame
    <3>5. CASE ~(c \in raised' <=> c \in raised)
      <4>1. /\ task[w].owner = c /\ threw'[w] /\ c \in raised'
            /\ wpc[w] \in {"run", "nested"}
        BY <1>t, <2>5, <3>5 DEF RunIndex, NestedInline
      <4>2. InPool(c)
        <5>1. w \in Holders
          BY <4>1 DEF Holders, Holding, Active
        <5>2. task[w] \in Live
          BY <5>1 DEF Live
        <5> QED BY <4>1, <5>2 DEF ChunkInv
      <4>3. Thrown(c)'
        BY <3>1, <4>1 DEF Thrown
      <4>4. outcome[c] = "none" /\ ~Entering(c)
        BY <1>0, <1>c, <4>2 DEF ReportCaller, Entering, InPool
      <4> QED BY <1>c, <2>1, <4>1, <4>2, <4>3, <4>4
              DEF ReportCaller, Truthful, Entering
    <3> QED BY <3>4, <3>5
  <2>6. CASE FinishRun(w)
    <3>1. /\ wpc[w] = "run"
          /\ failed' = [failed EXCEPT ![task[w].owner] = @ \/ threw[w]]
          /\ threw' = [threw EXCEPT ![w] = FALSE]
          /\ UNCHANGED <<raised, task, stopping, dropped>>
      BY <2>6 DEF FinishRun
    <3>2. CASE task[w].owner = c
      <4>1. failed'[c] <=> failed[c] \/ threw[w]
        BY <1>t, <3>1, <3>2
      <4>2. InPool(c) /\ outcome[c] = "none" /\ ~Entering(c)
        <5>1. w \in Holders
          BY <3>1 DEF Holders, Holding, Active
        <5>2. task[w] \in Live
          BY <5>1 DEF Live
        <5>3. InPool(c)
          BY <3>2, <5>2 DEF ChunkInv
        <5> QED BY <1>0, <1>c, <5>3 DEF ReportCaller, Entering, InPool
      <4>3. Thrown(c) => Thrown(c)' \/ threw[w]
        BY <1>t, <3>1 DEF Thrown
      <4>4. failed'[c] => c \in raised \/ stopping \/ dropped > 0
        BY <1>0, <2>w, <3>2, <4>1, <4>2 DEF ReportCaller, ReportWorker
      <4>5. c \in raised => failed'[c] \/ Thrown(c)'
        BY <1>0, <4>1, <4>2, <4>3 DEF ReportCaller
      <4> QED BY <1>c, <2>1, <3>1, <4>2, <4>4, <4>5
              DEF ReportCaller, Truthful, Entering
    <3>3. CASE task[w].owner # c
      <4>1. failed'[c] = failed[c]
        BY <1>t, <3>1, <3>3
      <4>2. Thrown(c) => Thrown(c)'
        BY <1>t, <3>1, <3>3 DEF Thrown
      <4> QED BY <1>0, <1>x, <2>1, <3>1, <4>1, <4>2, ReportFrame
    <3> QED BY <3>2, <3>3
  <2>7. CASE Complete(w)
    <3>1. /\ wpc[w] = "complete"
          /\ failed' = [failed EXCEPT ![task[w].owner] = @ \/ lost[w]]
          /\ UNCHANGED <<raised, task, threw, stopping, dropped>>
      BY <2>7 DEF Complete
    <3>2. failed'[c] => failed[c] \/ dropped > 0
      BY <1>t, <2>w, <3>1 DEF ReportWorker
    <3>3. failed[c] => failed'[c]
      BY <1>t, <3>1
    <3>4. CASE task[w].owner = c
      <4>1. w \in Holders
        BY <3>1 DEF Holders, Holding
      <4>2. task[w] \in Live
        BY <4>1 DEF Live
      <4>3. InPool(c)
        BY <3>4, <4>2 DEF ChunkInv
      <4>4. outcome[c] = "none" /\ ~Entering(c)
        BY <1>0, <1>c, <4>3 DEF ReportCaller, Entering, InPool
      <4> QED BY <1>0, <1>c, <1>u, <2>1, <3>1, <3>2, <3>3, <4>3, <4>4
              DEF ReportCaller, Truthful, Entering
    <3>5. CASE task[w].owner # c
      <4>1. failed'[c] = failed[c]
        BY <1>t, <3>1, <3>5
      <4> QED BY <1>0, <1>x, <1>u, <2>1, <3>1, <4>1, ReportFrame
    <3> QED BY <3>4, <3>5
  <2> QED BY <1>4, <2>2, <2>3, <2>4, <2>5, <2>6, <2>7 DEF WorkerStep
<1> QED BY <1>1, <1>2, <1>3, <1>4 DEF Next

LEMMA ReportStep ==
  ASSUME PoolType, PoolType', ChunkInv, ReportInv, [Next]_vars
  PROVE  ReportInv'
<1>1. receiptError' => dropped' > 0
  BY ReportGrows DEF ReportInv
<1> QED BY <1>1, ReportWorkerStep, ReportCallerStep DEF ReportInv

-----------------------------------------------------------------------------
(* What the counters count *)

LEMMA AtFinite ==
  ASSUME NEW S
  PROVE  IsFiniteSet(At(S)) /\ Cardinality(At(S)) \in Nat
<1>1. IsFiniteSet(At(S))
  BY PoolAssumption, FS_Subset DEF At
<1> QED BY <1>1, FS_CardinalityType

LEMMA AtMoves ==
  ASSUME PoolType, NEW w \in Workers, NEW a, NEW b, Moves(w, a, b), NEW S
  PROVE  Cardinality(At(S)') = Cardinality(At(S))
           + (IF b \in S THEN 1 ELSE 0) - (IF a \in S THEN 1 ELSE 0)
<1>1. /\ wpc \in [Workers -> WorkerStates] /\ wpc[w] = a
      /\ wpc' = [wpc EXCEPT ![w] = b]
  BY DEF PoolType, WorkerVarsType, Moves
<1> DEFINE A == At(S)
<1>2. IsFiniteSet(A) /\ Cardinality(A) \in Nat
  BY AtFinite
<1>3. (w \in A) = (a \in S)
  BY <1>1 DEF At
<1>4. At(S)' = IF b \in S THEN A \cup {w} ELSE A \ {w}
  BY <1>1 DEF At
<1> HIDE DEF A
<1>5. Cardinality(A \cup {w}) = IF w \in A THEN Cardinality(A) ELSE Cardinality(A) + 1
  BY <1>2, FS_AddElement
<1>6. Cardinality(A \ {w}) = IF w \in A THEN Cardinality(A) - 1 ELSE Cardinality(A)
  BY <1>2, FS_RemoveElement
<1>7. Cardinality(At(S)') = Cardinality(A)
        + (IF b \in S THEN 1 ELSE 0) - (IF a \in S THEN 1 ELSE 0)
  BY <1>2, <1>3, <1>4, <1>5, <1>6
<1> QED BY <1>7 DEF A

Settling == {"inline", "receipt"}

LEMMA CountersInit == Init => CountInv
<1> SUFFICES ASSUME Init PROVE CountInv
  OBVIOUS
<1>1. At(Active) = {} /\ At({"inline", "receipt"}) = {}
  BY DEF Init, At, Active
<1>2. Cardinality(At(Active)) = 0 /\ Cardinality(At({"inline", "receipt"})) = 0
  BY <1>1, FS_EmptySet
<1>3. active = 0 /\ completed = 0 /\ consumed = 0 /\ receipts = 0 /\ dropped = 0
  BY DEF Init
<1> QED BY <1>2, <1>3 DEF CountInv

LEMMA CountersStep ==
  ASSUME PoolType, PoolType', CountInv, [Next]_vars
  PROVE  CountInv'
<1> DEFINE A == Cardinality(At(Active))  B == Cardinality(At(Settling))
           A2 == Cardinality(At(Active)')  B2 == Cardinality(At(Settling)')
<1>t. /\ receipts \in Int /\ active \in Int /\ completed \in Int
      /\ dropped \in Int /\ consumed \in Int /\ MaxReceipts \in Int
  BY PoolAssumption DEF PoolType, CounterType
<1>n. A \in Nat /\ B \in Nat
  BY AtFinite
<1>i. active = A /\ completed = consumed + receipts + dropped + B
  BY DEF CountInv, Settling
<1>g. CountInv' = (/\ active' = A2
                   /\ completed' = consumed' + receipts' + dropped' + B2)
  BY DEF CountInv, Settling
<1>m. ASSUME NEW w \in Workers, NEW a, NEW b, Moves(w, a, b)
      PROVE  /\ A2 = A + (IF b \in Active THEN 1 ELSE 0)
                       - (IF a \in Active THEN 1 ELSE 0)
             /\ B2 = B + (IF b \in Settling THEN 1 ELSE 0)
                       - (IF a \in Settling THEN 1 ELSE 0)
  BY <1>m, AtMoves
<1>r. ASSUME RecordReceipt PROVE receipts' + dropped' = receipts + dropped + 1
  BY <1>r, <1>t DEF RecordReceipt
<1>w. ASSUME wpc' = [w \in Workers |-> IF wpc[w] = "asleep" THEN "idle" ELSE wpc[w]]
      PROVE  A2 = A /\ B2 = B
  <2>1. \A v \in Workers : /\ wpc'[v] \in Active <=> wpc[v] \in Active
                           /\ wpc'[v] \in Settling <=> wpc[v] \in Settling
    BY <1>w DEF Active, Settling
  <2>2. At(Active)' = At(Active) /\ At(Settling)' = At(Settling)
    BY <2>1 DEF At
  <2> QED BY <2>2
<1>u. ASSUME UNCHANGED wpc PROVE A2 = A /\ B2 = B
  <2>1. At(Active)' = At(Active) /\ At(Settling)' = At(Settling)
    BY <1>u DEF At
  <2> QED BY <2>1
<1> HIDE DEF A, B, A2, B2
<1>1. ASSUME NEW c \in Callers, CallerStep(c) PROVE CountInv'
  <2>1. /\ UNCHANGED wpc \/ wpc' = [w \in Workers |-> IF wpc[w] = "asleep"
                                                      THEN "idle" ELSE wpc[w]]
        /\ UNCHANGED <<active, completed, dropped>>
        /\ \/ UNCHANGED <<consumed, receipts>>
           \/ consumed' = consumed + receipts /\ receipts' = 0
    BY <1>1 DEF CallerStep, Call, AwaitSpace, Enqueue, Reject, NotifyReady,
       Return, FoundIdle, FoundBusy, Block, Consume, ConsumeRefused,
       poolVars, workerVars, ghostVars
  <2>2. A2 = A /\ B2 = B
    BY <2>1, <1>w, <1>u
  <2> QED BY <2>1, <2>2, <1>t, <1>n, <1>i, <1>g
<1>2. CASE Stop \/ NotifyStop \/ Join \/ AtRest \/ UNCHANGED vars
  <2>1. /\ UNCHANGED wpc \/ wpc' = [w \in Workers |-> IF wpc[w] = "asleep"
                                                      THEN "idle" ELSE wpc[w]]
        /\ UNCHANGED <<active, completed, dropped, consumed, receipts>>
    BY <1>2 DEF Stop, NotifyStop, Join, AtRest, vars, poolVars, workerVars, ghostVars
  <2>2. A2 = A /\ B2 = B
    BY <2>1, <1>w, <1>u
  <2> QED BY <2>1, <2>2, <1>i, <1>g
<1>3. ASSUME NEW w \in Workers, WorkerStep(w) PROVE CountInv'
  <2> USE DEF poolVars, ghostVars
  <2>1. CASE Pop(w) \/ Sleep(w) \/ Exit(w) \/ RunIndex(w) \/ NestedRefused(w)
             \/ Complete(w)
    <3>1. UNCHANGED <<active, completed, dropped, consumed, receipts>>
      BY <2>1 DEF Pop, Sleep, Exit, RunIndex, NestedRefused, Complete
    <3>2. \E a, b : /\ Moves(w, a, b)
                    /\ a \in Active <=> b \in Active
                    /\ a \notin Settling /\ b \notin Settling
      BY <2>1, WorkerMoves DEF Active, Settling
    <3>3. A2 = A /\ B2 = B
      BY <1>n, <1>m, <3>2
    <3> QED BY <3>1, <3>3, <1>i, <1>g
  <2>2. CASE Activate(w)
    <3>1. A2 = A + 1 /\ B2 = B
      BY <1>n, <1>m, <2>2, WorkerMoves DEF Active, Settling
    <3>2. UNCHANGED <<completed, dropped, consumed, receipts>> /\ active' = active + 1
      BY <2>2 DEF Activate
    <3> QED BY <3>1, <3>2, <1>i, <1>g
  <2>3. CASE NestedInline(w)
    <3>1. A2 = A /\ B2 = B + 1
      BY <1>n, <1>m, <2>3, WorkerMoves DEF Active, Settling
    <3>2. UNCHANGED <<active, dropped, consumed, receipts>> /\ completed' = completed + 1
      BY <2>3 DEF NestedInline
    <3> QED BY <3>1, <3>2, <1>t, <1>n, <1>i, <1>g
  <2>4. CASE FinishRun(w)
    <3>1. A2 = A /\ B2 = B + 1
      BY <1>n, <1>m, <2>4, WorkerMoves DEF Active, Settling
    <3>2. UNCHANGED <<active, dropped, consumed, receipts>> /\ completed' = completed + 1
      BY <2>4 DEF FinishRun
    <3> QED BY <3>1, <3>2, <1>t, <1>n, <1>i, <1>g
  <2>5. CASE InlineReceipt(w) \/ Receipt(w)
    <3>1. A2 = A /\ B2 = B - 1
      BY <1>n, <1>m, <2>5, WorkerMoves DEF Active, Settling
    <3>2. RecordReceipt /\ UNCHANGED <<active, completed, consumed>>
      BY <2>5 DEF InlineReceipt, Receipt
    <3>3. receipts' + dropped' = receipts + dropped + 1
      BY <1>r, <3>2
    <3>4. receipts' \in Int /\ dropped' \in Int
      BY PoolAssumption DEF PoolType, CounterType
    <3>5. completed' = completed /\ consumed' = consumed /\ active' = active
      BY <3>2
    <3>6. completed' = consumed' + receipts' + dropped' + B2
      <4>1. completed = consumed + (receipts + dropped) + B
        BY <1>t, <1>n, <1>i
      <4>2. completed = consumed + (receipts' + dropped') + B2
        BY <4>1, <3>1, <3>3, <1>t, <1>n
      <4> QED BY <4>2, <3>4, <3>5, <3>1, <1>t, <1>n
    <3> QED BY <3>1, <3>5, <3>6, <1>i, <1>g
  <2>6. CASE StepDown(w)
    <3>1. A2 = A - 1 /\ B2 = B
      BY <1>n, <1>m, <2>6, WorkerMoves DEF Active, Settling
    <3>2. UNCHANGED <<completed, dropped, consumed, receipts>> /\ active' = active - 1
      BY <2>6 DEF StepDown
    <3> QED BY <3>1, <3>2, <1>i, <1>g
  <2> QED BY <1>3, <2>1, <2>2, <2>3, <2>4, <2>5, <2>6 DEF WorkerStep
<1> QED BY <1>1, <1>2, <1>3 DEF Next

-----------------------------------------------------------------------------
(* The end of the pool *)

LEMMA StopStep ==
  ASSUME PoolType, PoolType', StopInv, [Next]_vars
  PROVE  StopInv'
<1>t. wpc \in [Workers -> WorkerStates]
  BY DEF PoolType, WorkerVarsType
<1>i. /\ destructor # "live" => stopping
      /\ \A w \in Workers : wpc[w] = "exited" => tasks = <<>> /\ stopping
      /\ destructor = "joined" => \A w \in Workers : wpc[w] = "exited"
  BY DEF StopInv
<1> USE DEF poolVars, callerVars, workerVars
<1>1. ASSUME NEW c \in Callers, CallerStep(c) PROVE StopInv'
  <2>1. /\ UNCHANGED wpc \/ wpc' = [w \in Workers |-> IF wpc[w] = "asleep"
                                                      THEN "idle" ELSE wpc[w]]
        /\ UNCHANGED <<destructor, stopping>>
        /\ stopping => UNCHANGED tasks
    BY <1>1 DEF CallerStep, Call, AwaitSpace, Enqueue, Reject, NotifyReady,
       Return, FoundIdle, FoundBusy, Block, Consume, ConsumeRefused
  <2>2. \A w \in Workers : wpc'[w] = "exited" <=> wpc[w] = "exited"
    BY <2>1
  <2> QED BY <1>i, <2>1, <2>2 DEF StopInv
<1>2. CASE Stop \/ NotifyStop \/ Join \/ AtRest \/ UNCHANGED vars
  <2>1. CASE Stop
    BY <1>i, <2>1 DEF Stop, StopInv
  <2>2. CASE NotifyStop
    <3>1. \A w \in Workers : wpc'[w] = "exited" <=> wpc[w] = "exited"
      BY <2>2 DEF NotifyStop
    <3> QED BY <1>i, <2>2, <3>1 DEF NotifyStop, StopInv
  <2>3. CASE Join
    BY <1>i, <2>3 DEF Join, StopInv
  <2>4. CASE AtRest \/ UNCHANGED vars
    BY <1>i, <2>4 DEF AtRest, vars, StopInv
  <2> QED BY <1>2, <2>1, <2>2, <2>3, <2>4
<1>3. ASSUME NEW w \in Workers, WorkerStep(w) PROVE StopInv'
  <2>1. wpc[w] # "exited" /\ UNCHANGED <<destructor, stopping>>
    BY <1>3 DEF WorkerStep, Pop, Sleep, Exit, Activate, RunIndex, NestedInline,
       NestedRefused, InlineReceipt, FinishRun, Receipt, StepDown, Complete
  <2>2. \A v \in Workers \ {w} : wpc'[v] = wpc[v]
    <3>1. \E a, b : Moves(w, a, b)
      BY <1>3, WorkerMoves DEF WorkerStep
    <3> QED BY <1>t, <3>1 DEF Moves
  <2>3. wpc'[w] = "exited" => tasks = <<>> /\ stopping /\ ~Pop(w)
    <3>1. wpc'[w] = "exited" => Exit(w) /\ ~Pop(w)
      BY <1>t, <1>3, WorkerMoves DEF WorkerStep, Moves
    <3> QED BY <3>1 DEF Exit
  <2>4. tasks = <<>> => UNCHANGED tasks
    BY <1>3 DEF WorkerStep, Pop, Sleep, Exit, Activate, RunIndex, NestedInline,
       NestedRefused, InlineReceipt, FinishRun, Receipt, StepDown, Complete
  <2> QED BY <1>i, <2>1, <2>2, <2>3, <2>4 DEF StopInv
<1> QED BY <1>1, <1>2, <1>3 DEF Next

(* Outside its call a caller that is alone finds the pool empty.           *)
LEMMA AloneIdle ==
  ASSUME PoolType, ChunkInv, CountInv, NEW c \in Callers, Alone(c), ~InPool(c)
  PROVE  tasks = <<>> /\ Holders = {} /\ Idle /\ At({"inline", "receipt"}) = {}
<1>1. \A d \in Callers : ~InPool(d)
  BY DEF Alone, InPool
<1>2. Live = {}
  BY <1>1, LiveTasks DEF ChunkInv
<1>3. tasks = <<>>
  <2>1. \A j \in 1..Len(tasks) : FALSE
    BY <1>2 DEF Live, Queued
  <2>2. tasks \in Seq(TaskSet)
    BY DEF PoolType, QueueType
  <2> QED BY <2>1, <2>2, EmptySeq, LenProperties
<1>4. Holders = {}
  BY <1>2 DEF Live
<1>5. At(Active) = {} /\ At({"inline", "receipt"}) = {}
  BY <1>4 DEF At, Holders, Holding, Active
<1>6. active = 0
  BY <1>5, FS_EmptySet DEF CountInv
<1> QED BY <1>3, <1>4, <1>5, <1>6 DEF Idle

LEMMA LoneStep ==
  ASSUME PoolType, PoolType', ChunkInv, CountInv, LoneInv, [Next]_vars
  PROVE  LoneInv'
<1> SUFFICES ASSUME NEW c \in Callers, Alone(c)'
             PROVE  /\ outcome'[c] # "busy"
                    /\ outcome'[c] = "consumed" =>
                         /\ pc'[c] \in {"start", "done"}
                         /\ consumed' + dropped' = completed'
  BY DEF LoneInv
<1>t. /\ pc \in [Callers -> CallerStates] /\ outcome \in [Callers -> Outcomes]
      /\ receipts \in Int /\ completed \in Int /\ dropped \in Int
      /\ consumed \in Int
  BY PoolAssumption DEF PoolType, CallerVarsType, CounterType
<1>d. \A d \in Callers \ {c} : pc'[d] = "done" /\ outcome'[d] = "none"
  BY DEF Alone
<1> USE DEF poolVars, callerVars, workerVars, ghostVars
<1>o. ASSUME NEW d \in Callers \ {c}, CallerStep(d) PROVE FALSE
  <2>1. pc'[d] = "done" /\ outcome'[d] = "none" /\ d \in Callers
    BY <1>d
  <2>2. CASE Call(d)
    <3>1. pc'[d] = "enqueue" \/ outcome'[d] = "refused"
      BY <1>t, <2>1, <2>2 DEF Call
    <3> QED BY <2>1, <3>1
  <2>3. CASE \/ AwaitSpace(d) \/ Enqueue(d) \/ Reject(d) \/ NotifyReady(d)
             \/ FoundBusy(d) \/ Block(d)
    <3>1. \E x \in CallerStates \ {"done"} : pc' = [pc EXCEPT ![d] = x]
      BY <2>3 DEF AwaitSpace, Enqueue, Reject, NotifyReady, FoundBusy, Block,
         CallerStates
    <3> QED BY <1>t, <2>1, <3>1
  <2>4. CASE Return(d) \/ Consume(d) \/ ConsumeRefused(d)
    <3>1. \E x \in Outcomes \ {"none"} : outcome' = [outcome EXCEPT ![d] = x]
      BY <2>4 DEF Return, Consume, ConsumeRefused, End, Outcomes
    <3> QED BY <1>t, <2>1, <3>1
  <2>5. CASE FoundIdle(d)
    <3>1. \/ \E x \in Outcomes \ {"none"} : outcome' = [outcome EXCEPT ![d] = x]
          \/ pc' = [pc EXCEPT ![d] = "consume"]
      BY <2>5 DEF FoundIdle, End, Outcomes
    <3> QED BY <1>t, <2>1, <3>1
  <2> QED BY <1>o, <2>2, <2>3, <2>4, <2>5 DEF CallerStep
<1>a. Alone(c)
  <2> SUFFICES ASSUME NEW d \in Callers \ {c}
               PROVE  pc[d] = "done" /\ outcome[d] = "none"
    BY DEF Alone
  <2>1. pc'[d] = "done" /\ outcome'[d] = "none"
    BY <1>d
  <2>2. ASSUME NEW e \in Callers, CallerStep(e)
        PROVE  pc'[d] = pc[d] /\ outcome'[d] = outcome[d]
    <3>1. e = c
      BY <1>o, <2>2
    <3>2. UNCHANGED pc \/ \E x : pc' = [pc EXCEPT ![c] = x]
      BY <2>2, <3>1 DEF CallerStep, Call, AwaitSpace, Enqueue, Reject,
         NotifyReady, Return, FoundIdle, FoundBusy, Block, Consume,
         ConsumeRefused, End
    <3>3. UNCHANGED outcome \/ \E x : outcome' = [outcome EXCEPT ![c] = x]
      BY <2>2, <3>1 DEF CallerStep, Call, AwaitSpace, Enqueue, Reject,
         NotifyReady, Return, FoundIdle, FoundBusy, Block, Consume,
         ConsumeRefused, End
    <3> QED BY <1>t, <3>2, <3>3
  <2>3. ASSUME NEW w \in Workers, WorkerStep(w)
        PROVE  (pc'[d] = "done" => pc[d] = "done") /\ UNCHANGED outcome
    <3>1. CASE Pop(w)
      BY <1>t, <3>1 DEF Pop, NotifySpace
    <3>2. CASE StepDown(w)
      BY <1>t, <3>2 DEF StepDown
    <3>3. CASE ~Pop(w) /\ ~StepDown(w)
      BY <2>3, <3>3 DEF WorkerStep, Sleep, Exit, Activate, RunIndex,
         NestedInline, NestedRefused, InlineReceipt, FinishRun, Receipt, Complete
    <3> QED BY <3>1, <3>2, <3>3
  <2>4. CASE Stop \/ NotifyStop \/ Join \/ AtRest \/ UNCHANGED vars
    <3>1. (pc'[d] = "done" => pc[d] = "done") /\ UNCHANGED outcome
      BY <1>t, <2>4 DEF Stop, NotifyStop, Join, AtRest, vars
    <3> QED BY <2>1, <3>1
  <2> QED BY <2>1, <2>2, <2>3, <2>4 DEF Next
<1>i. /\ outcome[c] # "busy"
      /\ outcome[c] = "consumed" => /\ pc[c] \in {"start", "done"}
                                    /\ consumed + dropped = completed
  BY <1>a DEF LoneInv
<1>1. ASSUME CallerStep(c)
      PROVE  /\ outcome'[c] # "busy"
             /\ outcome'[c] = "consumed" =>
                  /\ pc'[c] \in {"start", "done"}
                  /\ consumed' + dropped' = completed'
  <2>1. CASE Consume(c)
    <3>1. /\ pc[c] = "consume" /\ consumed' = consumed + receipts
          /\ UNCHANGED <<dropped, completed>>
      BY <2>1 DEF Consume
    <3>2. Cardinality(At({"inline", "receipt"})) = 0
      BY <1>a, <3>1, AloneIdle, FS_EmptySet DEF InPool
    <3>3. consumed' + dropped' = completed'
      BY <1>t, <3>1, <3>2 DEF CountInv
    <3>4. outcome'[c] = "consumed" /\ pc'[c] \in {"start", "done"}
      BY <1>t, <2>1 DEF Consume, End
    <3> QED BY <3>3, <3>4
  <2>2. CASE ConsumeRefused(c)
    <3>1. Idle
      BY <1>a, <2>2, AloneIdle DEF ConsumeRefused, InPool
    <3>2. outcome'[c] = "raised"
      BY <1>t, <2>2, <3>1 DEF ConsumeRefused, End
    <3> QED BY <3>2
  <2>3. CASE Call(c)
    <3>1. outcome'[c] \in {"none", "refused"}
      BY <1>t, <2>3 DEF Call
    <3> QED BY <3>1
  <2>4. CASE Return(c)
    <3>1. outcome'[c] \in {"ok", "raised"}
      BY <1>t, <2>4 DEF Return, End
    <3> QED BY <3>1
  <2>5. CASE \/ AwaitSpace(c) \/ Enqueue(c) \/ Reject(c) \/ NotifyReady(c)
             \/ FoundIdle(c) \/ FoundBusy(c) \/ Block(c)
    <3>1. pc[c] \notin {"start", "done"}
      BY <2>5 DEF AwaitSpace, Enqueue, Reject, NotifyReady, FoundIdle,
         FoundBusy, Block
    <3>2. outcome'[c] \in {outcome[c], "raised"}
      BY <1>t, <2>5 DEF AwaitSpace, Enqueue, Reject, NotifyReady, FoundIdle,
         FoundBusy, Block, End
    <3> QED BY <1>i, <3>1, <3>2
  <2> QED BY <1>1, <2>1, <2>2, <2>3, <2>4, <2>5 DEF CallerStep
<1>2. ASSUME NEW w \in Workers, WorkerStep(w)
      PROVE  /\ outcome'[c] # "busy"
             /\ outcome'[c] = "consumed" =>
                  /\ pc'[c] \in {"start", "done"}
                  /\ consumed' + dropped' = completed'
  <2>1. UNCHANGED outcome
    BY <1>2 DEF WorkerStep, Pop, Sleep, Exit, Activate, RunIndex, NestedInline,
       NestedRefused, InlineReceipt, FinishRun, Receipt, StepDown, Complete
  <2>2. CASE outcome[c] = "consumed"
    <3>1. tasks = <<>> /\ Holders = {}
      BY <1>a, <1>i, <2>2, AloneIdle DEF InPool
    <3>2. wpc[w] \notin Holding
      BY <3>1 DEF Holders
    <3>3. Sleep(w) \/ Exit(w)
      BY <1>2, <3>1, <3>2, WorkerMoves DEF WorkerStep, Moves, Holding, Active, Pop
    <3>4. UNCHANGED <<pc, consumed, dropped, completed>>
      BY <3>3 DEF Sleep, Exit
    <3> QED BY <1>i, <2>1, <3>4
  <2> QED BY <1>i, <2>1, <2>2
<1>3. CASE Stop \/ NotifyStop \/ Join \/ AtRest \/ UNCHANGED vars
  <2>1. /\ UNCHANGED <<outcome, consumed, dropped, completed>>
        /\ pc[c] \in {"start", "done"} => pc'[c] = pc[c]
    BY <1>t, <1>3 DEF Stop, NotifyStop, Join, AtRest, vars
  <2> QED BY <1>i, <2>1
<1> QED BY <1>o, <1>1, <1>2, <1>3 DEF Next

-----------------------------------------------------------------------------
(* The theorems *)

PoolInv == /\ PoolType /\ ChunkInv /\ IndexInv /\ RunsInv
           /\ ReportInv /\ CountInv /\ StopInv /\ LoneInv

LEMMA PoolInvariant == Spec => []PoolInv
<1>1. Init => PoolInv
  <2> SUFFICES ASSUME Init PROVE PoolInv
    OBVIOUS
  <2>1. StopInv
    BY DEF Init, StopInv
  <2>2. LoneInv
    BY DEF Init, LoneInv
  <2> QED BY <2>1, <2>2, TypeInit, ChunkInit, IndexInit, RunsInit, ReportInit,
             CountersInit DEF PoolInv
<1>2. PoolInv /\ [Next]_vars => PoolInv'
  BY TypeStep, ChunkStep, IndexStep, RunsStep, ReportStep, CountersStep, StopStep,
     LoneStep DEF PoolInv
<1> QED BY <1>1, <1>2, PTL DEF Spec

(* The queue never holds more than maximum_pending_tasks_ chunks, no       *)
(* counter and no Completion::remaining goes below zero, and active_tasks_ *)
(* never exceeds the number of workers, in submit, worker_loop,            *)
(* wait_until_idle and the destructor alike.                               *)
THEOREM TypeCorrect == Spec => []TypeOK
<1>1. PoolInv => TypeOK
  <2> SUFFICES ASSUME PoolInv PROVE TypeOK
    OBVIOUS
  <2>1. active \in 0..Cardinality(Workers)
    <3>1. At(Active) \subseteq Workers /\ IsFiniteSet(Workers)
      BY PoolAssumption DEF At
    <3>2. /\ Cardinality(At(Active)) \in Nat /\ Cardinality(Workers) \in Nat
          /\ Cardinality(At(Active)) <= Cardinality(Workers)
      BY <3>1, AtFinite, FS_Subset, FS_CardinalityType
    <3> QED BY <3>2 DEF PoolInv, CountInv
  <2>2. remaining \in [Callers -> Nat]
    <3>1. \A c \in Callers : remaining[c] \in Nat
      <4> TAKE c \in Callers
      <4>1. ChunkCount(c) \in Nat /\ Cardinality(Outstanding(c)) \in Nat
        BY ChunkCountType, OutstandingFinite
      <4> QED BY <4>1 DEF PoolInv, ChunkInv
    <3>2. remaining \in [Callers -> Int]
      BY DEF PoolInv, PoolType, CallerVarsType
    <3> QED BY <3>1, <3>2
  <2>3. /\ QueueType /\ CounterType /\ FlagType /\ CallerVarsType
        /\ WorkerVarsType /\ RunsType
    BY DEF PoolInv, PoolType
  <2> QED BY <2>1, <2>2, <2>3
          DEF TypeOK, QueueType, CounterType, FlagType, CallerVarsType,
              WorkerVarsType, RunsType, CallerStates, WorkerStates, Outcomes
<1> QED BY <1>1, PoolInvariant, PTL

(* However a parallel_for is cut into chunks and whatever the workers do   *)
(* in between, no index runs twice, and when its caller stops waiting each *)
(* index has run, unless the pool was stopping and has run none of them.   *)
THEOREM EachIndexOnceTheorem == Spec => []EachIndexOnce
<1>1. PoolInv => EachIndexOnce
  <2> SUFFICES ASSUME PoolInv, NEW c \in Callers
               PROVE  /\ \A i \in 1..Count[c] : runs[c][i] <= 1
                      /\ pc[c] = "wait" /\ remaining[c] = 0 =>
                           \/ \A i \in 1..Count[c] : runs[c][i] = 1
                           \/ stopping /\ \A i \in 1..Count[c] : runs[c][i] = 0
    BY DEF EachIndexOnce
  <2>1. RunsAt(c) /\ ChunkInv
    BY DEF PoolInv, RunsInv
  <2>2. \A i \in 1..Count[c] : \E k \in 1..ChunkCount(c) :
          i \in First(c, k)..Last(c, k)
    BY ChunkPartition
  <2>3. ASSUME NEW i \in 1..Count[c] PROVE runs[c][i] <= 1
    <3>1. CASE Accepted(c)
      <4>1. PICK k \in 1..ChunkCount(c) : i \in First(c, k)..Last(c, k)
        BY <2>2
      <4>2. runs[c][i] \in {0, 1}
        BY <3>1, <4>1 DEF Accepted, Live
      <4> QED BY <4>2
    <3>2. CASE Rejected(c)
      BY <3>2 DEF Rejected
    <3>3. InCall(c) <=> InPool(c) \/ pc[c] \in {"enqueue", "space"}
      BY DEF InCall, InPool
    <3>4. CASE pc[c] \in {"enqueue", "space"}
      BY <2>1, <3>4 DEF RunsAt
    <3> QED BY <2>1, <3>1, <3>2, <3>3, <3>4 DEF RunsAt
  <2>4. ASSUME pc[c] = "wait", remaining[c] = 0
        PROVE  \/ \A i \in 1..Count[c] : runs[c][i] = 1
               \/ stopping /\ \A i \in 1..Count[c] : runs[c][i] = 0
    <3>1. InPool(c)
      BY <2>4 DEF InPool
    <3>2. Outstanding(c) = {}
      BY <2>1, <2>4, <3>1, OutstandingFinite DEF ChunkInv
    <3>3. \A k \in 1..ChunkCount(c) : Task(c, k) \notin Live
      BY <3>2 DEF Outstanding
    <3>4. Accepted(c) => \A i \in 1..Count[c] : runs[c][i] = 1
      BY <2>2, <3>3 DEF Accepted
    <3> QED BY <2>1, <3>1, <3>4 DEF RunsAt, Rejected
  <2> QED BY <2>3, <2>4
<1> QED BY <1>1, PoolInvariant, PTL

(* When a caller has left parallel_for no chunk of it is queued and no     *)
(* worker is inside one: the function and the Completion on the caller's   *)
(* stack are not used after their scope.                                   *)
THEOREM NoneLeftBehindTheorem == Spec => []NoneLeftBehind
<1>1. PoolInv => NoneLeftBehind
  <2> SUFFICES ASSUME PoolInv, NEW c \in Callers, ~InCall(c)
               PROVE  /\ \A k \in 1..Len(tasks) : tasks[k].owner # c
                      /\ \A w \in Workers : task[w].owner = c =>
                           wpc[w] \in {"idle", "asleep", "exited"}
    BY DEF NoneLeftBehind
  <2>1. \A t \in Live : t.owner # c
    BY DEF PoolInv, ChunkInv, InCall, InPool
  <2>2. \A k \in 1..Len(tasks) : tasks[k].owner # c
    BY <2>1 DEF Live, Queued
  <2>3. ASSUME NEW w \in Workers, task[w].owner = c
        PROVE  wpc[w] \in {"idle", "asleep", "exited"}
    <3>1. w \notin Holders
      BY <2>1, <2>3 DEF Live
    <3>2. wpc[w] \in WorkerStates
      BY DEF PoolInv, PoolType, WorkerVarsType
    <3> QED BY <3>1, <3>2 DEF Holders, Holding, Active, WorkerStates
  <2> QED BY <2>2, <2>3
<1> QED BY <1>1, PoolInvariant, PTL

(* What a parallel_for reports is its own: it returns normally only if     *)
(* none of its indices raised, and it raises only for an index of its own, *)
(* a pool that was stopping or a receipt the pool has lost.                *)
THEOREM TruthfulReturnTheorem == Spec => []TruthfulReturn
<1>1. PoolInv => TruthfulReturn
  BY DEF PoolInv, ReportInv, ReportCaller, Truthful, TruthfulReturn
<1> QED BY <1>1, PoolInvariant, PTL

(* A caller that is alone never finds work active when it consumes the     *)
(* receipts, and takes away the receipt of everything that has run.        *)
THEOREM LoneCallerTheorem == Spec => []LoneCallerDrains
<1>1. PoolInv => LoneCallerDrains
  BY DEF PoolInv, LoneInv, LoneCallerDrains, Alone
<1> QED BY <1>1, PoolInvariant, PTL

(* The destructor joins only workers that have drained the queue, and no   *)
(* caller that was taken in still waits for a chunk.                       *)
THEOREM StopDrainsTheorem == Spec => []StopDrains
<1>1. PoolInv => StopDrains
  <2> SUFFICES ASSUME PoolInv, destructor = "joined"
               PROVE  /\ tasks = <<>>
                      /\ \A c \in Callers : pc[c] \in {"notify", "wait"} =>
                           remaining[c] = 0
    BY DEF StopDrains
  <2>1. \A w \in Workers : wpc[w] = "exited"
    BY DEF PoolInv, StopInv
  <2>2. tasks = <<>>
    BY <2>1, PoolAssumption DEF PoolInv, StopInv
  <2>3. Holders = {}
    BY <2>1 DEF Holders, Holding, Active
  <2>4. Queued = {}
    <3>1. Len(tasks) = 0
      BY <2>2
    <3> QED BY <3>1 DEF Queued
  <2>5. \A c \in Callers : Outstanding(c) = {}
    BY <2>3, <2>4 DEF Live, Outstanding
  <2>6. ASSUME NEW c \in Callers, pc[c] \in {"notify", "wait"}
        PROVE  remaining[c] = 0
    BY <2>5, <2>6, OutstandingFinite DEF PoolInv, ChunkInv, InPool
  <2> QED BY <2>2, <2>6
<1> QED BY <1>1, PoolInvariant, PTL

=============================================================================
