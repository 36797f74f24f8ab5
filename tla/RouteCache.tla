----------------------------- MODULE RouteCache -----------------------------
(***************************************************************************)
(* The two bounded LRU caches an EVRPTW oracle keeps per route, one of     *)
(* screening decisions and one of validation reports, as the threads that  *)
(* evaluate the candidates of a round share them.  A lookup takes the      *)
(* entry out and puts it back as the youngest; a miss computes the answer, *)
(* inserts it, then looks at the size and evicts the oldest.  Each of      *)
(* these is atomic under the interpreter's lock and nothing makes them     *)
(* atomic together.  What is cached for a route is a function of the route *)
(* alone, so only the keys are kept; the counters are left out.            *)
(***************************************************************************)
EXTENDS Integers, FiniteSets, SequencesExt

CONSTANTS
  Evaluators, \* the threads of the executor
  Capacity    \* the bound of either cache

ASSUME CacheAssumption ==
  Capacity \in Nat \ {0} /\ IsFiniteSet(Evaluators) /\ Evaluators # {}

VARIABLES
  cache,      \* cache[c]: the routes cached, oldest first
  worker      \* worker[w]: its task, the lookups ahead of it, and its step

Caches == {"screen", "report"}

NoTask == 0
IdleWorker == [task |-> NoTask, todo |-> <<>>, step |-> "idle"]

(* A key is in a dictionary once.                                          *)
Without(entries, key) ==
  RemoveAt(entries, CHOOSE i \in DOMAIN entries : entries[i] = key)

(* d[key] = value on an ordered dictionary: a present key keeps its place. *)
Put(entries, key) == IF Contains(entries, key) THEN entries ELSE Append(entries, key)

(* One whole lookup by a thread that is alone. *)
Looked(entries, key) ==
  LET held == Contains(entries, key)
      now  == Append(IF held THEN Without(entries, key) ELSE entries, key)
  IN  IF ~held /\ Len(now) > Capacity THEN Tail(now) ELSE now

(* Several lookups by a thread that is alone, one after the other. *)
LookedAll(caches, lookups) ==
  LET after[n \in 0..Len(lookups)] ==
        IF n = 0 THEN caches
        ELSE [after[n - 1] EXCEPT ![lookups[n].cache] = Looked(@, lookups[n].key)]
  IN  after[Len(lookups)]

CacheInit ==
  /\ cache = [c \in Caches |-> <<>>]
  /\ worker = [w \in Evaluators |-> IdleWorker]

At(w, step) == worker[w].step = step /\ worker[w].todo # <<>>
Lookup(w) == Head(worker[w].todo)
Goto(w, step) == worker' = [worker EXCEPT ![w].step = step]
Resolved(w) == worker' = [worker EXCEPT ![w].step = "ask", ![w].todo = Tail(@)]

(* entries.pop(route): a hit takes the entry away until it is put back. *)
Pop(w) ==
  /\ At(w, "ask")
  /\ LET l == Lookup(w) IN
     IF Contains(cache[l.cache], l.key)
     THEN cache' = [cache EXCEPT ![l.cache] = Without(@, l.key)] /\ Goto(w, "hit")
     ELSE UNCHANGED cache /\ Goto(w, "miss")

(* The else branch of the lookup: no size is checked here. *)
PutBack(w) ==
  /\ At(w, "hit")
  /\ cache' = [cache EXCEPT ![Lookup(w).cache] = Put(@, Lookup(w).key)]
  /\ Resolved(w)

Insert(w) ==
  /\ At(w, "miss")
  /\ cache' = [cache EXCEPT ![Lookup(w).cache] = Put(@, Lookup(w).key)]
  /\ Goto(w, "check")

(* Mutant: an entry is evicted only when the cache is one over its bound. *)
CheckOneOver(w) ==
  /\ At(w, "check")
  /\ IF Len(cache[Lookup(w).cache]) = Capacity + 1 THEN Goto(w, "evict") ELSE Resolved(w)
  /\ UNCHANGED cache

Check(w) ==
  /\ At(w, "check")
  /\ IF Len(cache[Lookup(w).cache]) > Capacity THEN Goto(w, "evict") ELSE Resolved(w)
  /\ UNCHANGED cache

(* popitem on an empty dictionary raises; see EvictsNothing. *)
Evict(w) ==
  /\ At(w, "evict") /\ cache[Lookup(w).cache] # <<>>
  /\ cache' = [cache EXCEPT ![Lookup(w).cache] = Tail(@)]
  /\ Resolved(w)

EvictsNothing(w) == At(w, "evict") /\ cache[Lookup(w).cache] = <<>>

CacheStep(w) == Pop(w) \/ PutBack(w) \/ Insert(w) \/ Check(w) \/ Evict(w)

(* A thread that looks nothing up is given a candidate, or more lookups of *)
(* the one it has, or leaves it.                                           *)
Free(w) == worker[w].step \in {"idle", "ask"} /\ worker[w].todo = <<>>
Assign(w, task, lookups) ==
  /\ Free(w)
  /\ worker' = [worker EXCEPT ![w] = [task |-> task, todo |-> lookups, step |-> "ask"]]
Leave(w) == Free(w) /\ worker' = [worker EXCEPT ![w] = IdleWorker]

CacheAtRest == \A w \in Evaluators : worker[w] = IdleWorker

(* The main thread looks up while no other does. *)
LookAlone(lookups) ==
  CacheAtRest /\ cache' = LookedAll(cache, lookups) /\ UNCHANGED worker

(* Any program whose threads look up the routes of some set.               *)
Lookups(Routes) == Seq([cache : Caches, key : Routes])
CacheNext(Routes) ==
  \/ \E w \in Evaluators : CacheStep(w) \/ (Leave(w) /\ UNCHANGED cache)
  \/ \E w \in Evaluators, task \in Nat, lookups \in Lookups(Routes) :
       Assign(w, task, lookups) /\ UNCHANGED cache
  \/ \E lookups \in Lookups(Routes) : LookAlone(lookups)

CacheSpec(Routes) == CacheInit /\ [][CacheNext(Routes)]_<<cache, worker>>

-----------------------------------------------------------------------------
(* Threads may leave a cache over its bound, since a hit is put back with  *)
(* no look at the size, but by less than there are threads, entries about  *)
(* to be checked aside; and no thread evicts from an empty cache.          *)
CachesBounded ==
  /\ \A c \in Caches :
       Len(cache[c]) <= Capacity + Cardinality(Evaluators) - 1
         + Cardinality({w \in Evaluators : /\ worker[w].step \in {"check", "evict"}
                                           /\ Lookup(w).cache = c})
  /\ \A w \in Evaluators : ~EvictsNothing(w)
=============================================================================
