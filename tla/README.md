# A verification project for TxnOpt

TLA+ specifications of TxnOpt, model-checked with TLC and, for the core, proved
with TLAPS. Line numbers refer to the repository's files; `PROJECT.json` maps
every definition that models code to the lines it models.

## The system

TxnOpt runs a local search as a sequence of *candidate transactions*. A search
kernel proposes candidates, a deterministic oracle screens and evaluates them,
and a runtime makes each round all-or-nothing: the new state, the new cache
generation and the work ledger become visible together or not at all. Around
that core there are native (C++) evaluators, two problem cases, and a chain of
evidence tools that records, reviews, archives and restores what runs produced.

### Inventory

| Part | State | Operations | Hard because of |
|---|---|---|---|
| Runtime (`txnopt/runtime.py`, `_internal/`) | committed state, cache transaction and store, ledger, phase, trace | propose, admit, begin, lookup, reserve, evaluate, validate, decide, stage, commit, verify, seal | a dozen failure points per round; foreign commits; a backend that breaks its contract; sinks and rollbacks that raise |
| Parallel evaluation (`runtime.py` 1118-1295) | futures, submission window, ledger | submit, collect in order, cancel, shut down | completions in any order, a failure while others run |
| Trace replay (`txnopt_evidence/refinement.py`) | replay locals | one step per event | must accept every trace a run seals |
| Native pool and queue (`cpp/txnopt_core/concurrency.hpp`) | task queue, counters, receipts, stop flag | parallel_for, worker loop, wait_until_idle, consume, stop | condition variables, nested calls, bounded queues |
| Prepared round (`round_transaction.hpp`, `parallel_exact.hpp`, `python_module.cpp`, `native_oracle.py`) | phase, reservation, chunk outputs, observations | reserve, evaluate, resolve, abort, project, drain | chunk failures, deadlines, left-over receipts |
| EVRPTW and RCPSP cases (`txnopt_cases/`) | instance, incumbent, LRU caches | parse, construct, propose, screen, evaluate, validate, decide | every answer is computed twice, by a solver and by an independent validator, and must agree; caches shared by threads |
| Evidence runner and lifecycle (`runner.py`, `lifecycle.py`) | bundle directory, hash chain | run, write, advance, verify | kills and crashes between two files, rival runners |
| Campaign execution | claim, tokens, stop flag, records | claim, execute, time out, summarise | worker threads, stop and deadline races |
| Cloud archive (`tencent_cos.py`) | object versions, retention, commits | put, publish, verify, restore | lost answers, concurrent writers, crashes |
| Review, deployment, calibration, CLI | files | parse, recompute, compare | sequential |

The runtime calls kernel, oracle and cache store synchronously; the barrier and
ordered modes hand oracle calls to a thread pool; a native oracle hands a whole
round to the C++ pool. The runtime's only output besides its result is the
sealed semantic trace (and a physical one), which the evidence tools store and
the reviewer replays without seeing the run.

What makes each part correct: the runtime publishes exactly one generation per
committed round and none for any other; the ledger never overruns nor leaks;
every sealed trace is one the replay accepts and the receipt says what happened;
parallel evaluation is indistinguishable from serial; the pool runs every index
exactly once and returns; a bundle, campaign or archive that looks complete is.

## Modules

| Module | Models |
|---|---|
| `CommitPrefix` | the abstract promise of a run: a committed prefix, one cache generation per round, an explicit *unknown* |
| `TxnRuntime` | `PythonTxnRuntime.run`, with the ledger, the cache store, the phase table and the waste audit |
| `TraceReplay` | `replay_aggregate_refinement` |
| `ReviewedRun` | a run followed by the replay of its trace |
| `MCTxnRuntime` | the instances TLC checks |
| `BatchEvaluation` | the abstract promise of an evaluation: all results in order, or the first error in order |
| `Evaluation`, `MCEvaluation` | the barrier and ordered thread-pool evaluations of a round's misses |
| `NativeWorkPool`, `MCNativeWorkPool` | the C++ work pool: `parallel_for`, worker loop, receipts, idle wait, destructor |
| `PreparedRound`, `MCPreparedRound` | `exact_round_v1` over successive rounds, the adapter that observes it and the reviewer's check of the observations |
| `Campaign`, `MCCampaign` | `execute_campaign` and `run_isolated_process`: claim, tokens, thread pool, process groups, receipt |
| `CosArchive`, `MCCosArchive` | `mirror_tree`, `publish_commit`, `verify_commit` and `restore_commit` against a bucket with versions and retention |
| `EvidenceLifecycle` | the hash-chained state history of a bundle |
| `EvidenceBundle`, `MCEvidenceBundle` | `run_config` writing a bundle file by file, and what the reviewer makes of the files it finds |
| `CaseKernel` | what both search kernels share: the order of keys, the rotation by a random word |
| `RcpspCase` | the RCPSP parser, screening, optimal schedules, validator, neighbourhood and decision |
| `ExactCharging` | the label search that inserts charging stations, and the validator that drives a route |
| `EvrptwCase` | EVRPTW screening, evaluation, objective, neighbourhoods, decision and construction |
| `Admission` | `_admit_candidates`: batches of a stream, screened, admitted up to a limit |
| `RouteCache` | the oracle's two LRU caches under the executor's threads |
| `CaseSearch`, `MCCaseSearch` | a whole search: load, propose, admit, evaluate, decide, review; composes the six above |
| `TxnRuntimeProofs`, `NativeWorkPoolProofs`, `PreparedRoundProofs`, `CampaignProofs`, `CosArchiveProofs`, `EvidenceBundleProofs` | theorems about the module each is named for |
| `RoundProofs` | theorems about the parts of a round: `Evaluation`, `Admission`, `RouteCache` |
| `NaturalLemmas` | the arithmetic and the facts about finite sets those proofs share |

### TxnRuntime

`pc` names the next call of the loop; each action is what happens from one call
that may fail or be interleaved with to the next. The caller's objects are the
environment: what the kernel proposes or decides, what the oracle accepts, and
which backend fault a commit meets are choices of the action that makes the
call. Two things happen between any two steps: the deadline passes (`Expire`)
and another owner of the same store commits (`ExternalCommit`).

| Model | Code |
|---|---|
| `round`, `state`, `admitted`, `hits`, `staged`, `next` | locals of `run`; a state stands for its digest, `hits` for `lookup.values` |
| `expected`, `open` | `CacheTxn.expected_generation`, `not closed` |
| `attempt` | what the last `cache.commit` did, which the code cannot see: published, and answered with a well-formed receipt |
| `values`, `generation`, `ext` | the store, and how many of its generations are another owner's |
| `started`, `reserved`, `mark` | `BudgetLedger`; `remaining_before` and `started_before` |
| `audit` | the last waste observation beside its bound |
| `phase`, `trace`, `sealed`, `exit` | the transaction's phase, the semantic events, how often the semantic sink took them, how `run` ends |

`FailRound` is the shape every expected failure has (roll back, audit, end the
round, return the committed prefix) with the outer handler taking over when
rollback raises; `OuterHandler` is the `except Exception` at line 624. Sealing
is a step of its own because a sink may raise: `exit.guarded` says whether that
exception would still meet the outer handler.

Abstractions: candidates are keys whose evaluation is a constant function
(the oracle must be deterministic); admission is a choice of the admitted set;
objectives, digests and random words are left out; the thread-pool evaluation is
one step that may fail having submitted any prefix (`Evaluation` has the steps,
`Admission` those of admission). `Limit = 0` stands for
`fixed_work=None`, a run with a deadline.

### TraceReplay and ReviewedRun

`TraceReplay` applies the replay's loop body to the events between `run_open`
and `run_terminated`: `ReplayStates` is the replay's state after each prefix of
them. `ReviewedRun` applies it to the trace a run sealed; the two
were written independently in the code, so that every exit path of the runtime
produces an acceptable trace is a property of both.

### Evaluation

The submitting thread and the pool's threads share one future per task
(`status`). `mode` is chosen at the start. In barrier mode a task is one of the contiguous chunks of
`_contiguous_chunks`, all submitted before the first is collected; in ordered
mode a task is one candidate and the window is refilled after each collection.
`fails` is chosen once: the oracle is deterministic, so which candidates fail is
a fact of the round and not of the schedule. The abort handler reads one future
per step while the pool goes on, as the code does; a future that finishes
between two reads is what makes the count of unfinished work vary.
`BatchEvaluation` is what a serial call would do, and both modes refine it.
`BoundaryAccounted` ties the module to `TxnRuntime`, whose evaluation is a single
step: what the handler counts is what may still run, fits the bound the runtime
declares for it, is an outcome that step allows, and nothing runs past the return.

### NativeWorkPool

A step is one critical section of `mutex_` or what a thread does between two.
The condition variables `ready_` and `space_` are waited on with their predicate
re-checked under the mutex, so a waiter is a thread whose `pc` is `asleep` or
`space`; a caller's `Completion` is `remaining` and `failed`. `idle_` is different:
`active_tasks_` drops and `idle_` is notified without the mutex (566-567), so the
predicate and the wait of `wait_until_idle` are two steps, `FoundBusy` and
`Block`, with the mutex held in between (`Free` is false). Spurious wakeups are
left out: they only add rechecks. The receipt sink and flush callbacks have no
user in the repository and are left out, as are latency statistics.
`NativeRequestQueue` in the same header has no user at all, the sanitizer driver
included, and is not modelled.

`notify_one` picks any waiter. The function of an index in `Nested` may call
`parallel_for` again, that of one in `Raising` may raise, every time or never. A
nested call runs inline and records one receipt, which may be the one that does
not fit. Any non-empty set of the callers takes part in a behaviour. The destructor may start at any moment when `MayStop`: the
class handles callers it finds inside (`enqueue_all` rejects, `space_` is
notified), although a program that destroys the pool must not call it any more.

A caller may begin with `wait_until_idle`, consume receipts when it is done, or
wait for idle then (`Drains`). Two waiting callers can stop for good: one finds a
worker active, the worker steps down and notifies before the caller waits, and no
later task wakes it. The run `pool` therefore goes without the deadlock check, and
`EveryCallReturns` is about `parallel_for` calls; nothing in the repository shares
the wait, so this is recorded as a hazard only. So is another window: a worker
takes its task under the lock and counts itself active after releasing it (541),
so a caller that shares the pool may consume receipts "while work is active". The
exact round has one caller per pool, and `LoneCallerDrains` says that a caller
whose rivals have left without a call is safe: a chunk's completion is signalled
only after its worker has stepped down.

### PreparedRound

One context, called round after round by the oracle or directly (as the soak and
the tests do, with budgets of their own). The pool is replaced by what
`NativeWorkPool` shows it to be for one caller: each chunk once, in any order,
one receipt each. A chunk's search is one step: complete before the deadline,
and any subset of its routes complete once it has passed. `completed` stands for
the statuses of the merged output; path arrays, metrics and checksums are left
out. `ObservationReviewed` is the evidence reviewer's independent check of an
observation, applied to everything the runtime drains.

### Campaign

The main thread of each runner process is `rpc`; the pool thread of each entry is
`job`, from `queued` to `collected`.

| Model | Code |
|---|---|
| `claim` | whose `mkdir(exist_ok=False)` of the claim directory succeeded |
| `available` | `_WeightedTokens`; `Acquire` and `Release` are its critical sections |
| `stop`, `expired` | the `threading.Event`; the campaign window |
| `outcome`, `records` | what a thread returns, what `as_completed` has handed to the main thread |
| `group`, `exit` | the live processes of an entry's process group, its leader's exit status |
| `bundle`, `launches` | the raw directory the run writes; how often anybody started it |
| `receipt` | the execution receipt and its sidecar |

`CheckFresh`, `CheckActive` and `Claim` are steps of their own because another
runner moves between them: only the claim decides. A killed runner leaves its
process groups behind (`Crash`). A group that is terminated may still leave a
process over, in which case the code raises; `Judge` accepts only a quiet group.
An entry of the queue may start between a failure and its collection: `stop` is
set by the main thread, so it is advice and not a barrier.

Left out: authorization and host checks before the claim (a refusal there is a
runner that never claims), the age of a `/proc` scan (it is one step), processes
that leave their group, and a receipt file that already exists.

### CosArchive

Publishers are processes that mirror one source under one commit id, a retry
being another publisher; restorers restore to one destination. The source, the
clock, the bucket's default retention and the destination's directory belong to
others and change between any two steps.

| Model | Code |
|---|---|
| `tree`, `history` | the source, each file with the number of writes that stands for its bytes; every tree it has been |
| `pub[p].seen`, `.inventory`, `.left` | the inventory being read, the first one, the files still to do |
| `pub[p].floor`, `.retained` | `retention_floor`; the `retain_until` of each reference so far |
| `blobs`, `markers` | object versions with their retention; a marker's document names versions |
| `issued` | the references `mirror_tree` returned |
| `rest[r].staging`, `dest` | the staging directory, the destination |

`inventory_tree` lists and then reads file by file (`Scan`, `Hash`). A put takes
effect in one step (`Put`, `PutMarker`); a lost answer, a failed call and a killed
publisher are all `Stop`, because a publisher has nothing local to undo. A restorer
differs: its `finally` clause removes the staging directory (`Abort`), a kill does
not (`Crash`).

Assumed of the source: a file is created or gets new bytes, but is not deleted and
does not return to bytes it had. Without this no sequence of reads could tell that
two files existed together. Assumed of the bucket: a locked version does not
change and the key of a marker is not deleted. Left out: credentials, symlink
checks, an unfinished multipart upload left in the bucket.

### EvidenceBundle

Several runners may be started for one label, each with a config and an installed
native build of its own; a reviewer looks at the directory at any moment.

| Model | Code |
|---|---|
| `pc`, `owner` | where `run_config` is; whose `mkdir` made the run directory |
| `outcome` | what `execute_case` emitted and returned or raised, among every combination of committed work, wasted work, receipts and malformed traces |
| `todo`, `pen` | the files still to write, each document followed by its sidecar; a file created but not filled |
| `disk` | the files: absent, torn or whole |
| `planned` | the config and build the expected identity was made from, before the run |
| `reviewer`, `reviewDir`, `review` | `replay_manifest` between its verification, its reads and the two files it writes |

A digest is what it was computed over, so that equal digests are equal documents
and a history is its own chain. `Stop` kills a runner between any two steps;
`HostCrash` also damages one document, since nothing is synced: its file or its
sidecar is missing or cut, or a stream lacks its last line. `Create` and `Fill` are
two steps because a kill between them leaves an empty file. The reviewer's checks (`RawVerified`, `FailureVerified`,
`Replayable`) are written from `reviewer.py` and the writer's documents from
`runner.py`; neither mentions the other.

One exception is part of the code's contract: a failed native run whose last round
threw leaves work without a receipt, and the reviewer refuses its bundle
(`Unreceipted`; a test asserts the refusal, though the docstring of
`RunExecutionError` speaks of every failure being retained).

### The cases

`CaseSearch` is a search as `case_codec` executes it. `Load` reads the case and
builds the first state; `Propose`, `Admit`, `EndAdmission`, the evaluation
steps and `Decide` are a round; `Review` is `review_case`, which reconstructs the
incumbent from the case alone. The transaction around a round is `TxnRuntime`'s:
here `Interrupt` ends a search between evaluations, keeping the incumbent.

The pure parts are operators of their own modules, stated so that one side can be
checked against the other: `Exact` is the label search of `charging.py`,
`RouteReport` the independent drive of `validation.py`; `Optimal` is what an exact
solver may return for an order and a mode vector (any schedule of least makespan:
CP-SAT is external), `Valid` the validator that samples resource use at starts and
ends only. Numbers are integers, so the code's tolerance of 1e-9 is not needed;
the first word of the random tape is any rotation; OR-Tools' routing solver is any
partition of the customers into sequences that it may return.

`RouteCache` splits a lookup the way the code does: `pop`, put back or compute and
insert, look at the size, evict. The threads of `runtime.evaluate` call one oracle
at once; in admission and in `Decide` a single thread looks up, so a whole sequence
of lookups is one step. A hit is put back without a look at the size, so a cache
can be over its bound by less than the number of threads (`CachesBounded`). What is
cached for a route is a function of the route, so only keys are kept; the
statistics counters are left out.

`Admission` is a component with variables of its own: `Begin` hands it the stream of a
round, `AdmitBatch` takes the next batch. Its `AdmissionSpec` is any sequence of
rounds, and `CacheSpec` any program of lookups by the threads. In `CaseSearch` a step
either leaves a component's variables alone or is a step of that component.

A third kind of case, a *stream*, stands for any other kernel and oracle: its
candidates are keys in any order and only its admission matters.

Recorded while reading, and stated in the properties rather than hidden:

- the label search asks that charging *ends* by a station's due date
  (`charging.py:260`), the validator only that the vehicle *arrives* by it
  (`validation.py:255`): `ExactIsExact` compares the search with the insertions
  that meet the stricter rule (`ChargesInTime`);
- two stations at distance zero make the label search extend a label for ever
  (`charging.py:86`): the instances keep stations apart;
- the PSPLIB parser ignores a request row for a mode an activity does not declare.

## Runs

| Run | Question | Bounds |
|---|---|---|
| `runtime_fixed` | ledger, publication, phases, trace and termination under a work limit, with every contract fault but the leaky one | 3 keys of work 1, 2, 1; limit 3, so one round may be refused at once and another only after a commit; window 2; 3 rounds |
| `runtime_shared` | publication, validation and refinement when another owner commits and the deadline may pass anywhere | one foreign commit, at any point; 2 rounds; barrier |
| `runtime_leaky` | does an unknowable publication always end INTERRUPTED? It does not | 1 round |
| `evaluation` | do both parallel evaluations charge and return what one ordered batch would, whatever the threads do? | 5 candidates of work 1 to 5, 3 chunks of uneven size or a window of 2, any subset failing |
| `pool` | does every call return, is each index run once, does a caller learn the truth, and does one that is alone take every receipt? | 2 callers (3 and 1 indices) or one of them, 2 workers, queue of 2, 2 receipts, nested calls, a raising index, idle waits, destructor |
| `prepared_round` | does only a complete round yield solutions, and every answer one reviewed observation? | 2 workers; 3, 4 or 5 routes (below, at, above the threshold); 2 rounds |
| `prepared_raising` | are receipts drained at each round boundary? Not when a chunk raises | the same |
| `campaign` | is each entry launched once, each record true, and does every runner end? | 2 runners, a light and a heavy entry, 1 or 2 cores |
| `archive` | one marker, whole commits, whole restores? | 2 publishers, 1 restorer, 2 files, 2 writes, 2 days |
| `archive_multipart` | can a large marker be published twice? It can | the same |
| `bundle` | does the reviewer accept exactly the bundles that are whole, whatever the writers and the host suffered? | 2 runners, 3 planned configs and a dirty one, 2 builds, one host crash, 1 unit of committed and of wasted work |
| `cases` | do parser, screening, solver, validator, neighbourhood, admission, caches and review agree with each other and with reference definitions? | 2 sound RCPSP instances, a cyclic one, one too heavy, and 20 damaged files; 4 EVRPTW instances; 5,808 candidate streams; 2 threads, caches of 2, batches of 2 |

Three keys are enough for a round with hits and misses and a proper submission
window; a third round sees a cache two rounds old; one of the keys evaluates to a
state the oracle rejects; unequal work separates a bound counted in keys from one
in work. One foreign commit already reaches each of the four windows (before
lookup, before commit, before verification, between rounds). `MaxExternal`,
`MaxRounds` and the key set are the only bounds of the runtime. `ReceiptMatchesRun`
is stated for runs whose cache nobody else wrote: the receipt counts generations.

In `pool` the caller with three indices needs the whole queue, so a producer
can be woken that does not fit; two receipts are fewer than its chunks and nested
calls, so receipts are dropped and the error becomes sticky for the other caller.

In `bundle` a second runner is a rival or a retry; with one unit of committed and
one of wasted work every comparison the reviewer makes between work and receipts
can come out either way. Configs differ in backend, trace policy and build, which
is what the reviewer's branches look at. One damaged document is enough because
each check concerns one document or a pair that includes the manifest.

In `cases` the RCPSP instances have parallel branches, two modes with a trade-off,
two resources and a milestone that needs a share of one; each damaged file breaks
one rule of the parser. The EVRPTW instances have a station that closes early, one
that costs waiting, a load limit and a customer out of reach; a route has at most
three customers, and the reference tries every insertion of different stations
between them. Streams have up to five candidates of three keys, so that a batch of
two is filled, cut by the limit and interrupted by repetitions in every way.
Two threads and caches of two make a put-back overfill a cache; that a thread
evicts from an empty cache needs many more threads than entries
(`2 * Cardinality(Evaluators) >= Capacity + 3`), which the default capacity rules out.

In `campaign` one core refuses the heavy entry, and two cores make it wait for the
light one. A second runner is a competitor, or a restart after a crash whose runs
live on. In `archive` a file may be created while the source is listed, retention
may be shortened below the minimum after the bucket was checked, and a locked
version may expire between verification and restore; the second publisher is a
competitor or the retry of an upload whose answer was lost.

### Fairness

`runtime_fixed` assumes `WF_vars(Run)`: the loop is one thread, and every call it
makes is required to return or raise. Nothing is assumed of the environment.
The pool's liveness assumes weak fairness of each thread and of a destructor that
has started: threads are scheduled and the functions they run return. A destructor
need not start. The campaign's assumes it of each runner's main thread and of each
pool thread, whose subprocess calls all have timeouts; nothing is assumed of the
subprocesses. The archive has no liveness property: any call to the bucket may
fail for ever.

### What `runtime_leaky` found

`formal/refinement-mapping.md` promises that a backend failure which leaves
publication unknowable is retained as INTERRUPTED with `cache_outcome="unknown"`.
A backend that publishes, leaves the transaction open and then fails its snapshot
is recorded as ABORTED (`runtime.py` 720-722, then 624-646), with no
`cache_outcome`, and the replay certifies the prefix.

### What `prepared_raising` found

`run_exact_charging_parallel` consumes receipts after
`parallel_for`, which rethrows; a raising chunk leaves its round's receipts behind
and the next parallel round, healthy or not, fails its count.

### What `archive_multipart` found

The commit marker is protected by `If-None-Match` only when its document is
smaller than `multipart_threshold`; a larger one is completed unconditionally, and
two publishers that both found the key absent both succeed. References still bind
exact versions, so each verifies; but "cannot be overwritten" does not hold, and
the commit key holds no digest although the architecture document says it does.

## Proofs

Every theorem is of the form `Spec => []P` (or `Spec => Q` for an action property
or a refinement) and holds for all constants that satisfy the named assumptions of
its module; no bound of a run remains. The invariants were checked with TLC on the
instances of the runs before they were proved.

The provers cannot instantiate an induction scheme over a predicate. Where a proof
needs one, `NaturalLemmas` has it as a fact about a *set*: `EveryNatural` (a set
that holds 0 and, with a number, its successor holds every natural number) serves
the definitions that are recursive functions, the states of the replay and the
totals of a bundle; `AdditiveBound` (the work of a set is at most its size times the
largest request) and `GreatestElement` take a least counterexample; and `Cut` (a cut
of n items into m contiguous chunks misses and repeats none, and the last chunk ends
with the last item) is arithmetic on the chunk an index falls into. `Cut` serves the
C++ pool and the prepared round.

### TxnRuntime

`TxnRuntimeProofs` proves, with no bound on keys, rounds, work or foreign commits:
`TypeCorrect`, `BudgetTheorem`, `NoLeakTheorem`, `SealedOnceTheorem`,
`PhaseOrderTheorem`, `NoPhantomTheorem`, `RefinesPrefix`, `ValidatedTheorem` and
`WasteTheorem`, from `ConfigAssumption` and `WorkAssumption`. The inductive
invariants are layers, each used by the next:

1. `TypeOK` with `LedgerInv` (the reservation in flight is exactly the work of
   the misses, and fits the limit). Neither is inductive alone: that `reserved`
   stays a natural number needs the reservation to equal what `start` consumes.
2. `SealInv` with `OpenInv`: which phases each program point allows, that a run
   at its end is in a terminal phase unless it is unguarded, and where the cache
   transaction may be open.
3. `PubInv`: how `generation` relates to `round`, to what the last commit really
   did and to how the run ends. It needs `expected` to equal the generation
   while no other owner exists, or a false acknowledgement could be believed.
4. `ValidInv`: `ValidatedOnly`, and that between validation and commit the staged
   values and the chosen state are valid, so that nothing an exit path keeps was
   staged from a result that was never validated.
5. `RoundInv` with `WasteWithinBound`: the mark of a round is the ledger before its
   evaluation. The bound of the audit is the work of the window, which
   `AdditiveBound` puts below its size times the dearest miss.

`ReviewTheorem`, `SealedTraceTheorem` and `ReceiptTheorem` are about the run and the
replay of its trace (`ReviewedRun`). Their invariant says, at every step of the run,
which state the replay is in after the events emitted so far; a step of the run that
emits events is then a step of the replay per event. What makes this work is that
`ReplayStates` of a prefix does not depend on what follows: that it exists and
extends is an induction over the length of the prefix. Each event falls into one of
a few classes by what it does to the replay (`Effect`), so that the proof goes by
class and not by pair of events. `ReceiptTheorem` (the replay reconstructs the state
the run returned and its committed rounds, and certifies a prefix only if the cache
holds the generations it counts) needs `BackendKeepsContract`, for the reason given
below. `SealedTraceTheorem` is stated for a cache nobody else writes
(`MaxExternal = 0`), as the run `runtime_fixed` checks it: the replay counts one
generation per committed round, so it is about solve-local caches.

`NoPhantomTheorem` and `RefinesPrefix` assume `BackendKeepsContract`: a backend
that publishes also closes, and one shared with another owner does not acknowledge
commits it did not make. Without the first the property is false (`runtime_leaky`);
without the second the code cannot know whose generation it counts.

### Evaluation

`RoundProofs` proves `TypeCorrect`, `ChargeTheorem`, `BoundaryTheorem` and
`RefinesBatch` from `SizeAssumption` and `WorkAssumption`, for every number of
candidates and threads, every window and every additive work function. The argument
rests on `Partition`: the chunks of `_contiguous_chunks`, or the single candidates,
are consecutive non-empty intervals that end with the last candidate. `Submission`
then says that what has been submitted is a prefix of the candidates and is exactly
what is charged, `Collection` that what has been collected is a prefix without a
failure, so that the first failure of the next interval is the least of all.
`ChargeIsDeterministic` is not inductive alone: that the work submitted when a
failure surfaces depends on the failing candidate only needs that the window is
full, or everything submitted, at each collection. `BoundaryAccounted` needs
`CountInv`: the handler looks at one future after another while the pool goes on, so
what it has passed and found done must stay done, and what it found pending stays
counted. `RefinesBatch` maps `Shutdown` to the one step of `BatchEvaluation` and
every other step to a stutter.

### Admission and RouteCache

`AdmissionTheorem` (`RoundProofs`) is `AdmissionIsPrefix` for every stream, screening,
limit and batch size, one round after another, from `BatchAssumption`. Sets of
positions are handled by rank: the rank of a position is a number up to the size of
the set, every such number is the rank of one position (`RankOnto`), and if all of one
set comes before all of another, the ranks, the picked candidates and the first few of
the union are those of the parts joined (`RankJoin`, `PickedJoin`, `FirstJoin`). The
invariant, `AdmissionInv`, says that what was taken from the stream is its first
occurrences up to a position `Old`; `BatchIs`, that a batch is the next piece of them.
What was admitted is then the first admissible ones; and since no batch follows the one
that reaches the limit, less than a batch was screened past the last one admitted.

`CacheTheorem` is `CachesBounded` for any program of lookups, from `CacheAssumption` and
`2 * Cardinality(Evaluators) < Capacity + 3`, which the default capacity of 65,536
satisfies up to 32,769 threads. `CachesBounded` is not inductive: a put-back
adds an entry unchecked. `Sound` says for each cache that a thread with an entry in hand
leaves room for it, and, so that no thread evicts from an empty cache, that while one is
about to evict, the keys known (in the cache or in hand) together with the threads not
about to evict exceed the capacity: only evictions lose a key. One lookup by the main
thread alone keeps the bound (`LookedIs`), hence any number of them (`LookedAllIs`, an
induction over their number).

Both theorems are about the component's own specification. `CaseSearch` reaches
recursive operators, so that its steps are steps of the components is read from its
definition and the two invariants are checked on it by the run `cases`.

### NativeWorkPool

`NativeWorkPoolProofs` proves the five safety invariants of the run `pool` and
`TypeCorrect`, from `PoolAssumption`, for every number of callers, workers and calls,
every queue bound and every capacity for receipts. `PoolInv` follows a chunk:

- `ChunkInv`: a chunk of a call is queued at one place, or held by one worker, or
  gone, and it is in the pool only between the caller's enqueue and its return;
  `IndexInv`, that the cursor of a worker stays in its chunk.
- `RunsInv`: how often an index has run is a function of where its chunk is: not yet,
  being run up to the worker's cursor, or run. `EachIndexOnce` follows with `Cut`.
- `ReportInv`: an exception a worker is carrying, or one stored for a call, was
  raised by an index of that call, or the pool has lost a receipt or is stopping; a
  call that has raised has it stored, or a worker still carries it. `ChunkInv` also
  says that `Completion::remaining` is the number of chunks still in the pool, so
  that nothing is carried any more when the caller returns (`TruthfulReturn`,
  `NoneLeftBehind`).
- `CountInv`: `active_tasks_` and `completed` are the numbers of workers at a stage of
  the epilogue, which is what the invariants about receipts and idleness count.
- `StopInv`: a worker exits only from an empty queue and after the pool began to
  stop. `LoneInv`: a caller that is alone never finds work active, and between its
  calls every receipt there was has been consumed or dropped.

### PreparedRound

`PreparedRoundProofs` proves the three safety invariants of the run `prepared_round`
and `TypeCorrect`, from `RoundAssumption`, for every number of workers, every set of
route counts and every bound on the rounds. `StageInv` says what the program point
tells of phase, ledger and chunks: once resolved, the ledger holds a delta per route
exactly when no route was left over, which is `PreparedOrNothing`. `HistoryInv`
relates the calls the context answered to what was drained, what waits to be drained
and the one answer in flight (`ObservedOnce`), and carries the type `Reviewed`: an
observation was built from the same count, workers and threshold that the reviewer
recomputes, and the cut of the routes into chunks (`Cut`) is the one it expects
(`ReceiptsReviewed`).

### Campaign

`CampaignProofs` proves `LaunchTheorem` and `RecordTheorem` for every number of
runners, entries and cores, from `CampaignAssumption`. `LaunchInv` adds what makes
`LaunchedOnce` inductive: queueing an entry resets where its thread is, so the
invariant says that queueing happens once. Only the holder of the claim goes past it
(`ClaimHeld`), and nothing is queued before the holder submits (`QueuedLate`); the
freshness checks before the claim are not needed for it. `RecordInv` adds
`OutcomeFinal`: an entry has an outcome only when its thread is past the process it
ran, a process that ended well had sealed its bundle, and a COMPLETE outcome was
given with no process of the group left; and `ReceiptFromRecords`.

### CosArchive

`CosArchiveProofs` proves `MarkerTheorem`, `CommitTheorem` and `RestoreTheorem` for
every number of publishers, restorers, files, writes and days, from
`ArchiveAssumption`. `MarkerTheorem` assumes small markers (`~LargeMarker`): that
there is one version follows from the condition of the put; that there is one
reference also needs that whoever is about to issue one holds that version
(`SealsTheVersion`). Without `~LargeMarker` it is false (`archive_multipart`); the
other two theorems do without it.

`CommitWhole` says that a marker stands for a tree the source had *at one moment*,
although the source is read file by file while it is written. The invariant names
that moment: the second listing (`Moment`). What the first pass read was true before
it and what the second pass reads is true after it, and the counts of writes only
grow, so two equal inventories are the tree of the moment between them. `Mirrored`
carries this with the blobs each publisher has secured so far, `Published` keeps it
for the versions of the marker, `Promised` for the references, and `Staged` for a
restore, whose rename then publishes exactly the files of the commit.

### EvidenceBundle

`EvidenceBundleProofs` proves `AcceptedTheorem`, `ReviewTheorem` and `SealedTheorem`
for every number of runners, configs, plans and builds, from
`BundleAssumption`. The first two rest on the manifest (`BundleInv`). Its file has one writer, the owner of the directory, whose outcome does
not change once it has executed (`Steady`); `Writing` says that what a runner has
still to write are the files of the documents of that execution. Digests are what
they were computed over, so a manifest that can be read determines the documents it
binds (`ManifestTrue`), and files that match its entries are those documents: no
induction over a stream is needed. `Verified` and `ReviewTrue` carry the manifest on
to the reviewer and into `review.json`; that the history there replays follows from
`Advanced`, that a legal step added to a history that replays gives one that replays.
A crash that cuts or removes the manifest makes it unreadable, and one that damages
another file leaves entries that do not match.

`SealedTheorem` is the converse: what a runner sealed, and no crash damaged, the
reviewer accepts. `ProgressInv`, which the full instance of `bundle` satisfies,
follows the runner that owns the directory: each of its files is on the disk or still
to be written, in order, and torn only while the pen is on it; once it has ended
nothing is left to write, so until a crash the directory holds exactly the documents
of its execution. It remains that those are accepted, which is a case analysis of the
executions (completed, raised, or strayed from the contract) against the checks of
the reviewer. The streams are read back from their files and their chains; a run that
can be presented as evidence is verified raw and replays (`PresentableAccepted`); a
failed one whose failure receipt covers its work is verified as a failure
(`FailureAccepted`). The sums the reviewer compares are recursive functions over the
index set of a stream, equal on both sides by an induction over that set.

### What is only model-checked

- Every liveness property (`Terminates`, `EveryCallReturns`, `RunnersEnd`) and whatever
  needs ENABLED.
- The contents of the cases (`NeverRaises`, `ExactIsExact`, `BoundariesSuffice`,
  `ReadsTheFile`, `CommitsTheBest`): the label
  search, the search for a least order and the splitting of a plan are recursive
  operators, for which the provers have no induction, and the modules that reach them
  cannot be proved about.

`TypeOK` is checked by `runtime_fixed`; in the other modules it documents the types
and the runs spend their properties on behaviour.

## Not modelled

- The C++ exact kernels: the label search over floating-point arrays. `ExactCharging`
  models the Python original; chunks, deadlines and merge are in `PreparedRound`.
- The EVRPTW text parser, plan keys and their cache, codecs, payload schemas, command lines and the frozen
  reader of legacy receipts: input and output without state.
- Cloud deployment, calibration, campaign statistics and build attestation: one
  pass over the input that raises at the first mismatch; a model could only state
  the list of fields compared.
- The random tape and the dataclass checks of the contracts, which appear as
  nondeterministic choices and as assumptions on constants.
- Lifecycle states after REVIEWED: the transition table is modelled, but no tool
  of the repository drives a bundle through them.
- Latency traces, statistics counters, receipt sinks, spurious wakeups, symbolic
  links and path checks.

`PROJECT.json` "components" gives the reason for each part.

## Plan

Built, in the order of importance: the runtime with its abstract specification,
replay and proofs; parallel evaluation and its proofs; the native pool and prepared
round; campaign execution; the archive; bundles; the two cases. Open:

1. Theorems about the parts of the cases that are not recursive (screening,
   decision).
2. Classification and retention of bundles, once the repository has a tool for them.
3. Preparation of a campaign plan, up to the authorization the runner checks.
