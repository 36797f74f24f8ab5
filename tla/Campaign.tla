------------------------------ MODULE Campaign ------------------------------
(***************************************************************************)
(* execute_campaign of level1_campaign_runner: an attempt is claimed by    *)
(* creating a directory, then its entries run as subprocesses, each in a   *)
(* process group of its own, on a thread pool bounded by core tokens, and  *)
(* one execution receipt is written.  Several runner processes may be      *)
(* started for the same attempt and any may be killed; the subprocesses    *)
(* survive it.                                                             *)
(*                                                                         *)
(* The thread pool, the tokens and the records belong to the runner that   *)
(* holds the claim.                                                        *)
(***************************************************************************)
EXTENDS Integers, FiniteSets, FiniteSetsExt

CONSTANTS
  Runners,       \* runner processes started for the attempt
  EntryCount,    \* entries of the plan, in order of their ordinal
  Weight,        \* workers of an entry
  CoreBudgets,   \* the values --usable-cores may have
  NoRunner

Entries == 1..EntryCount

ASSUME CampaignAssumption ==
  /\ EntryCount \in Nat \ {0}
  /\ Weight \in [Entries -> Nat \ {0}]
  /\ CoreBudgets \subseteq Nat \ {0}
  /\ NoRunner \notin Runners

VARIABLES
  rpc,        \* of each runner's main thread
  claim,      \* whose mkdir of the launch-claim directory succeeded
  cores,      \* usable_cores of the launch
  expired,    \* the campaign window is over
  stop,       \* the threading.Event
  available,  \* core tokens
  job,        \* where the pool thread of each entry is
  outcome,    \* the record a thread returns
  records,    \* the records the main thread has collected
  group,      \* live processes of each entry's process group
  exit,       \* the exit status of the group's leader
  bundle,     \* the entry's raw directory: "none", "open" or "sealed"
  launches,   \* how often each entry was started, by anyone
  receipt     \* the execution receipt on disk

launchVars == <<rpc, claim, cores>>
poolVars   == <<stop, available, job, outcome, records>>
procVars   == <<group, exit, bundle, launches>>
vars == <<launchVars, poolVars, procVars, expired, receipt>>

NoReceipt == [status |-> "none", signed |-> FALSE]
Over == {"done", "refused", "crashed"}

Init ==
  /\ rpc = [r \in Runners |-> "fresh"]
  /\ claim = NoRunner /\ cores \in CoreBudgets
  /\ expired = FALSE /\ stop = FALSE /\ available = 0
  /\ job = [e \in Entries |-> "new"]
  /\ outcome = [e \in Entries |-> "none"]
  /\ records = [e \in Entries |-> "none"]
  /\ group = [e \in Entries |-> {}]
  /\ exit = [e \in Entries |-> "none"]
  /\ bundle = [e \in Entries |-> "none"]
  /\ launches = [e \in Entries |-> 0]
  /\ receipt = NoReceipt

-----------------------------------------------------------------------------
(* Launching *)

Move(r, from, to) ==
  /\ rpc[r] = from
  /\ rpc' = [rpc EXCEPT ![r] = to]

Fresh == claim = NoRunner /\ \A e \in Entries : bundle[e] = "none"

(* The raw root and the claim must be absent.                              *)
CheckFresh(r) ==
  /\ Move(r, "fresh", IF Fresh THEN "scan" ELSE "refused")
  /\ UNCHANGED <<claim, cores, poolVars, procVars, expired, receipt>>

(* active_campaign_processes: a run always shows, its command line names   *)
(* the plan's config; another runner shows only if it was given the plan   *)
(* under the same name, a descendant only if its command line says so.     *)
CheckActive(r) ==
  /\ \E sees \in IF \E e \in Entries : "leader" \in group[e] THEN {TRUE}
                 ELSE IF \/ \E e \in Entries : group[e] # {}
                         \/ \E s \in Runners \ {r} :
                              rpc[s] \notin Over \cup {"fresh"}
                 THEN BOOLEAN ELSE {FALSE} :
       Move(r, "scan", IF sees THEN "refused" ELSE "claim")
  /\ UNCHANGED <<claim, cores, poolVars, procVars, expired, receipt>>

(* Defect: mkdir(exist_ok=True).                                           *)
ClaimAnyway(r) ==
  /\ Move(r, "claim", "submit")
  /\ claim' = r
  /\ UNCHANGED <<cores, poolVars, procVars, expired, receipt>>

(* mkdir(exist_ok=False) decides, whatever the checks saw.                 *)
Claim(r) ==
  /\ IF claim = NoRunner
     THEN Move(r, "claim", "submit") /\ claim' = r
     ELSE Move(r, "claim", "refused") /\ UNCHANGED claim
  /\ UNCHANGED <<cores, poolVars, procVars, expired, receipt>>

Submit(r) ==
  /\ claim = r
  /\ Move(r, "submit", "execute")
  /\ available' = cores
  /\ job' = [e \in Entries |-> "queued"]
  /\ UNCHANGED <<claim, cores, stop, outcome, records, procVars, expired,
                 receipt>>

(* The runner is killed; the groups it started live on.                    *)
Crash(r) ==
  /\ rpc[r] \notin Over
  /\ rpc' = [rpc EXCEPT ![r] = "crashed"]
  /\ UNCHANGED <<claim, cores, poolVars, procVars, expired, receipt>>

Expire ==
  /\ ~expired /\ claim # NoRunner
  /\ expired' = TRUE
  /\ UNCHANGED <<launchVars, poolVars, procVars, receipt>>

-----------------------------------------------------------------------------
(* execute_one, on the thread that runs entry e *)

Executing == claim # NoRunner /\ rpc[claim] = "execute"

Threads == Min({cores, EntryCount})
OnThread(e) == job[e] \in {"waiting", "holding", "running", "releasing"}
(* The thread of e goes from one place to another; the rest of the pool's  *)
(* state is the action's.                                                  *)
Advance(e, from, to) ==
  /\ Executing /\ job[e] = from
  /\ job' = [job EXCEPT ![e] = to]

Result(e, status) == outcome' = [outcome EXCEPT ![e] = status]

(* A free thread takes the first entry of the queue.                       *)
Taken(e) ==
  /\ Cardinality({d \in Entries : OnThread(d)}) < Threads
  /\ \A d \in 1..(e - 1) : job[d] # "queued"

Enter(e) ==
  /\ Taken(e) /\ ~stop /\ Weight[e] <= cores
  /\ Advance(e, "queued", "waiting")
  /\ UNCHANGED <<launchVars, stop, available, outcome, records, procVars,
                 expired, receipt>>

SkipEarly(e) ==
  /\ Taken(e) /\ stop
  /\ Advance(e, "queued", "returned")
  /\ Result(e, "NOT_STARTED")
  /\ UNCHANGED <<launchVars, stop, available, records, procVars, expired,
                 receipt>>

(* acquire raises outside the try statement: nothing is released.          *)
RefuseWeight(e) ==
  /\ Taken(e) /\ ~stop /\ Weight[e] > cores
  /\ Advance(e, "queued", "returned")
  /\ Result(e, "FAILED")
  /\ UNCHANGED <<launchVars, stop, available, records, procVars, expired,
                 receipt>>

Acquire(e) ==
  /\ available >= Weight[e]
  /\ Advance(e, "waiting", "holding")
  /\ available' = available - Weight[e]
  /\ UNCHANGED <<launchVars, stop, outcome, records, procVars, expired,
                 receipt>>

(* stop was set while the entry waited for tokens.                         *)
SkipLate(e) ==
  /\ stop
  /\ Advance(e, "holding", "releasing")
  /\ Result(e, "NOT_STARTED")
  /\ UNCHANGED <<launchVars, stop, available, records, procVars, expired,
                 receipt>>

WindowExpired(e) ==
  /\ ~stop /\ expired
  /\ Advance(e, "holding", "releasing")
  /\ stop' = TRUE
  /\ Result(e, "FAILED")
  /\ UNCHANGED <<launchVars, available, records, procVars, expired, receipt>>

(* The identity or the config changed since planning: _run_one raises.     *)
LaunchRefused(e) ==
  /\ ~stop /\ ~expired
  /\ Advance(e, "holding", "releasing")
  /\ Result(e, "FAILED")
  /\ UNCHANGED <<launchVars, stop, available, records, procVars, expired,
                 receipt>>

Launch(e) ==
  /\ ~stop /\ ~expired
  /\ Advance(e, "holding", "running")
  /\ group' = [group EXCEPT ![e] = {"leader"}]
  /\ launches' = [launches EXCEPT ![e] = @ + 1]
  /\ UNCHANGED <<launchVars, stop, available, outcome, records, exit, bundle,
                 expired, receipt>>

-----------------------------------------------------------------------------
(* run_isolated_process.  Terminating a group sends SIGTERM, then SIGKILL, *)
(* and gives up after two seconds each: a process may be left over, and    *)
(* then the call raises.                                                   *)

Terminate(e) == \E survivors \in SUBSET group[e] :
                  group' = [group EXCEPT ![e] = survivors]

TimeOut(e) ==
  /\ Advance(e, "running", "releasing")
  /\ Terminate(e)
  /\ Result(e, "FAILED")
  /\ UNCHANGED <<launchVars, stop, available, records, exit, bundle,
                 launches, expired, receipt>>

(* The leader is gone and a descendant is not.                             *)
FindSurvivors(e) ==
  /\ "leader" \notin group[e] /\ group[e] # {}
  /\ Advance(e, "running", "releasing")
  /\ Terminate(e)
  /\ Result(e, "FAILED")
  /\ UNCHANGED <<launchVars, stop, available, records, exit, bundle,
                 launches, expired, receipt>>

(* Defect: the group is not looked at when its leader has exited.          *)
JudgeLeader(e) ==
  /\ "leader" \notin group[e]
  /\ Advance(e, "running", "releasing")
  /\ \E status \in IF exit[e] = "ok" THEN {"COMPLETE", "FAILED"}
                   ELSE {"FAILED"} : Result(e, status)
  /\ UNCHANGED <<launchVars, stop, available, records, procVars, expired,
                 receipt>>

(* A quiet group: the exit status, the command's output, the manifest and  *)
(* the bundle's identity are checked; any of them may fail.                *)
Judge(e) ==
  /\ group[e] = {}
  /\ Advance(e, "running", "releasing")
  /\ \E status \in IF exit[e] = "ok" THEN {"COMPLETE", "FAILED"}
                   ELSE {"FAILED"} : Result(e, status)
  /\ UNCHANGED <<launchVars, stop, available, records, procVars, expired,
                 receipt>>

(* Defect: tokens are given back after a complete run only.                *)
ReleaseIfComplete(e) ==
  /\ Advance(e, "releasing", "returned")
  /\ available' = IF outcome[e] = "COMPLETE" THEN available + Weight[e]
                  ELSE available
  /\ UNCHANGED <<launchVars, stop, outcome, records, procVars, expired,
                 receipt>>

Release(e) ==
  /\ Advance(e, "releasing", "returned")
  /\ available' = available + Weight[e]
  /\ UNCHANGED <<launchVars, stop, outcome, records, procVars, expired,
                 receipt>>

-----------------------------------------------------------------------------
(* The subprocess: txnopt_evidence.cli run, and what it may spawn *)

Fork(e) ==
  /\ "leader" \in group[e] /\ "descendant" \notin group[e]
  /\ group' = [group EXCEPT ![e] = @ \cup {"descendant"}]
  /\ UNCHANGED <<launchVars, poolVars, exit, bundle, launches, expired,
                 receipt>>

(* mkdir, and later the signed manifest, the last file of the bundle.      *)
OpenBundle(e) ==
  /\ "leader" \in group[e] /\ bundle[e] = "none"
  /\ bundle' = [bundle EXCEPT ![e] = "open"]
  /\ UNCHANGED <<launchVars, poolVars, group, exit, launches, expired, receipt>>

SealBundle(e) ==
  /\ "leader" \in group[e] /\ bundle[e] = "open"
  /\ bundle' = [bundle EXCEPT ![e] = "sealed"]
  /\ UNCHANGED <<launchVars, poolVars, group, exit, launches, expired, receipt>>

(* The command succeeds only after it has sealed; it may fail at any time. *)
LeaderExits(e) ==
  /\ "leader" \in group[e]
  /\ group' = [group EXCEPT ![e] = @ \ {"leader"}]
  /\ \E how \in IF bundle[e] = "sealed" THEN {"ok", "error"} ELSE {"error"} :
       exit' = [exit EXCEPT ![e] = how]
  /\ UNCHANGED <<launchVars, poolVars, bundle, launches, expired, receipt>>

DescendantExits(e) ==
  /\ "descendant" \in group[e]
  /\ group' = [group EXCEPT ![e] = @ \ {"descendant"}]
  /\ UNCHANGED <<launchVars, poolVars, exit, bundle, launches, expired,
                 receipt>>

-----------------------------------------------------------------------------
(* The main thread: as_completed, then the receipt *)

Collect(e) ==
  /\ Advance(e, "returned", "collected")
  /\ records' = [records EXCEPT ![e] = outcome[e]]
  /\ stop' = (stop \/ outcome[e] = "FAILED")
  /\ UNCHANGED <<launchVars, available, outcome, procVars, expired, receipt>>

AllCollected == \A e \in Entries : job[e] = "collected"

ReceiptStatus ==
  IF (\A e \in Entries : records[e] = "COMPLETE") /\ ~expired
  THEN "COMPLETE" ELSE "FAILED"

WriteReceipt ==
  /\ Executing /\ AllCollected
  /\ rpc' = [rpc EXCEPT ![claim] = "sign"]
  /\ receipt' = [status |-> ReceiptStatus, signed |-> FALSE]
  /\ UNCHANGED <<claim, cores, poolVars, procVars, expired>>

(* The sidecar of write_signed_object.                                     *)
SignReceipt(r) ==
  /\ Move(r, "sign", "done")
  /\ receipt' = [receipt EXCEPT !.signed = TRUE]
  /\ UNCHANGED <<claim, cores, poolVars, procVars, expired>>

-----------------------------------------------------------------------------
AllOver ==
  /\ \A r \in Runners : rpc[r] \in Over
  /\ \A e \in Entries : group[e] = {}
  /\ UNCHANGED vars

Main(r) ==
  CheckFresh(r) \/ CheckActive(r) \/ Claim(r) \/ Submit(r) \/ SignReceipt(r)

Thread(e) ==
  \/ Enter(e) \/ SkipEarly(e) \/ RefuseWeight(e) \/ Acquire(e)
  \/ SkipLate(e) \/ WindowExpired(e) \/ LaunchRefused(e) \/ Launch(e)
  \/ TimeOut(e) \/ FindSurvivors(e) \/ Judge(e) \/ Release(e)

Process(e) ==
  \/ Fork(e) \/ OpenBundle(e) \/ SealBundle(e)
  \/ LeaderExits(e) \/ DescendantExits(e)

Next ==
  \/ \E r \in Runners : Main(r) \/ Crash(r)
  \/ \E e \in Entries : Thread(e) \/ Process(e) \/ Collect(e)
  \/ WriteReceipt \/ Expire
  \/ AllOver

Spec == Init /\ [][Next]_vars

(* Every thread is scheduled and every subprocess call has a timeout.      *)
FairSpec ==
  /\ Spec
  /\ \A r \in Runners : WF_vars(Main(r))
  /\ \A e \in Entries : WF_vars(Thread(e)) /\ WF_vars(Collect(e))
  /\ WF_vars(WriteReceipt)

-----------------------------------------------------------------------------
(* Properties *)

(* Every thread, record and process group stays in its type, and no more   *)
(* tokens are out than the launch has cores.                               *)
TypeOK ==
  /\ rpc \in [Runners -> {"fresh", "scan", "claim", "submit", "execute",
                          "sign"} \cup Over]
  /\ claim \in Runners \cup {NoRunner} /\ cores \in CoreBudgets
  /\ expired \in BOOLEAN /\ stop \in BOOLEAN /\ available \in 0..cores
  /\ job \in [Entries -> {"new", "queued", "waiting", "holding", "running",
                          "releasing", "returned", "collected"}]
  /\ outcome \in [Entries -> {"none", "COMPLETE", "FAILED", "NOT_STARTED"}]
  /\ records \in [Entries -> {"none", "COMPLETE", "FAILED", "NOT_STARTED"}]
  /\ group \in [Entries -> SUBSET {"leader", "descendant"}]
  /\ exit \in [Entries -> {"none", "ok", "error"}]
  /\ bundle \in [Entries -> {"none", "open", "sealed"}]
  /\ launches \in [Entries -> Nat]
  /\ receipt.status \in {"none", "COMPLETE", "FAILED"}

(* However many runners are started, and whichever crash, an entry's raw   *)
(* directory has at most one process group that ever wrote it.             *)
LaunchedOnce == \A e \in Entries : launches[e] <= 1

(* _validate_execution_receipt of the campaign reviewer.                   *)
ReceiptAccepted ==
  /\ receipt.status = "COMPLETE" /\ receipt.signed
  /\ \A e \in Entries : records[e] = "COMPLETE" /\ bundle[e] = "sealed"

(* A COMPLETE record stands for a sealed bundle that no process can change *)
(* any more, NOT_STARTED for an entry that was never started; a receipt    *)
(* signed as complete is one the reviewer accepts.                         *)
RecordsTruthful ==
  /\ \A e \in Entries :
       /\ outcome[e] = "COMPLETE" => bundle[e] = "sealed" /\ group[e] = {}
       /\ outcome[e] = "NOT_STARTED" => launches[e] = 0
  /\ receipt.status = "COMPLETE" /\ receipt.signed => ReceiptAccepted

(* Every runner refuses, is killed or signs its receipt: no entry waits    *)
(* for tokens for ever, however heavy.                                     *)
RunnersEnd == \A r \in Runners : <>(rpc[r] \in Over)
=============================================================================
