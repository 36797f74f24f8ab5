--------------------------- MODULE CampaignProofs ---------------------------
(***************************************************************************)
(* Proofs about Campaign for any number of runners and entries, any        *)
(* weights and any core budgets.                                           *)
(*                                                                         *)
(* LaunchedOnce: entries are queued when the holder of the claim submits   *)
(* them, so it must be shown that this happens once: nothing is queued     *)
(* before there is a claim, the claim has one holder, and the holder       *)
(* submits to an empty pool.  RecordsTruthful: a record is made by the     *)
(* thread that waited for the entry's process and cannot change later, so  *)
(* what it says is tied to how that process and its group ended, and the   *)
(* receipt to the records it counts.                                       *)
(***************************************************************************)
EXTENDS Campaign, TLAPS

(* The types the argument needs.                                           *)
Types ==
  /\ rpc \in [Runners -> {"fresh", "scan", "claim", "submit", "execute",
                          "sign"} \cup Over]
  /\ claim \in Runners \cup {NoRunner}
  /\ job \in [Entries -> {"new", "queued", "waiting", "holding", "running",
                          "releasing", "returned", "collected"}]
  /\ launches \in [Entries -> Nat]

AllNew == \A e \in Entries : job[e] = "new"

(* Only the holder of the claim goes past it.                              *)
ClaimHeld ==
  \A r \in Runners : rpc[r] \in {"submit", "execute", "sign", "done"} => claim = r

(* The pool is empty until its owner submits.                              *)
QueuedLate ==
  /\ claim = NoRunner => AllNew
  /\ \A r \in Runners : rpc[r] = "submit" => AllNew

(* An entry that was started is past the point where it is started.        *)
StartedOnce ==
  \A e \in Entries :
    \/ launches[e] = 0
    \/ launches[e] = 1 /\ job[e] \in {"running", "releasing", "returned",
                                      "collected"}

LaunchInv == Types /\ ClaimHeld /\ QueuedLate /\ StartedOnce

(* No runner has started and nothing is queued.                            *)
LEMMA InitLaunch == Init => LaunchInv
  BY DEF Init, LaunchInv, Types, ClaimHeld, QueuedLate, AllNew, StartedOnce, Over

(* The main threads, the claim and its submission.                         *)
LEMMA MainLaunch ==
  ASSUME NEW r \in Runners, LaunchInv, Main(r) \/ Crash(r) \/ WriteReceipt
  PROVE  LaunchInv'
<1> USE DEF LaunchInv, Types, ClaimHeld, QueuedLate, AllNew, StartedOnce, Over,
            procVars, poolVars, launchVars
<1>1. CASE CheckFresh(r)
  BY <1>1 DEF CheckFresh, Move
<1>2. CASE CheckActive(r)
  BY <1>2 DEF CheckActive, Move
<1>3. CASE Claim(r)
  <2>1. CASE claim = NoRunner
    BY <1>3, <2>1, CampaignAssumption DEF Claim, Move
  <2>2. CASE claim # NoRunner
    BY <1>3, <2>2 DEF Claim, Move
  <2> QED BY <2>1, <2>2
<1>4. CASE Submit(r)
  BY <1>4, CampaignAssumption DEF Submit, Move
<1>5. CASE SignReceipt(r)
  BY <1>5 DEF SignReceipt, Move
<1>6. CASE Crash(r)
  BY <1>6 DEF Crash
<1>7. CASE WriteReceipt
  BY <1>7, CampaignAssumption DEF WriteReceipt, Executing
<1> QED BY <1>1, <1>2, <1>3, <1>4, <1>5, <1>6, <1>7 DEF Main

(* A thread moves its own entry forward, and only Launch starts it.        *)
LEMMA ThreadLaunch ==
  ASSUME NEW e \in Entries, LaunchInv, Thread(e) \/ Collect(e)
  PROVE  LaunchInv'
<1> USE DEF LaunchInv, Types, ClaimHeld, QueuedLate, AllNew, StartedOnce, Over,
            procVars, poolVars, launchVars, Advance, Executing
<1>1. CASE Enter(e)
  BY <1>1, CampaignAssumption DEF Enter
<1>2. CASE SkipEarly(e)
  BY <1>2, CampaignAssumption DEF SkipEarly
<1>3. CASE RefuseWeight(e)
  BY <1>3, CampaignAssumption DEF RefuseWeight
<1>4. CASE Acquire(e)
  BY <1>4, CampaignAssumption DEF Acquire
<1>5. CASE SkipLate(e)
  BY <1>5, CampaignAssumption DEF SkipLate
<1>6. CASE WindowExpired(e)
  BY <1>6, CampaignAssumption DEF WindowExpired
<1>7. CASE LaunchRefused(e)
  BY <1>7, CampaignAssumption DEF LaunchRefused
<1>8. CASE Launch(e)
  BY <1>8, CampaignAssumption DEF Launch
<1>9. CASE TimeOut(e)
  BY <1>9, CampaignAssumption DEF TimeOut
<1>10. CASE FindSurvivors(e)
  BY <1>10, CampaignAssumption DEF FindSurvivors
<1>11. CASE Judge(e)
  BY <1>11, CampaignAssumption DEF Judge
<1>12. CASE Release(e)
  BY <1>12, CampaignAssumption DEF Release
<1>13. CASE Collect(e)
  BY <1>13, CampaignAssumption DEF Collect
<1> QED BY <1>1, <1>2, <1>3, <1>4, <1>5, <1>6, <1>7, <1>8, <1>9, <1>10, <1>11,
           <1>12, <1>13 DEF Thread

(* Processes, time and stuttering touch neither claim, pool nor launches.  *)
LEMMA OthersLaunch ==
  ASSUME LaunchInv,
         \/ \E e \in Entries : Process(e)
         \/ Expire \/ AllOver \/ UNCHANGED vars
  PROVE  LaunchInv'
<1>1. UNCHANGED <<launchVars, job, launches>>
  BY DEF Process, Fork, OpenBundle, SealBundle, LeaderExits, DescendantExits,
         Expire, AllOver, vars, poolVars, procVars
<1> QED
  BY <1>1 DEF LaunchInv, Types, ClaimHeld, QueuedLate, AllNew, StartedOnce,
              launchVars

(* Every step of the campaign keeps the invariant.                         *)
LEMMA StepLaunch == LaunchInv /\ [Next]_vars => LaunchInv'
<1> SUFFICES ASSUME LaunchInv, [Next]_vars PROVE LaunchInv'
  OBVIOUS
<1>1. CASE \E r \in Runners : Main(r) \/ Crash(r)
  BY <1>1, MainLaunch
<1>2. CASE \E e \in Entries : Thread(e) \/ Collect(e)
  BY <1>2, ThreadLaunch
<1>3. CASE WriteReceipt
  <2>1. claim \in Runners
    BY <1>3 DEF WriteReceipt, Executing, LaunchInv, Types
  <2> QED BY <1>3, <2>1, MainLaunch
<1>4. CASE \/ \E e \in Entries : Process(e)
           \/ Expire \/ AllOver \/ UNCHANGED vars
  BY <1>4, OthersLaunch
<1> QED BY <1>1, <1>2, <1>3, <1>4 DEF Next

(* However many runners are started and whichever are killed, no entry is  *)
(* launched twice: the claim's mkdir is the only mutual exclusion there is *)
(* between runner processes.                                               *)
THEOREM LaunchTheorem == Spec => []LaunchedOnce
<1>1. LaunchInv => LaunchedOnce
  BY DEF LaunchInv, StartedOnce, LaunchedOnce
<1> QED BY <1>1, InitLaunch, StepLaunch, PTL DEF Spec
-----------------------------------------------------------------------------
(* What the records and the receipt say *)

Outcomes == {"none", "COMPLETE", "FAILED", "NOT_STARTED"}

RecordTypes ==
  /\ outcome \in [Entries -> Outcomes] /\ records \in [Entries -> Outcomes]
  /\ group \in [Entries -> SUBSET {"leader", "descendant"}]
  /\ exit \in [Entries -> {"none", "ok", "error"}]
  /\ bundle \in [Entries -> {"none", "open", "sealed"}]
  /\ receipt \in [status : {"none", "COMPLETE", "FAILED"}, signed : BOOLEAN]

(* An outcome is final: the thread that returns it is past the process it  *)
(* ran, and a process that ended well had sealed.                          *)
OutcomeFinal(e) ==
  /\ outcome[e] # "none" => job[e] \in {"releasing", "returned", "collected"}
  /\ exit[e] = "ok" => bundle[e] = "sealed"
  /\ outcome[e] = "COMPLETE" => bundle[e] = "sealed" /\ group[e] = {}
  /\ outcome[e] = "NOT_STARTED" => launches[e] = 0
  /\ records[e] = "COMPLETE" => job[e] = "collected" /\ outcome[e] = "COMPLETE"

(* A receipt that says complete was written from complete records.         *)
ReceiptFromRecords ==
  receipt.status = "COMPLETE" => \A e \in Entries : records[e] = "COMPLETE"

RecordInv ==
  /\ LaunchInv /\ RecordTypes /\ ReceiptFromRecords
  /\ \A e \in Entries : OutcomeFinal(e)

(* Nothing has an outcome and there is no receipt.                         *)
LEMMA InitRecord == Init => RecordInv
BY InitLaunch DEF Init, RecordInv, RecordTypes, Outcomes, ReceiptFromRecords,
   OutcomeFinal, NoReceipt

(* A runner's main thread empties no pool and records nothing: it submits  *)
(* to a pool in which no entry has an outcome, and writes what it has.     *)
LEMMA MainRecord ==
  ASSUME NEW r \in Runners, RecordInv, Main(r) \/ Crash(r) \/ WriteReceipt
  PROVE  /\ RecordTypes' /\ ReceiptFromRecords'
         /\ \A e \in Entries : OutcomeFinal(e)'
<1>i. /\ LaunchInv /\ RecordTypes /\ ReceiptFromRecords
      /\ \A e \in Entries : OutcomeFinal(e)
  BY DEF RecordInv
<1> USE DEF procVars, poolVars
<1>1. ASSUME UNCHANGED <<poolVars, procVars, receipt>>
      PROVE  /\ RecordTypes' /\ ReceiptFromRecords'
             /\ \A e \in Entries : OutcomeFinal(e)'
  BY <1>i, <1>1 DEF RecordTypes, ReceiptFromRecords, OutcomeFinal
<1>2. CASE CheckFresh(r) \/ CheckActive(r) \/ Claim(r) \/ Crash(r)
  BY <1>1, <1>2 DEF CheckFresh, CheckActive, Claim, Crash
<1>3. CASE Submit(r)
  <2>1. /\ job' = [e \in Entries |-> "queued"] /\ rpc[r] = "submit"
        /\ UNCHANGED <<outcome, records, procVars, receipt>>
    BY <1>3 DEF Submit, Move
  <2>2. \A e \in Entries : job[e] = "new"
    BY <1>i, <2>1 DEF LaunchInv, QueuedLate, AllNew
  <2>3. \A e \in Entries : outcome[e] = "none"
    BY <1>i, <2>2 DEF OutcomeFinal
  <2>4. RecordTypes' /\ ReceiptFromRecords'
    BY <1>i, <2>1 DEF RecordTypes, ReceiptFromRecords
  <2>5. \A e \in Entries : OutcomeFinal(e)'
    BY <1>i, <2>1, <2>3 DEF OutcomeFinal
  <2> QED BY <2>4, <2>5
<1>4. CASE WriteReceipt
  <2>1. /\ receipt' = [status |-> ReceiptStatus, signed |-> FALSE]
        /\ UNCHANGED <<poolVars, procVars>>
    BY <1>4 DEF WriteReceipt
  <2>2. /\ ReceiptStatus \in {"COMPLETE", "FAILED"}
        /\ ReceiptStatus = "COMPLETE" => \A e \in Entries : records[e] = "COMPLETE"
    BY DEF ReceiptStatus
  <2>3. RecordTypes' /\ ReceiptFromRecords'
    BY <1>i, <2>1, <2>2 DEF RecordTypes, ReceiptFromRecords
  <2>4. \A e \in Entries : OutcomeFinal(e)'
    BY <1>i, <2>1 DEF OutcomeFinal
  <2> QED BY <2>3, <2>4
<1>5. CASE SignReceipt(r)
  <2>1. /\ receipt' = [receipt EXCEPT !.signed = TRUE]
        /\ UNCHANGED <<poolVars, procVars>>
    BY <1>5 DEF SignReceipt
  <2>2. RecordTypes' /\ ReceiptFromRecords'
    BY <1>i, <2>1 DEF RecordTypes, ReceiptFromRecords
  <2>3. \A e \in Entries : OutcomeFinal(e)'
    BY <1>i, <2>1 DEF OutcomeFinal
  <2> QED BY <2>2, <2>3
<1> QED BY <1>2, <1>3, <1>4, <1>5 DEF Main

(* A thread gives its entry one outcome, when it leaves the process.       *)
LEMMA ThreadRecord ==
  ASSUME NEW d \in Entries, RecordInv, Thread(d) \/ Collect(d)
  PROVE  /\ RecordTypes' /\ ReceiptFromRecords'
         /\ \A e \in Entries : OutcomeFinal(e)'
<1>i. /\ LaunchInv /\ RecordTypes /\ ReceiptFromRecords
      /\ \A e \in Entries : OutcomeFinal(e)
      /\ job \in [Entries -> {"new", "queued", "waiting", "holding", "running",
                              "releasing", "returned", "collected"}]
      /\ launches \in [Entries -> Nat] /\ StartedOnce
  BY DEF RecordInv, LaunchInv, Types
<1> USE DEF procVars, poolVars, Outcomes
<1>a. ASSUME NEW from, NEW to, Advance(d, from, to)
      PROVE  job[d] = from /\ job' = [job EXCEPT ![d] = to]
  BY <1>a DEF Advance
(* The thread moves and nothing is decided.                                *)
<1>m. ASSUME UNCHANGED <<outcome, records, procVars, receipt>>,
             NEW from \in {"queued", "waiting", "holding", "releasing"},
             NEW to \in {"waiting", "holding", "returned"}, Advance(d, from, to),
             from = "releasing" => to = "returned"
      PROVE  /\ RecordTypes' /\ ReceiptFromRecords'
             /\ \A e \in Entries : OutcomeFinal(e)'
  <2>1. job[d] = from /\ job' = [job EXCEPT ![d] = to]
    BY <1>m, <1>a
  <2>2. \A e \in Entries : OutcomeFinal(e)'
    BY <1>i, <1>m, <2>1 DEF OutcomeFinal
  <2> QED BY <1>i, <1>m, <2>2 DEF RecordTypes, ReceiptFromRecords
(* The thread leaves with an outcome.                                      *)
<1>r. ASSUME NEW from \in {"queued", "holding", "running"},
             NEW to \in {"releasing", "returned"}, Advance(d, from, to),
             NEW status \in {"COMPLETE", "FAILED", "NOT_STARTED"},
             Result(d, status),
             UNCHANGED <<records, exit, bundle, launches, receipt>>,
             \A e \in Entries \ {d} : group'[e] = group[e],
             group' \in [Entries -> SUBSET {"leader", "descendant"}],
             status = "COMPLETE" => bundle[d] = "sealed" /\ group'[d] = {},
             status = "NOT_STARTED" => from # "running"
      PROVE  /\ RecordTypes' /\ ReceiptFromRecords'
             /\ \A e \in Entries : OutcomeFinal(e)'
  <2>1. /\ job[d] = from /\ job' = [job EXCEPT ![d] = to]
        /\ outcome' = [outcome EXCEPT ![d] = status]
    BY <1>r, <1>a DEF Result
  <2>2. RecordTypes'
    BY <1>i, <1>r, <2>1 DEF RecordTypes
  <2>3. ReceiptFromRecords'
    BY <1>i, <1>r DEF ReceiptFromRecords
  <2>4. ASSUME NEW e \in Entries PROVE OutcomeFinal(e)'
    <3>1. CASE e = d
      <4>1. outcome'[d] = status /\ job'[d] = to
        BY <1>i, <2>1 DEF RecordTypes
      <4>2. from # "running" => launches[d] = 0
        BY <1>i, <1>r, <2>1 DEF StartedOnce
      <4>3. records[d] # "COMPLETE"
        BY <1>i, <1>r, <2>1 DEF OutcomeFinal
      <4> QED BY <1>i, <1>r, <3>1, <4>1, <4>2, <4>3 DEF OutcomeFinal
    <3>2. CASE e # d
      <4>1. outcome'[e] = outcome[e] /\ job'[e] = job[e] /\ group'[e] = group[e]
        BY <1>i, <1>r, <2>1, <3>2 DEF RecordTypes
      <4> QED BY <1>i, <1>r, <4>1 DEF OutcomeFinal
    <3> QED BY <3>1, <3>2
  <2> QED BY <2>2, <2>3, <2>4
<1>1. CASE Enter(d)
  BY <1>1, <1>m DEF Enter
<1>2. CASE SkipEarly(d)
  BY <1>2, <1>r, <1>i DEF SkipEarly, RecordTypes
<1>3. CASE RefuseWeight(d)
  BY <1>3, <1>r, <1>i DEF RefuseWeight, RecordTypes
<1>4. CASE Acquire(d)
  BY <1>4, <1>m DEF Acquire
<1>5. CASE SkipLate(d)
  BY <1>5, <1>r, <1>i DEF SkipLate, RecordTypes
<1>6. CASE WindowExpired(d)
  BY <1>6, <1>r, <1>i DEF WindowExpired, RecordTypes
<1>7. CASE LaunchRefused(d)
  BY <1>7, <1>r, <1>i DEF LaunchRefused, RecordTypes
<1>8. CASE Launch(d)
  <2>1. /\ job[d] = "holding" /\ job' = [job EXCEPT ![d] = "running"]
        /\ group' = [group EXCEPT ![d] = {"leader"}]
        /\ launches' = [launches EXCEPT ![d] = @ + 1]
        /\ UNCHANGED <<outcome, records, exit, bundle, receipt>>
    BY <1>8, <1>a DEF Launch
  <2>2. RecordTypes' /\ ReceiptFromRecords'
    BY <1>i, <2>1 DEF RecordTypes, ReceiptFromRecords
  <2>3. ASSUME NEW e \in Entries PROVE OutcomeFinal(e)'
    <3>1. CASE e = d
      <4>1. outcome[d] = "none" /\ records[d] # "COMPLETE"
        BY <1>i, <2>1 DEF OutcomeFinal
      <4> QED BY <1>i, <2>1, <3>1, <4>1 DEF OutcomeFinal
    <3>2. CASE e # d
      <4>1. /\ job'[e] = job[e] /\ group'[e] = group[e]
            /\ launches'[e] = launches[e]
        BY <1>i, <2>1, <3>2 DEF RecordTypes
      <4> QED BY <1>i, <2>1, <4>1 DEF OutcomeFinal
    <3> QED BY <3>1, <3>2
  <2> QED BY <2>2, <2>3
<1>t. ASSUME Terminate(d)
      PROVE  /\ group' \in [Entries -> SUBSET {"leader", "descendant"}]
             /\ \A e \in Entries \ {d} : group'[e] = group[e]
  BY <1>i, <1>t DEF Terminate, RecordTypes
<1>9. CASE TimeOut(d)
  <2>1. /\ Advance(d, "running", "releasing") /\ Terminate(d)
        /\ Result(d, "FAILED")
        /\ UNCHANGED <<records, exit, bundle, launches, receipt>>
    BY <1>9 DEF TimeOut
  <2> QED BY <2>1, <1>r, <1>t
<1>10. CASE FindSurvivors(d)
  <2>1. /\ Advance(d, "running", "releasing") /\ Terminate(d)
        /\ Result(d, "FAILED")
        /\ UNCHANGED <<records, exit, bundle, launches, receipt>>
    BY <1>10 DEF FindSurvivors
  <2> QED BY <2>1, <1>r, <1>t
<1>11. CASE Judge(d)
  <2>1. PICK status \in {"COMPLETE", "FAILED"} :
          /\ Result(d, status)
          /\ status = "COMPLETE" => exit[d] = "ok"
    BY <1>11 DEF Judge
  <2>2. /\ Advance(d, "running", "releasing") /\ group[d] = {}
        /\ UNCHANGED <<records, procVars, receipt>>
    BY <1>11 DEF Judge
  <2>3. status = "COMPLETE" => bundle[d] = "sealed"
    BY <1>i, <2>1 DEF OutcomeFinal
  <2>4. group' \in [Entries -> SUBSET {"leader", "descendant"}]
    BY <1>i, <2>2 DEF RecordTypes
  <2> QED BY <2>1, <2>2, <2>3, <2>4, <1>r
<1>12. CASE Release(d)
  BY <1>12, <1>m DEF Release
<1>13. CASE Collect(d)
  <2>1. /\ job[d] = "returned" /\ job' = [job EXCEPT ![d] = "collected"]
        /\ records' = [records EXCEPT ![d] = outcome[d]]
        /\ UNCHANGED <<outcome, procVars, receipt>>
    BY <1>13, <1>a DEF Collect
  <2>2. RecordTypes'
    BY <1>i, <2>1 DEF RecordTypes
  <2>3. records[d] # "COMPLETE"
    BY <1>i, <2>1 DEF OutcomeFinal
  <2>4. ReceiptFromRecords'
    BY <1>i, <2>1, <2>3 DEF ReceiptFromRecords
  <2>5. \A e \in Entries : OutcomeFinal(e)'
    BY <1>i, <2>1 DEF OutcomeFinal, RecordTypes
  <2> QED BY <2>2, <2>4, <2>5
<1> QED BY <1>1, <1>2, <1>3, <1>4, <1>5, <1>6, <1>7, <1>8, <1>9, <1>10, <1>11,
           <1>12, <1>13 DEF Thread

(* A bundle that is sealed stays sealed, and a group that is empty can     *)
(* write nothing more.                                                     *)
LEMMA OthersRecord ==
  ASSUME RecordInv,
         \/ \E e \in Entries : Process(e)
         \/ Expire \/ AllOver \/ UNCHANGED vars
  PROVE  /\ RecordTypes' /\ ReceiptFromRecords'
         /\ \A e \in Entries : OutcomeFinal(e)'
<1>i. /\ LaunchInv /\ RecordTypes /\ ReceiptFromRecords
      /\ \A e \in Entries : OutcomeFinal(e)
  BY DEF RecordInv
<1> USE DEF procVars, poolVars
<1>1. ASSUME NEW d \in Entries, Process(d)
      PROVE  /\ RecordTypes' /\ ReceiptFromRecords'
             /\ \A e \in Entries : OutcomeFinal(e)'
  <2>1. /\ UNCHANGED <<job, outcome, records, launches, receipt>>
        /\ group[d] # {} /\ group[d] \subseteq {"leader", "descendant"}
    BY <1>1, <1>i DEF Process, Fork, OpenBundle, SealBundle, LeaderExits,
       DescendantExits, RecordTypes
  <2>2. ReceiptFromRecords'
    BY <1>i, <2>1 DEF ReceiptFromRecords
  <2>3. /\ group' \in [Entries -> SUBSET {"leader", "descendant"}]
        /\ \A e \in Entries \ {d} : group'[e] = group[e]
    BY <1>1, <1>i DEF Process, Fork, OpenBundle, SealBundle, LeaderExits,
       DescendantExits, RecordTypes
  <2>4. /\ exit' \in [Entries -> {"none", "ok", "error"}]
        /\ \A e \in Entries \ {d} : exit'[e] = exit[e]
        /\ exit'[d] = "ok" => exit[d] = "ok" \/ bundle[d] = "sealed"
    BY <1>1, <1>i DEF Process, Fork, OpenBundle, SealBundle, LeaderExits,
       DescendantExits, RecordTypes
  <2>5. /\ bundle' \in [Entries -> {"none", "open", "sealed"}]
        /\ \A e \in Entries \ {d} : bundle'[e] = bundle[e]
        /\ bundle[d] = "sealed" => bundle'[d] = "sealed"
    BY <1>1, <1>i DEF Process, Fork, OpenBundle, SealBundle, LeaderExits,
       DescendantExits, RecordTypes
  <2>6. RecordTypes'
    BY <1>i, <2>1, <2>3, <2>4, <2>5 DEF RecordTypes
  <2>7. ASSUME NEW e \in Entries PROVE OutcomeFinal(e)'
    <3>1. CASE e = d
      <4>1. outcome[d] # "COMPLETE"
        BY <1>i, <2>1 DEF OutcomeFinal
      <4> QED BY <1>i, <2>1, <2>4, <2>5, <3>1, <4>1 DEF OutcomeFinal
    <3>2. CASE e # d
      BY <1>i, <2>1, <2>3, <2>4, <2>5, <3>2 DEF OutcomeFinal
    <3> QED BY <3>1, <3>2
  <2> QED BY <2>2, <2>6, <2>7
<1>2. CASE Expire \/ AllOver \/ UNCHANGED vars
  <2>1. UNCHANGED <<poolVars, procVars, receipt>>
    BY <1>2 DEF Expire, AllOver, vars
  <2> QED BY <1>i, <2>1 DEF RecordTypes, ReceiptFromRecords, OutcomeFinal
<1> QED BY <1>1, <1>2

(* Every step of the campaign keeps the records true.                      *)
LEMMA StepRecord == RecordInv /\ [Next]_vars => RecordInv'
<1> SUFFICES ASSUME RecordInv, [Next]_vars PROVE RecordInv'
  OBVIOUS
<1>0. LaunchInv'
  BY StepLaunch DEF RecordInv
<1> SUFFICES /\ RecordTypes' /\ ReceiptFromRecords'
             /\ \A e \in Entries : OutcomeFinal(e)'
  BY <1>0 DEF RecordInv
<1>1. CASE \E r \in Runners : Main(r) \/ Crash(r)
  BY <1>1, MainRecord
<1>2. CASE \E e \in Entries : Thread(e) \/ Collect(e)
  BY <1>2, ThreadRecord
<1>3. CASE WriteReceipt
  <2>1. claim \in Runners
    BY <1>3 DEF WriteReceipt, Executing, RecordInv, LaunchInv, Types
  <2> QED BY <1>3, <2>1, MainRecord
<1>4. CASE \/ \E e \in Entries : Process(e)
           \/ Expire \/ AllOver \/ UNCHANGED vars
  BY <1>4, OthersRecord
<1> QED BY <1>1, <1>2, <1>3, <1>4 DEF Next

(* A COMPLETE record of execute_one stands for a bundle that is sealed and *)
(* that no process of the entry's group can still write, NOT_STARTED for   *)
(* an entry no runner ever launched; and the receipt that is signed as     *)
(* COMPLETE is one the campaign reviewer accepts.                          *)
THEOREM RecordTheorem == Spec => []RecordsTruthful
<1>1. RecordInv => RecordsTruthful
  BY DEF RecordInv, OutcomeFinal, ReceiptFromRecords, RecordsTruthful,
         ReceiptAccepted
<1> QED BY <1>1, InitRecord, StepRecord, PTL DEF Spec

=============================================================================
