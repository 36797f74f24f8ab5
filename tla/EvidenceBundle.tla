--------------------------- MODULE EvidenceBundle ---------------------------
(***************************************************************************)
(* run_config of runner.py writes the bundle of one run label, and         *)
(* reviewer.py decides what a bundle on disk is worth.  Several runners    *)
(* may be started for a label, with configs and native builds of their     *)
(* own; any may be killed or fail to write, at any step, and the host may  *)
(* crash: nothing is synced, so a file may then be lost or cut.            *)
(*                                                                         *)
(* A digest is what it was computed over, so a sidecar repeats the         *)
(* document it signs.  Events carry what reviews tell apart: the work they *)
(* account for and the state they leave; the first one is tagged with the  *)
(* run that emitted it.                                                    *)
(***************************************************************************)
EXTENDS EvidenceLifecycle, Integers, FiniteSets, SequencesExt

CONSTANTS
  Runners,     \* runner processes started for the label
  Configs,     \* run configs that name the label
  Plans,       \* those a plan may have made its expected identity from
  Builds,      \* native builds that may be installed
  Dirty,       \* those built from a dirty tree or as a development override
  NoRunner

Backends == {"python", "native"}
Policies == {"semantic", "semantic_and_physical"}

ASSUME BundleAssumption ==
  /\ Configs \subseteq [id : Nat, backend : Backends, policy : Policies,
                        build : Builds]
  /\ Plans \subseteq Configs
  /\ \A c \in Plans : c.build \notin Dirty   \* else it has no expected identity
  /\ Dirty \subseteq Builds
  /\ NoRunner \notin Runners

VARIABLES
  planned,    \* the config the expected identity was made from
  pc,         \* where each runner is
  input,      \* the config a runner was given
  installed,  \* the native build its process has loaded
  outcome,    \* what execute_case emitted, returned or raised
  todo,       \* the files it has still to write
  pen,        \* TRUE between the creation of a file and its contents
  owner,      \* whose mkdir made the run directory
  disk,       \* the files of the run directory, and their sidecars
  crashed,    \* the host has crashed
  reviewer,   \* where the process that replays the bundle is
  reviewDir,  \* the review directory exists
  review      \* review.json and its sidecar

runVars    == <<pc, input, installed, outcome, todo, pen, owner>>
reviewVars == <<reviewer, reviewDir, review>>
vars == <<planned, runVars, disk, crashed, reviewVars>>

Streams == {"events", "events-0000", "events-0001",
            "physical", "physical-0000", "physical-0001"}
Paths == Streams \cup {"config", "result", "failure", "manifest"}
Files == Paths \X {"data", "sidecar"}
Ended == {"sealed", "failed", "refused", "stopped"}

(* What a file holds when it holds no document: there is no such file, or  *)
(* it is empty or cut short.                                               *)
Absent == [kind |-> "absent"]
Torn   == [kind |-> "torn"]

-----------------------------------------------------------------------------
(* Documents                                                               *)

(* Each line of a stream repeats the digest of the lines before it.        *)
Chain(events) ==
  [i \in DOMAIN events |->
     [event_id |-> i - 1, previous |-> SubSeq(events, 1, i - 1),
      payload |-> events[i]]]

Document(p, body) == [path |-> p, body |-> body]
ConfigDoc(c)      == Document("config", [kind |-> "config", config |-> c])
StreamDoc(p, events) ==
  Document(p, [kind |-> "stream", records |-> Chain(events)])

(* The entry the manifest keeps of a document it binds.                    *)
Entry(doc) ==
  [path |-> doc.path, sha256 |-> doc.body,
   terminal |-> IF doc.path \in Streams
                THEN [i \in DOMAIN doc.body.records |->
                        doc.body.records[i].payload]
                ELSE <<>>]
Entries(docs) == [i \in DOMAIN docs |-> Entry(docs[i])]

Identity(build) == [kind |-> "identity", build |-> build]
Artifacts(entries) == [kind |-> "artifacts", entries |-> entries]

Running(r) ==
  Advance(Start(ConfigDoc(input[r]).body), "RUNNING", Identity(installed[r]))

Manifest(r, decision, docs) ==
  Document("manifest",
    [kind |-> "manifest", decision |-> decision, input |-> ConfigDoc(input[r]).body,
     identity |-> Identity(installed[r]), artifacts |-> Entries(docs),
     lifecycle |-> Advance(Running(r), "SEALED", Artifacts(Entries(docs)))])

Result(c, events, state, reason) ==
  [kind |-> "result", config |-> c, semantic |-> events, state |-> state,
   reason |-> reason, physical |-> c.policy = "semantic_and_physical"]

(* One file per stream, numbered only when there are several.              *)
Numbered == [events   |-> <<"events-0000", "events-0001">>,
             physical |-> <<"physical-0000", "physical-0001">>]

(* The streams of a failure all go to one file name.                       *)
FailureStreamsUnnumbered(stem, streams) ==
  [i \in DOMAIN streams |-> StreamDoc(stem, streams[i])]

FailureStreams(stem, streams) ==
  [i \in DOMAIN streams |->
     StreamDoc(IF Len(streams) = 1 THEN stem ELSE Numbered[stem][i], streams[i])]

(* The streams that are not empty, in their order.                         *)
Retained(streams) ==
  LET kept == {i \in DOMAIN streams : streams[i] # <<>>}
      Rank(i) == Cardinality({j \in kept : j <= i})
  IN  [k \in 1..Cardinality(kept) |->
         streams[CHOOSE i \in kept : Rank(i) = k]]

Odd == [event |-> "a payload JSON cannot express"]
Encodable(streams) == \A i \in DOMAIN streams : Odd \notin ToSet(streams[i])

(* What the runner asks of an execution before it writes a raw bundle.     *)
Presentable(o) ==
  /\ ~o.raised
  /\ Len(o.semantic) = 1 /\ o.semantic[1] # <<>>
  /\ Len(o.physical) <= 1 /\ \A i \in DOMAIN o.physical : o.physical[i] # <<>>
  /\ o.result.kind = "result"
  /\ Encodable(o.semantic) /\ Encodable(o.physical)

RawDocs(r, o) ==
  <<ConfigDoc(input[r]), StreamDoc("events", o.semantic[1]),
    Document("result", o.result)>>
  \o (IF o.physical = <<>> THEN <<>>
      ELSE <<StreamDoc("physical", o.physical[1])>>)

FailureDocs(r, o) ==
  LET semantic == Retained(o.semantic)
      physical == Retained(o.physical)
  IN  <<ConfigDoc(input[r]),
        Document("failure",
          [kind |-> "failure", run |-> r,
           semantic |-> Len(semantic), physical |-> Len(physical)])>>
      \o FailureStreams("events", semantic)
      \o FailureStreams("physical", physical)

(* The manifest binds the documents before it.                             *)
Outputs(r, o) == IF Presentable(o) THEN RawDocs(r, o) ELSE FailureDocs(r, o)
Decision(o)   == IF Presentable(o) THEN "none" ELSE "FAILED"
Documents(r, o) ==
  Append(Outputs(r, o), Manifest(r, Decision(o), Outputs(r, o)))

(* A document and its sidecar are two files, written in this order.        *)
FilesOf(docs) ==
  [i \in 1..(2 * Len(docs)) |->
     LET doc == docs[(i + 1) \div 2]
     IN  [file |-> <<doc.path, IF i % 2 = 1 THEN "data" ELSE "sidecar">>,
          body |-> doc.body]]

-----------------------------------------------------------------------------
(* What execute_case may do.  Work is committed or wasted, one unit of     *)
(* each at most; a native round leaves a receipt unless it throws first.   *)

NoResult    == [kind |-> "none"]
OtherResult == [kind |-> "not an object"]

Semantic(r, work, reason) ==
  <<[event |-> "run_open", run |-> r, state |-> 0]>>
    \o (IF work = 0 THEN <<>>
        ELSE <<[event |-> "committed", started_work |-> work, state |-> work]>>)
    \o <<[event |-> "run_terminated", reason |-> reason]>>

Physical(r, work, wasted, receipts) ==
  <<[event |-> "run_observation", run |-> r, cmax |-> work + wasted]>>
    \o (IF receipts = 0 THEN <<>>
        ELSE <<[event |-> "native_round_observation", started_work |-> receipts]>>)
    \o (IF wasted = 0 THEN <<>>
        ELSE <<[event |-> "t4_waste_observation", discarded |-> wasted]>>)

Receipts(c, work, wasted, thrown) ==
  IF c.backend = "python" THEN 0
  ELSE IF thrown THEN work ELSE work + wasted

PhysicalStreams(r, c, work, wasted, thrown) ==
  IF c.policy = "semantic" THEN <<>>
  ELSE <<Physical(r, work, wasted, Receipts(c, work, wasted, thrown))>>

Outcome(semantic, physical, result, raised) ==
  [semantic |-> semantic, physical |-> physical, result |-> result,
   raised |-> raised]

Completed(r, c) ==
  { LET s == Semantic(r, work, "done")
    IN  Outcome(<<s>>, PhysicalStreams(r, c, work, wasted, FALSE),
                Result(c, s, work, "done"), FALSE)
    : work \in {0, 1}, wasted \in {0, 1} }

(* An exception before the trace, in a round, or in the physical sink.     *)
Raised(r, c) ==
  {Outcome(<<>>, <<>>, NoResult, TRUE)}
  \cup { Outcome(<<Semantic(r, work, "error")>>,
                 PhysicalStreams(r, c, work, wasted, thrown), NoResult, TRUE)
         : work \in {0, 1}, wasted \in {0, 1}, thrown \in BOOLEAN }
  \cup { Outcome(<<Semantic(r, work, "done")>>, <<>>, NoResult, TRUE)
         : work \in {w \in {0, 1} : c.policy = "semantic_and_physical"} }

(* What no trace of the runtime looks like: the runner checks for it.      *)
Malformed(r, c) ==
  LET s == Semantic(r, 0, "done")
      p == PhysicalStreams(r, c, 0, 0, FALSE)
      good == Result(c, s, 0, "done")
  IN  { Outcome(streams, p, good, FALSE)
        : streams \in {<<>>, <<<<>>>>, <<s, s>>, <<<<>>, s>>, <<<<Odd>>>>} }
      \cup {Outcome(<<s>>, p, OtherResult, FALSE)}
      \cup { Outcome(<<s>>, streams, good, FALSE)
             : streams \in IF p = <<>> THEN {} ELSE {<<<<>>>>, p \o p} }

Executions(r, c) == Completed(r, c) \cup Raised(r, c) \cup Malformed(r, c)

-----------------------------------------------------------------------------
(* The runner                                                              *)

Init ==
  /\ planned \in Plans
  /\ pc = [r \in Runners |-> "fresh"]
  /\ input \in [Runners -> Configs]
  /\ installed \in [Runners -> Builds]
  /\ outcome = [r \in Runners |-> Outcome(<<>>, <<>>, NoResult, FALSE)]
  /\ todo = [r \in Runners |-> <<>>]
  /\ pen = [r \in Runners |-> FALSE]
  /\ owner = NoRunner
  /\ disk = [f \in Files |-> Absent]
  /\ crashed = FALSE
  /\ reviewer = "idle" /\ reviewDir = FALSE
  /\ review = [data |-> Absent, sidecar |-> Absent]

Move(r, from, to) ==
  /\ pc[r] = from
  /\ pc' = [pc EXCEPT ![r] = to]

(* The build manifest the config binds must be the installed build, clean. *)
ProducerBound(r) ==
  /\ input[r].build = installed[r]
  /\ installed[r] \notin Dirty

Prepare(r) ==
  /\ Move(r, "fresh", IF ProducerBound(r) THEN "prepared" ELSE "refused")
  /\ UNCHANGED <<input, installed, outcome, todo, pen, owner, disk, crashed,
                 reviewVars>>

CheckAbsent(r) ==
  /\ Move(r, "prepared", IF owner = NoRunner THEN "absent" ELSE "refused")
  /\ UNCHANGED <<input, installed, outcome, todo, pen, owner, disk, crashed,
                 reviewVars>>

MakeDirectory(r) ==
  /\ owner = NoRunner
  /\ Move(r, "absent", "opening")
  /\ owner' = r
  /\ todo' = [todo EXCEPT ![r] = FilesOf(<<ConfigDoc(input[r])>>)]
  /\ UNCHANGED <<input, installed, outcome, pen, disk, crashed, reviewVars>>

MakeDirectoryRefused(r) ==
  /\ owner # NoRunner
  /\ Move(r, "absent", "refused")
  /\ UNCHANGED <<input, installed, outcome, todo, pen, owner, disk, crashed,
                 reviewVars>>

Execute(r) ==
  /\ todo[r] = <<>>
  /\ Move(r, "opening", "sealing")
  /\ \E o \in Executions(r, input[r]) :
       /\ outcome' = [outcome EXCEPT ![r] = o]
       /\ todo' = [todo EXCEPT ![r] = FilesOf(Tail(Documents(r, o)))]
  /\ UNCHANGED <<input, installed, pen, owner, disk, crashed, reviewVars>>

Busy(r) == pc[r] \in {"opening", "sealing"} /\ todo[r] # <<>>

(* A stream is encoded before its file is opened.                          *)
Writable(item) ==
  item.body.kind = "stream" =>
    Encodable(<<[i \in DOMAIN item.body.records |-> item.body.records[i].payload]>>)

(* write_exclusive: refused when the file exists, then opened, ...         *)
Create(r) ==
  LET item == Head(todo[r])
  IN  /\ Busy(r) /\ ~pen[r]
      /\ disk[item.file] = Absent /\ Writable(item)
      /\ disk' = [disk EXCEPT ![item.file] = Torn]
      /\ pen' = [pen EXCEPT ![r] = TRUE]
      /\ UNCHANGED <<pc, input, installed, outcome, todo, owner, crashed,
                     reviewVars>>

Abandon(r) ==
  /\ Busy(r) /\ ~pen[r]
  /\ \/ disk[Head(todo[r]).file] # Absent
     \/ ~Writable(Head(todo[r]))
  /\ pc' = [pc EXCEPT ![r] = "failed"]
  /\ UNCHANGED <<input, installed, outcome, todo, pen, owner, disk, crashed,
                 reviewVars>>

(* ... and filled.                                                         *)
Fill(r) ==
  LET item == Head(todo[r])
  IN  /\ Busy(r) /\ pen[r]
      /\ disk' = [disk EXCEPT ![item.file] = item.body]
      /\ pen' = [pen EXCEPT ![r] = FALSE]
      /\ todo' = [todo EXCEPT ![r] = Tail(todo[r])]
      /\ UNCHANGED <<pc, input, installed, outcome, owner, crashed, reviewVars>>

Finish(r) ==
  /\ todo[r] = <<>>
  /\ Move(r, "sealing", "sealed")
  /\ UNCHANGED <<input, installed, outcome, todo, pen, owner, disk, crashed,
                 reviewVars>>

(* Killed, or out of space, between any two of these steps.                *)
Stop(r) ==
  /\ pc[r] \in {"opening", "sealing"}
  /\ pc' = [pc EXCEPT ![r] = "stopped"]
  /\ pen' = [pen EXCEPT ![r] = FALSE]
  /\ UNCHANGED <<input, installed, outcome, todo, owner, disk, crashed,
                 reviewVars>>

(* After a crash of the host a file may be missing, cut short, or a stream *)
(* that lacks its last line; one document is hit, its sidecar or both.     *)
Damages(p) ==
  {disk[p, "data"], Torn, Absent}
  \cup IF p \in Streams /\ disk[p, "data"] # Torn
       THEN {[disk[p, "data"] EXCEPT !.records = Front(@)]}
       ELSE {}

HostCrash ==
  /\ ~crashed /\ crashed' = TRUE
  /\ owner # NoRunner
  /\ pc' = [r \in Runners |->
              IF pc[r] \in Ended \cup {"fresh"} THEN pc[r] ELSE "stopped"]
  /\ pen' = [r \in Runners |-> FALSE]
  /\ \E p \in {q \in Paths : disk[q, "data"] # Absent} :
       \E data \in Damages(p),
          sidecar \in {disk[p, "sidecar"], Torn, Absent} :
         disk' = [disk EXCEPT ![<<p, "data">>] = data,
                               ![<<p, "sidecar">>] = sidecar]
  /\ reviewer' = "idle"
  /\ UNCHANGED <<input, installed, outcome, todo, owner, reviewDir, review>>

-----------------------------------------------------------------------------
(* The reviewer: what a bundle on disk is worth                            *)

Whole(x) == x # Absent /\ x # Torn

(* verify_sidecar                                                          *)
Signed(p) == Whole(disk[p, "data"]) /\ disk[p, "sidecar"] = disk[p, "data"]

Body(p) == disk[p, "data"]
Bound == Body("manifest").artifacts
BoundPaths == {Bound[i].path : i \in DOMAIN Bound}

EntriesMatch ==
  /\ IsInjective([i \in DOMAIN Bound |-> Bound[i].path])
  /\ \A i \in DOMAIN Bound :
       Body(Bound[i].path) = Bound[i].sha256 /\ Signed(Bound[i].path)

(* Fixed before the run, from the plan's config and its build manifest.     *)
Expected == [config |-> ConfigDoc(planned).body, producer |-> Identity(planned.build)]

(* The build alone is compared with the expected identity.                 *)
BuildExpected ==
  /\ Body("manifest").identity = Expected.producer
  /\ Signed("config")

IdentityExpected ==
  /\ Body("manifest").input = Expected.config
  /\ Body("manifest").identity = Expected.producer
  /\ Signed("config") /\ Body("config") = Expected.config
  /\ \E i \in DOMAIN Bound :
       Bound[i].path = "config" /\ Bound[i].sha256 = Expected.config

ResultExpected ==
  /\ Body("result").kind = "result"
  /\ Body("result").config = planned
  /\ Body("result").physical <=> planned.policy = "semantic_and_physical"

SealedLifecycle ==
  LET m == Body("manifest")
      h == m.lifecycle
  IN  /\ Replays(h) /\ Len(h) = 3 /\ StateOf(h) = "SEALED"
      /\ h[1].evidence = m.input
      /\ h[2].evidence = m.identity
      /\ h[3].evidence = Artifacts(m.artifacts)

(* verify_raw_manifest                                                     *)
RawVerified ==
  /\ Signed("manifest") /\ Body("manifest").decision = "none"
  /\ IdentityExpected
  /\ EntriesMatch
  /\ BoundPaths \in {{"config", "events", "result"},
                     {"config", "events", "result", "physical"}}
  /\ ResultExpected
  /\ Body("result").physical <=> "physical" \in BoundPaths
  /\ SealedLifecycle

(* read_event_stream: the chain recomputed line by line, never empty.      *)
Payloads(p) == [i \in DOMAIN Body(p).records |-> Body(p).records[i].payload]
Readable(p) ==
  Signed(p) /\ Body(p).records # <<>> /\ Body(p).records = Chain(Payloads(p))

Having(events, kind) == {i \in DOMAIN events : events[i].event = kind}
Total(counts) ==
  LET total[n \in 0..Len(counts)] ==
        IF n = 0 THEN 0 ELSE total[n - 1] + counts[n]
  IN  total[Len(counts)]
NativeWork(events) ==
  Total([i \in DOMAIN events |->
           IF events[i].event = "native_round_observation"
           THEN events[i].started_work ELSE 0])

(* The ledger of a commit counts the work of the run up to it.             *)
SemanticWork(events) ==
  Max({0} \cup {events[i].started_work : i \in Having(events, "committed")})
LastState(events) ==
  LET commits == Having(events, "committed")
  IN  IF commits = {} THEN events[1].state
      ELSE events[CHOOSE i \in commits : \A j \in commits : j <= i].state

StreamValid(events, reason, state) ==
  /\ events[1].event = "run_open"
  /\ Last(events).event = "run_terminated" /\ Last(events).reason = reason
  /\ LastState(events) = state

(* The oracle the plan expects leaves a receipt for each native round.      *)
NeedsReceipts == planned.backend = "native"

(* _validate_physical_trace, for work the semantic trace accounts for.     *)
PhysicalValid(events, work) ==
  LET waste    == Having(events, "t4_waste_observation")
      receipts == Having(events, "native_round_observation")
      required == Max({work} \cup {events[i].discarded : i \in waste})
  IN  /\ Having(events, "run_observation") = {1}
      /\ DOMAIN events = {1} \cup waste \cup receipts
      /\ (required > 0 => events[1].cmax > 0)
      /\ (receipts # {} => NeedsReceipts)
      /\ (NeedsReceipts /\ required > 0 =>
            NativeWork(events) >= required)

FailureReceiptMatches(semantic, physical) ==
  /\ Body("failure").kind = "failure"
  /\ Body("failure").semantic = Cardinality(semantic)
  /\ Body("failure").physical = Cardinality(physical)

SemanticPaths == <<"events", "events-0000", "events-0001">>
PhysicalPaths == <<"physical", "physical-0000", "physical-0001">>
FailureWork(paths) ==
  Total([i \in 1..3 |-> IF SemanticPaths[i] \in paths
                        THEN SemanticWork(Payloads(SemanticPaths[i])) ELSE 0])
ReceiptedWork(paths) ==
  Total([i \in 1..3 |-> IF PhysicalPaths[i] \in paths
                        THEN NativeWork(Payloads(PhysicalPaths[i])) ELSE 0])

(* verify_failure_manifest                                                 *)
FailureVerified ==
  LET semantic == BoundPaths \cap ToSet(SemanticPaths)
      physical == BoundPaths \cap ToSet(PhysicalPaths)
  IN  /\ Signed("manifest") /\ Body("manifest").decision = "FAILED"
      /\ IdentityExpected
      /\ EntriesMatch
      /\ {"config", "failure"} \subseteq BoundPaths /\ "result" \notin BoundPaths
      /\ FailureReceiptMatches(semantic, physical)
      /\ \A p \in semantic :
           /\ Readable(p)
           /\ StreamValid(Payloads(p), Last(Payloads(p)).reason,
                          LastState(Payloads(p)))
      /\ \A p \in physical : Readable(p) /\ PhysicalValid(Payloads(p), 0)
      /\ NeedsReceipts /\ FailureWork(semantic) > 0 =>
           ReceiptedWork(physical) >= FailureWork(semantic)
      /\ SealedLifecycle

(* What _replay_manifest reads again once the manifest is verified.        *)
Replayable ==
  /\ Signed("manifest") /\ Signed("config") /\ Signed("result")
  /\ Readable("events")
  /\ LET events == Payloads("events")
         entry(p) == CHOOSE i \in DOMAIN Bound : Bound[i].path = p
     IN  /\ Body("result").semantic = events
         /\ StreamValid(events, Body("result").reason, Body("result").state)
         /\ Bound[entry("events")].terminal = events
         /\ Body("result").physical <=> Whole(disk["physical", "data"])
         /\ Whole(disk["physical", "data"]) =>
              /\ Readable("physical")
              /\ PhysicalValid(Payloads("physical"), SemanticWork(events))
              /\ Bound[entry("physical")].terminal = Payloads("physical")

(* The review starts a history of its own.                                 *)
ReviewAfresh(m) ==
  [kind |-> "review", raw_manifest |-> m, lifecycle |-> Start(m)]

Review(m) ==
  [kind |-> "review", raw_manifest |-> m, expected_identity |-> Expected,
   lifecycle |-> Advance(m.lifecycle, "REVIEWED", m)]

ReviewMove(from, to) ==
  /\ reviewer = from /\ reviewer' = to
  /\ UNCHANGED <<runVars, disk, crashed>>

VerifyRaw ==
  /\ ReviewMove("idle", "verified")
  /\ ~reviewDir /\ RawVerified
  /\ UNCHANGED <<reviewDir, review>>

Replay ==
  /\ ReviewMove("verified", "replayed")
  /\ Replayable /\ CanAdvance(Body("manifest").lifecycle, "REVIEWED")
  /\ UNCHANGED <<reviewDir, review>>

MakeReviewDirectory ==
  /\ ~reviewDir /\ reviewDir' = TRUE
  /\ ReviewMove("replayed", "writing")
  /\ UNCHANGED review

WriteReview ==
  /\ ReviewMove("writing", "signing")
  /\ review' = [review EXCEPT !.data = Review(Body("manifest"))]
  /\ UNCHANGED reviewDir

SignReview ==
  /\ review' = [review EXCEPT !.sidecar = review.data]
  /\ ReviewMove("signing", "idle")
  /\ UNCHANGED reviewDir

ReviewerKilled ==
  /\ reviewer # "idle"
  /\ ReviewMove(reviewer, "idle")
  /\ UNCHANGED <<reviewDir, review>>

-----------------------------------------------------------------------------
RunnerStep(r) ==
  \/ Prepare(r) \/ CheckAbsent(r) \/ MakeDirectory(r) \/ MakeDirectoryRefused(r)
  \/ Execute(r) \/ Create(r) \/ Abandon(r) \/ Fill(r) \/ Finish(r) \/ Stop(r)

ReviewStep ==
  \/ VerifyRaw \/ Replay \/ MakeReviewDirectory \/ WriteReview \/ SignReview
  \/ ReviewerKilled

Next ==
  /\ (\E r \in Runners : RunnerStep(r)) \/ ReviewStep \/ HostCrash
  /\ UNCHANGED planned

Spec == Init /\ [][Next]_vars

-----------------------------------------------------------------------------
(* Properties                                                              *)

Accepted == (RawVerified /\ Replayable) \/ FailureVerified

(* A bundle the reviewer accepts, at whatever moment and after whatever    *)
(* loss, is the complete output of one execution of the planned config by  *)
(* the planned build, and it is of the kind that execution deserved.       *)
AcceptedIsWhole ==
  Accepted =>
    /\ owner # NoRunner
    /\ input[owner] = planned /\ installed[owner] = planned.build
    /\ FailureVerified <=> ~Presentable(outcome[owner])
    /\ \A doc \in ToSet(Documents(owner, outcome[owner])) :
         Body(doc.path) = doc.body

(* Native work that left no receipt: it was not traced, or its round threw.*)
Unreceipted(o) ==
  \/ Total([i \in DOMAIN o.semantic |-> SemanticWork(o.semantic[i])]) >
       Total([i \in DOMAIN o.physical |-> NativeWork(o.physical[i])])
  \/ \E i \in DOMAIN o.physical :
       \E j \in Having(o.physical[i], "t4_waste_observation") :
         o.physical[i][j].discarded > NativeWork(o.physical[i])

(* The runner and the reviewer are written apart and agree: whatever a run *)
(* of the plan seals is accepted, a failure too unless it did native work  *)
(* it has no receipt for; and a run that is left alone seals a bundle      *)
(* unless a stream cannot be written down.                                 *)
SealedIsAccepted ==
  \A r \in Runners :
    /\ pc[r] = "sealed" /\ input[r] = planned /\ ~crashed =>
         \/ Accepted
         \/ NeedsReceipts /\ outcome[r].raised /\ Unreceipted(outcome[r])
    /\ pc[r] = "failed" => ~Encodable(outcome[r].semantic)

(* A signed review speaks of the manifest of a run that completed, of the  *)
(* planned config, and extends that run's own history by one legal step,   *)
(* also when the bundle has been damaged since.                            *)
ReviewHolds ==
  Whole(review.data) /\ review.sidecar = review.data =>
    LET docs == Documents(owner, outcome[owner])
        h == review.data.lifecycle
    IN  /\ Presentable(outcome[owner]) /\ input[owner] = planned
        /\ review.data.raw_manifest = Last(docs).body
        /\ Replays(h) /\ StateOf(h) = "REVIEWED"
        /\ Front(h) = Last(docs).body.lifecycle
        /\ Last(h).evidence = Last(docs).body

=============================================================================
