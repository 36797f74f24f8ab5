----------------------------- MODULE CosArchive -----------------------------
(***************************************************************************)
(* TencentCosArchive: mirror_tree inventories a source tree, uploads every *)
(* file as a blob, inventories again and publishes a commit marker last;   *)
(* restore_commit verifies a commit, downloads it into a staging directory *)
(* and renames that to the destination.  The bucket keeps every version of *)
(* a key, locked for as long as its default retention said at the upload.  *)
(*                                                                         *)
(* Publishers are the processes that mirror one source under one commit    *)
(* id, a retry being another of them; Restorers restore to one             *)
(* destination.  A version of a blob is named by the publisher that put    *)
(* it, which puts each file once, and a version of the marker by its       *)
(* place in markers.                                                       *)
(***************************************************************************)
EXTENDS Integers, Sequences, FiniteSets, FiniteSetsExt

CONSTANTS
  Publishers, Restorers,
  Paths,         \* files of the source, in the order they are listed
  MaxWrites,     \* bound on the writes to the source
  FirstFiles,    \* the files it has at first
  MinDays,       \* minimum_retention_days
  DefaultDays,   \* what the bucket's default retention may be
  MaxTime,       \* bound on the days that pass
  LargeMarker,   \* the commit document reaches multipart_threshold
  NoTree,        \* no directory
  Foreign        \* somebody else's directory

ASSUME ArchiveAssumption ==
  /\ Paths \subseteq Nat /\ IsFiniteSet(Paths) /\ FirstFiles \subseteq Paths
  /\ MaxWrites \in Nat /\ MaxTime \in Nat /\ MinDays \in Nat \ {0}
  /\ DefaultDays \subseteq Nat \ {0}
  /\ LargeMarker \in BOOLEAN

VARIABLES
  now,       \* in days
  days,      \* the bucket's default retention
  tree,      \* the source: how often each file was written, 0 if absent
  history,   \* every tree the source has been
  blobs,     \* versions of blob objects, by publisher and file
  markers,   \* versions of the commit marker
  issued,    \* the commit references mirror_tree returned
  pub,       \* the publishers
  rest,      \* the restorers
  dest       \* the restore destination

bucketVars == <<blobs, markers>>
envVars == <<now, days, tree, history>>
vars == <<envVars, bucketVars, issued, pub, rest, dest>>

Absent == 0
Trees == [Paths -> 0..(MaxWrites + 1)]
Empty == [q \in Paths |-> Absent]
Files(t) == {q \in Paths : t[q] # Absent}
NoRef == [version |-> 0, until |-> 0]
NoBlob == [write |-> Absent, until |-> 0]

Idle == [pc |-> "new", left |-> {}, seen |-> Empty, inventory |-> Empty,
         retained |-> Empty, start |-> 0, floor |-> 0, version |-> 0]

Init ==
  /\ now = 0 /\ days \in DefaultDays
  /\ tree = [q \in Paths |-> IF q \in FirstFiles THEN 1 ELSE Absent]
  /\ history = {tree}
  /\ blobs = [p \in Publishers |-> [q \in Paths |-> NoBlob]]
  /\ markers = <<>> /\ issued = {}
  /\ pub = [p \in Publishers |-> Idle]
  /\ rest = [r \in Restorers |-> [pc |-> "new", ref |-> NoRef, left |-> {},
                                  staging |-> NoTree]]
  /\ dest = NoTree

-----------------------------------------------------------------------------
(* The world outside: time, the bucket's owner, the source, the destination *)

Tick ==
  /\ now < MaxTime
  /\ now' = now + 1
  /\ UNCHANGED <<days, tree, history, bucketVars, issued, pub, rest, dest>>

(* To a shorter retention: a longer one only helps.                        *)
ChangeDefault ==
  /\ \E d \in DefaultDays : d < days /\ days' = d
  /\ UNCHANGED <<now, tree, history, bucketVars, issued, pub, rest, dest>>

(* A file is created or gets bytes it never had.                           *)
Write(q) ==
  /\ Cardinality(history) <= MaxWrites
  /\ tree' = [tree EXCEPT ![q] = @ + 1]
  /\ history' = history \cup {tree'}
  /\ UNCHANGED <<now, days, bucketVars, issued, pub, rest, dest>>

Occupy ==
  /\ dest = NoTree
  /\ dest' = Foreign
  /\ UNCHANGED <<envVars, bucketVars, issued, pub, rest>>

-----------------------------------------------------------------------------
(* mirror_tree *)

Publisher(p, from, record) ==
  /\ pub[p].pc = from
  /\ pub' = [pub EXCEPT ![p] = record]
  /\ UNCHANGED <<envVars, rest, dest>>

To(p, pc) == [pub[p] EXCEPT !.pc = pc]

(* mirror_tree returned or raised: its locals are gone.                    *)
Ended(pc) == [Idle EXCEPT !.pc = pc]

(* verify_bucket_contract                                                  *)
Open(p) ==
  /\ Publisher(p, "new",
       IF days >= MinDays THEN [To(p, "scan") EXCEPT !.start = now]
       ELSE Ended("failed"))
  /\ UNCHANGED <<bucketVars, issued>>

(* inventory_tree lists the directory, then reads one file after another.  *)
Scan(p, from, to) ==
  /\ Publisher(p, from, [To(p, to) EXCEPT !.left = Files(tree), !.seen = Empty])
  /\ UNCHANGED <<bucketVars, issued>>

Hash(p, at) ==
  /\ pub[p].left # {}
  /\ LET q == Min(pub[p].left)
     IN Publisher(p, at, [pub[p] EXCEPT !.left = @ \ {q}, !.seen[q] = tree[q]])
  /\ UNCHANGED <<bucketVars, issued>>

Inventoried(p) ==
  /\ pub[p].left = {}
  /\ Publisher(p, "hash", [To(p, "upload") EXCEPT !.inventory = pub[p].seen,
                                                  !.left = Files(pub[p].seen),
                                                  !.seen = Empty])
  /\ UNCHANGED <<bucketVars, issued>>

(* open_inventory_entry, and again what _upload_verified_source stages:    *)
(* the file must still have the bytes of the inventory.                    *)
Unchanged(p, q) == tree[q] = pub[p].inventory[q]

Stage(p) ==
  /\ pub[p].left # {}
  /\ LET q == Min(pub[p].left)
     IN Publisher(p, "upload",
          IF Unchanged(p, q)
          THEN [To(p, "put") EXCEPT !.floor = now + MinDays]
          ELSE Ended("failed"))
  /\ UNCHANGED <<bucketVars, issued>>

(* put_object, or the completion of a multipart upload, of the staged copy *)
Put(p) ==
  /\ Publisher(p, "put", To(p, "confirm"))
  /\ LET q == Min(pub[p].left)
     IN blobs' = [blobs EXCEPT ![p][q] = [write |-> pub[p].inventory[q],
                                          until |-> now + days]]
  /\ UNCHANGED <<markers, issued>>

(* What _verify_retention and _download_verified accept of the version a   *)
(* reference names.                                                        *)
Readable(object, until) == object.until > now /\ object.until = until

(* Defect: the retention that was granted is not compared with the floor.  *)
ConfirmedAnyway(object, floor) == Readable(object, object.until)

(* The retention must reach the floor and the version read back whole.     *)
Confirmed(object, floor) ==
  object.until >= floor /\ Readable(object, object.until)

Confirm(p) ==
  /\ LET q == Min(pub[p].left)
         blob == blobs[p][q]
     IN Publisher(p, "confirm",
          IF Confirmed(blob, pub[p].floor)
          THEN [To(p, "upload") EXCEPT !.left = @ \ {q}, !.floor = 0,
                                       !.retained[q] = blob.until]
          ELSE Ended("failed"))
  /\ UNCHANGED <<bucketVars, issued>>

Uploaded(p) ==
  /\ pub[p].left = {}
  /\ Scan(p, "upload", "rehash")

(* Defect: the second inventory is not compared with the first.            *)
CompareNothing(p) ==
  /\ pub[p].left = {}
  /\ Publisher(p, "rehash", To(p, "absent"))
  /\ UNCHANGED <<bucketVars, issued>>

Compare(p) ==
  /\ pub[p].left = {}
  /\ Publisher(p, "rehash",
       IF pub[p].seen = pub[p].inventory THEN To(p, "absent")
       ELSE Ended("failed"))
  /\ UNCHANGED <<bucketVars, issued>>

-----------------------------------------------------------------------------
(* publish_commit *)

CheckAbsent(p) ==
  /\ Publisher(p, "absent",
       IF markers = <<>>
       THEN [To(p, "publish") EXCEPT !.floor = now + MinDays]
       ELSE Ended("failed"))
  /\ UNCHANGED <<bucketVars, issued>>

(* The document: for each file its version and retention; the start of the *)
(* mirroring is kept beside it for the properties.                         *)
Marker(p) == [files |-> pub[p].inventory, by |-> p,
              retained |-> pub[p].retained,
              start |-> pub[p].start, until |-> now + days]

(* Defect: no If-None-Match.                                               *)
PutMarkerAnyway(p) ==
  /\ markers' = Append(markers, Marker(p))
  /\ Publisher(p, "publish", [To(p, "seal") EXCEPT !.version = Len(markers) + 1])
  /\ UNCHANGED <<blobs, issued>>

(* put_object with If-None-Match is refused when the key exists; a         *)
(* multipart upload has no such condition.                                 *)
PutMarker(p) ==
  /\ IF LargeMarker \/ markers = <<>>
     THEN /\ markers' = Append(markers, Marker(p))
          /\ Publisher(p, "publish",
               [To(p, "seal") EXCEPT !.version = Len(markers) + 1])
     ELSE /\ Publisher(p, "publish", Ended("failed"))
          /\ UNCHANGED markers
  /\ UNCHANGED <<blobs, issued>>

Issue(p) ==
  /\ LET v == pub[p].version
         ok == Confirmed(markers[v], pub[p].floor)
     IN /\ Publisher(p, "seal", Ended(IF ok THEN "done" ELSE "failed"))
        /\ issued' = IF ok THEN issued \cup {[version |-> v,
                                              until |-> markers[v].until]}
                     ELSE issued
  /\ UNCHANGED bucketVars

(* A call fails, its answer is lost, or the process is killed: what is in  *)
(* the bucket stays, and nothing local is left to undo.                    *)
Stop(p) ==
  /\ pub[p].pc \notin {"done", "failed"}
  /\ Publisher(p, pub[p].pc, Ended("failed"))
  /\ UNCHANGED <<bucketVars, issued>>

-----------------------------------------------------------------------------
(* restore_commit *)

Restorer(r, from, record) ==
  /\ rest[r].pc = from
  /\ rest' = [rest EXCEPT ![r] = record]
  /\ UNCHANGED <<envVars, bucketVars, issued, pub>>

(* restore_commit returned or raised, and removed what it staged.          *)
Over(pc) == [pc |-> pc, ref |-> NoRef, left |-> {}, staging |-> NoTree]

Commit(r) == markers[rest[r].ref.version]
Version(r, q) == blobs[Commit(r).by][q]
Fetched(r, q) == Readable(Version(r, q), Commit(r).retained[q])

(* A reference whose retention is over is no reference any more.           *)
Decodes(commit) == \A q \in Files(commit.files) : commit.retained[q] > now

FetchMarker(r) ==
  /\ days >= MinDays
  /\ \E ref \in issued :
       /\ Readable(markers[ref.version], ref.until)
       /\ Decodes(markers[ref.version])
       /\ Restorer(r, "new", [rest[r] EXCEPT
            !.pc = "verify", !.ref = ref,
            !.left = Files(markers[ref.version].files)])
  /\ UNCHANGED dest

VerifyEntry(r) ==
  /\ rest[r].left # {}
  /\ LET q == Min(rest[r].left)
     IN /\ Fetched(r, q)
        /\ Restorer(r, "verify", [rest[r] EXCEPT !.left = @ \ {q}])
  /\ UNCHANGED dest

(* The destination must be absent; a staging directory is made beside it.  *)
MakeStaging(r) ==
  /\ rest[r].left = {}
  /\ Restorer(r, "verify",
       IF dest = NoTree
       THEN [rest[r] EXCEPT !.pc = "stage", !.staging = Empty,
                            !.left = Files(Commit(r).files)]
       ELSE Over("failed"))
  /\ UNCHANGED dest

StageEntry(r) ==
  /\ rest[r].left # {}
  /\ LET q == Min(rest[r].left)
     IN /\ Fetched(r, q)
        /\ Restorer(r, "stage", [rest[r] EXCEPT
             !.left = @ \ {q}, !.staging[q] = Version(r, q).write])
  /\ UNCHANGED dest

(* Defect: the rename replaces what is at the destination.                 *)
RenameOver(r) ==
  /\ rest[r].left = {}
  /\ Restorer(r, "stage", Over("done"))
  /\ dest' = rest[r].staging

(* _rename_noreplace; the finally clause removes a directory left behind.  *)
Rename(r) ==
  /\ rest[r].left = {}
  /\ Restorer(r, "stage", Over(IF dest = NoTree THEN "done" ELSE "failed"))
  /\ dest' = IF dest = NoTree THEN rest[r].staging ELSE dest

(* A check refuses or a call fails: the finally clause runs.               *)
Abort(r) ==
  /\ rest[r].pc \in {"new", "verify", "stage"}
  /\ Restorer(r, rest[r].pc, Over("failed"))
  /\ UNCHANGED dest

(* Killed: the staging directory stays.                                    *)
Crash(r) ==
  /\ rest[r].pc = "stage"
  /\ Restorer(r, "stage", [rest[r] EXCEPT !.pc = "crashed"])
  /\ UNCHANGED dest

-----------------------------------------------------------------------------
Mirror(p) ==
  \/ Open(p) \/ Scan(p, "scan", "hash") \/ Hash(p, "hash") \/ Inventoried(p)
  \/ Stage(p) \/ Put(p) \/ Confirm(p) \/ Uploaded(p) \/ Hash(p, "rehash")
  \/ Compare(p) \/ CheckAbsent(p) \/ PutMarker(p) \/ Issue(p) \/ Stop(p)

Restore(r) ==
  \/ FetchMarker(r) \/ VerifyEntry(r) \/ MakeStaging(r) \/ StageEntry(r)
  \/ Rename(r) \/ Abort(r) \/ Crash(r)

Next ==
  \/ Tick \/ ChangeDefault \/ Occupy
  \/ \E q \in Paths : Write(q)
  \/ \E p \in Publishers : Mirror(p)
  \/ \E r \in Restorers : Restore(r)

Spec == Init /\ [][Next]_vars

-----------------------------------------------------------------------------
(* Properties *)

(* Every process is where its code can be, and what it holds was read from *)
(* the source or answered by the bucket.                                   *)
TypeOK ==
  /\ now \in 0..MaxTime /\ days \in DefaultDays
  /\ tree \in history /\ history \subseteq Trees
  /\ \A p \in Publishers :
       /\ pub[p].pc \in {"new", "scan", "hash", "upload", "put", "confirm",
                        "rehash", "absent", "publish", "seal", "done", "failed"}
       /\ pub[p].left \subseteq Paths
       /\ pub[p].seen \in Trees /\ pub[p].inventory \in Trees
       /\ pub[p].version \in 0..Len(markers)
       /\ \A q \in Paths : pub[p].retained[q] \in {0, blobs[p][q].until}
  /\ \A r \in Restorers :
       /\ rest[r].pc \in {"new", "verify", "stage", "done", "failed", "crashed"}
       /\ rest[r].left \subseteq Paths
       /\ rest[r].staging \in Trees \cup {NoTree}
       /\ rest[r].ref \in issued \cup {NoRef}
  /\ dest \in Trees \cup {NoTree, Foreign}

(* "commit marker already exists and cannot be overwritten": however many  *)
(* processes publish under one id at once, and whatever answers are lost,  *)
(* the marker has one version and at most one reference was handed out.    *)
MarkerNeverOverwritten == Len(markers) <= 1 /\ Cardinality(issued) <= 1

Whole(commit) ==
  /\ commit.files \in history
  /\ \A q \in Files(commit.files) :
       blobs[commit.by][q].write = commit.files[q]

Retained(commit) ==
  \A object \in {commit} \cup
       {blobs[commit.by][q] : q \in Files(commit.files)} :
    object.until >= commit.start + MinDays

(* A marker exists only once all its blobs do, and stands for a tree the   *)
(* source had as a whole at one moment, although it is read file by file   *)
(* while it changes; a reference promises that all of it is locked for the *)
(* required days from the start of the mirroring.                          *)
CommitWhole ==
  /\ \A v \in DOMAIN markers : Whole(markers[v])
  /\ \A ref \in issued : Retained(markers[ref.version])

(* From the source to the destination: what a restore publishes is a whole *)
(* tree the source once had, in one step, where there was nothing.         *)
RestoreAllOrNothing ==
  [][dest' # dest => dest = NoTree /\ dest' \in history \cup {Foreign}]_vars
=============================================================================
