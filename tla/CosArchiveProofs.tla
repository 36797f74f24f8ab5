-------------------------- MODULE CosArchiveProofs --------------------------
(***************************************************************************)
(* Proofs about CosArchive for any number of publishers, restorers, files, *)
(* writes to the source and days, and any default retention.               *)
(*                                                                         *)
(* MarkerInv: while the commit document is put with a condition, markers   *)
(* keeps to one version, which every publisher that hands out a reference  *)
(* confirms.  WholeInv needs no such condition: it follows a publisher     *)
(* from its first inventory to its marker, a version of the marker for as  *)
(* long as it stands, and a restorer from the marker to the destination.   *)
(***************************************************************************)
EXTENDS CosArchive, NaturalLemmas, SequenceTheorems

Locals ==
  [pc : {"new", "scan", "hash", "upload", "put", "confirm", "rehash", "absent",
         "publish", "seal", "done", "failed"},
   left : SUBSET Paths, seen : [Paths -> Nat], inventory : [Paths -> Nat],
   retained : [Paths -> Nat], start : Nat, floor : Nat, version : Nat]

Blobs == [write : Nat, until : Nat]

Commits == [files : [Paths -> Nat], by : Publishers, retained : [Paths -> Nat],
            start : Nat, until : Nat]

(* Unbounded types: the bounds of a run are not needed.                    *)
Types ==
  /\ now \in Nat /\ days \in Nat
  /\ tree \in [Paths -> Nat]
  /\ blobs \in [Publishers -> [Paths -> Blobs]]
  /\ pub \in [Publishers -> Locals]
  /\ markers \in Seq(Commits)

OneVersion == markers = <<>> \/ markers = <<markers[1]>>

(* A publisher about to hand out a reference holds the only version.       *)
SealsTheVersion ==
  \A p \in Publishers :
    pub[p].pc = "seal" => markers # <<>> /\ pub[p].version = 1

OneReference ==
  issued \subseteq (IF markers = <<>> THEN {}
                    ELSE {[version |-> 1, until |-> markers[1].until]})

MarkerInv == Types /\ OneVersion /\ SealsTheVersion /\ OneReference

(* Nothing is published and nobody holds a version.                        *)
LEMMA InitMarker == Init => MarkerInv
<1> SUFFICES ASSUME Init PROVE MarkerInv
  OBVIOUS
<1>1. Idle \in Locals
  BY DEF Idle, Locals, Empty, Absent
<1>2. Types
  BY <1>1, ArchiveAssumption DEF Init, Types, Blobs, NoBlob, Absent
<1>3. SealsTheVersion
  BY DEF Init, SealsTheVersion, Idle
<1> QED BY <1>2, <1>3 DEF Init, MarkerInv, OneVersion, OneReference

(* A publisher that moves on without touching marker or references: what   *)
(* it holds stays typed, and it has not reached the seal by itself.        *)
LEMMA Quiet ==
  ASSUME Types, NEW p \in Publishers, NEW from, NEW record \in Locals,
         Publisher(p, from, record), record.pc # "seal",
         blobs' \in [Publishers -> [Paths -> Blobs]],
         UNCHANGED <<markers, issued>>
  PROVE  Types' /\ (MarkerInv => MarkerInv')
<1>1. pub' = [pub EXCEPT ![p] = record] /\ UNCHANGED envVars
  BY DEF Publisher
<1>2. Types'
  BY <1>1 DEF Types, envVars
<1>3. SealsTheVersion => SealsTheVersion'
  BY <1>1 DEF Types, SealsTheVersion
<1> QED BY <1>2, <1>3 DEF MarkerInv, OneVersion, OneReference

(* What a publisher that ends leaves behind is typed.                      *)
LEMMA EndedTyped == \A pc \in {"done", "failed"} :
                      Ended(pc) \in Locals /\ Ended(pc).pc = pc
  BY DEF Ended, Idle, Locals, Empty, Absent

(* Inventory, upload and comparison.                                       *)
LEMMA MirrorMarker ==
  ASSUME Types, NEW p \in Publishers,
         \/ Open(p) \/ Scan(p, "scan", "hash") \/ Hash(p, "hash")
         \/ Inventoried(p) \/ Stage(p) \/ Put(p) \/ Confirm(p) \/ Uploaded(p)
         \/ Hash(p, "rehash") \/ Compare(p) \/ CheckAbsent(p) \/ Stop(p)
  PROVE  Types' /\ (MarkerInv => MarkerInv')
<1> DEFINE f == Ended("failed")
<1>1. f \in Locals /\ f.pc = "failed" /\ pub[p] \in Locals
  BY EndedTyped DEF Types
<1>2. blobs \in [Publishers -> [Paths -> Blobs]] /\ tree \in [Paths -> Nat]
      /\ now \in Nat /\ days \in Nat
  BY DEF Types
<1>3. \A t \in [Paths -> Nat] : Files(t) \in SUBSET Paths
  BY DEF Files
<1>4. Empty \in [Paths -> Nat] /\ now + MinDays \in Nat
  BY <1>2, ArchiveAssumption DEF Empty, Absent
<1> HIDE DEF f
<1>5. CASE Open(p)
  <2>1. [To(p, "scan") EXCEPT !.start = now] \in Locals
        /\ [To(p, "scan") EXCEPT !.start = now].pc = "scan"
    BY <1>1, <1>2 DEF To, Locals
  <2> QED BY <1>1, <1>2, <1>5, <2>1, Quiet DEF Open, bucketVars, f
<1>6. ASSUME NEW from \in {"scan", "upload"}, NEW to \in {"hash", "rehash"},
             Scan(p, from, to)
      PROVE  Types' /\ (MarkerInv => MarkerInv')
  <2> DEFINE r == [To(p, to) EXCEPT !.left = Files(tree), !.seen = Empty]
  <2>1. r \in Locals /\ r.pc # "seal"
    BY <1>1, <1>2, <1>3, <1>4 DEF To, Locals
  <2> HIDE DEF r
  <2> QED BY <1>2, <1>6, <2>1, Quiet DEF Scan, bucketVars, r
<1>7. ASSUME NEW at \in {"hash", "rehash"}, Hash(p, at)
      PROVE  Types' /\ (MarkerInv => MarkerInv')
  <2> DEFINE q == Min(pub[p].left)
             r == [pub[p] EXCEPT !.left = @ \ {q}, !.seen[q] = tree[q]]
  <2>1. r \in Locals /\ r.pc = pub[p].pc
    BY <1>1, <1>2 DEF Locals
  <2>2. Publisher(p, at, r) /\ UNCHANGED <<bucketVars, issued>>
    BY <1>7 DEF Hash
  <2>3. r.pc # "seal"
    BY <2>1, <2>2 DEF Publisher
  <2> HIDE DEF r
  <2> QED BY <1>2, <2>1, <2>2, <2>3, Quiet DEF bucketVars
<1>8. CASE Inventoried(p)
  <2> DEFINE r == [To(p, "upload") EXCEPT !.inventory = pub[p].seen,
                                          !.left = Files(pub[p].seen),
                                          !.seen = Empty]
  <2>1. pub[p].seen \in [Paths -> Nat]
    BY <1>1 DEF Locals
  <2>2. r \in Locals /\ r.pc # "seal"
    BY <1>1, <1>3, <1>4, <2>1 DEF To, Locals
  <2> HIDE DEF r
  <2> QED BY <1>2, <1>8, <2>2, Quiet DEF Inventoried, bucketVars, r
<1>9. CASE Stage(p)
  <2> DEFINE r == [To(p, "put") EXCEPT !.floor = now + MinDays]
  <2>1. r \in Locals /\ r.pc # "seal"
    BY <1>1, <1>4 DEF To, Locals
  <2>2. PICK s \in {r, f} : Publisher(p, "upload", s)
    BY <1>9 DEF Stage, f
  <2> HIDE DEF r
  <2> QED BY <1>1, <1>2, <1>9, <2>1, <2>2, Quiet DEF Stage, bucketVars
<1>10. CASE Put(p)
  <2> DEFINE q == Min(pub[p].left)
  <2>1. To(p, "confirm") \in Locals /\ To(p, "confirm").pc # "seal"
    BY <1>1 DEF To, Locals
  <2>2. blobs' = [blobs EXCEPT ![p][q] = [write |-> pub[p].inventory[q],
                                          until |-> now + days]]
    BY <1>10 DEF Put
  <2>3. pub[p].inventory \in [Paths -> Nat]
    BY <1>1 DEF Locals
  <2> HIDE DEF q
  <2>4. ASSUME NEW x \in Paths
        PROVE  [write |-> pub[p].inventory[x], until |-> now + days] \in Blobs
    <3>1. pub[p].inventory[x] \in Nat
      BY <2>3
    <3>2. now + days \in Nat
      BY <1>2
    <3> QED BY <3>1, <3>2 DEF Blobs
  <2>5. [blobs[p] EXCEPT ![q] = [write |-> pub[p].inventory[q],
                                 until |-> now + days]] \in [Paths -> Blobs]
    BY <1>2, <2>4
  <2>6. blobs' \in [Publishers -> [Paths -> Blobs]]
    BY <1>2, <2>2, <2>5
  <2> QED BY <1>10, <2>1, <2>6, Quiet DEF Put
<1>11. CASE Confirm(p)
  <2> DEFINE q == Min(pub[p].left)
             r == [To(p, "upload") EXCEPT !.left = @ \ {q}, !.floor = 0,
                                          !.retained[q] = blobs[p][q].until]
  <2>1. \A x \in Paths : blobs[p][x].until \in Nat
    BY <1>2 DEF Blobs
  <2> HIDE DEF q
  <2>2. r \in Locals /\ r.pc # "seal"
    <3>1. pub[p].retained \in [Paths -> Nat] /\ pub[p].left \ {q} \subseteq Paths
      BY <1>1 DEF Locals
    <3>2. [pub[p].retained EXCEPT ![q] = blobs[p][q].until] \in [Paths -> Nat]
      BY <2>1, <3>1
    <3> QED BY <1>1, <3>1, <3>2 DEF To, Locals
  <2>3. PICK s \in {r, f} : Publisher(p, "confirm", s)
    BY <1>11 DEF Confirm, f, q
  <2> HIDE DEF r
  <2> QED BY <1>1, <1>2, <1>11, <2>2, <2>3, Quiet DEF Confirm, bucketVars
<1>12. CASE Compare(p)
  <2>1. To(p, "absent") \in Locals /\ To(p, "absent").pc # "seal"
    BY <1>1 DEF To, Locals
  <2>2. PICK s \in {To(p, "absent"), f} : Publisher(p, "rehash", s)
    BY <1>12 DEF Compare, f
  <2> QED BY <1>1, <1>2, <1>12, <2>1, <2>2, Quiet DEF Compare, bucketVars
<1>13. CASE CheckAbsent(p)
  <2> DEFINE r == [To(p, "publish") EXCEPT !.floor = now + MinDays]
  <2>1. r \in Locals /\ r.pc # "seal"
    BY <1>1, <1>4 DEF To, Locals
  <2>2. PICK s \in {r, f} : Publisher(p, "absent", s)
    BY <1>13 DEF CheckAbsent, f
  <2> HIDE DEF r
  <2> QED BY <1>1, <1>2, <1>13, <2>1, <2>2, Quiet DEF CheckAbsent, bucketVars
<1>14. CASE Stop(p)
  BY <1>1, <1>2, <1>14, Quiet DEF Stop, bucketVars, f
<1> QED
  BY <1>5, <1>6, <1>7, <1>8, <1>9, <1>10, <1>11, <1>12, <1>13, <1>14 DEF Uploaded

LEMMA PutMarkerTypes ==
  ASSUME Types, NEW p \in Publishers, PutMarker(p)
  PROVE  Types'
<1>1. /\ pub[p] \in Locals /\ pub \in [Publishers -> Locals]
      /\ markers \in Seq(Commits) /\ now + days \in Nat
  BY DEF Types
<1>2. Marker(p) \in Commits
  BY <1>1 DEF Marker, Commits, Locals
<1>3. CASE LargeMarker \/ markers = <<>>
  <2> DEFINE n == Len(markers) + 1  r == [To(p, "seal") EXCEPT !.version = n]
  <2>1. n \in Nat
    BY <1>1
  <2>2. /\ markers' = Append(markers, Marker(p)) /\ pub' = [pub EXCEPT ![p] = r]
        /\ UNCHANGED <<envVars, blobs>>
    BY <1>3 DEF PutMarker, Publisher
  <2> HIDE DEF n
  <2>3. r \in Locals
    BY <1>1, <2>1 DEF To, Locals
  <2> HIDE DEF r
  <2>4. markers' \in Seq(Commits)
    BY <1>1, <1>2, <2>2
  <2> QED BY <2>2, <2>3, <2>4 DEF Types, envVars
<1>4. CASE ~(LargeMarker \/ markers = <<>>)
  <2>1. /\ pub' = [pub EXCEPT ![p] = Ended("failed")] /\ Ended("failed") \in Locals
        /\ UNCHANGED <<envVars, blobs, markers>>
    BY <1>4, EndedTyped DEF PutMarker, Publisher
  <2> QED BY <2>1 DEF Types, envVars
<1> QED BY <1>3, <1>4

(* The conditional put: it takes effect only on an absent key.             *)
LEMMA PutMarkerMarker ==
  ASSUME ~LargeMarker, MarkerInv, NEW p \in Publishers, PutMarker(p)
  PROVE  MarkerInv'
<1>1. pub[p] \in Locals /\ blobs \in [Publishers -> [Paths -> Blobs]]
  BY DEF MarkerInv, Types
<1>2. CASE markers = <<>>
  <2> DEFINE r == [To(p, "seal") EXCEPT !.version = Len(markers) + 1]
  <2>1. Len(markers) = 0
    BY <1>2
  <2>2. /\ markers' = Append(markers, Marker(p)) /\ pub' = [pub EXCEPT ![p] = r]
        /\ UNCHANGED <<envVars, blobs, issued>>
    BY <1>2 DEF PutMarker, Publisher
  <2>3. r \in Locals /\ r.version = 1
    <3>1. r = [To(p, "seal") EXCEPT !.version = 1]
      BY <2>1
    <3>2. [To(p, "seal") EXCEPT !.version = 1] \in Locals
          /\ [To(p, "seal") EXCEPT !.version = 1].version = 1
      BY <1>1 DEF To, Locals
    <3> HIDE DEF r
    <3> QED BY <3>1, <3>2
  <2> HIDE DEF r
  <2>4. markers' = <<Marker(p)>>
    BY <1>2, <2>2
  <2>5. OneVersion' /\ markers' # <<>>
    BY <2>4 DEF OneVersion
  <2>6. Types'
    BY PutMarkerTypes DEF MarkerInv
  <2>7. SealsTheVersion'
    BY <1>2, <2>2, <2>3, <2>5 DEF MarkerInv, Types, SealsTheVersion
  <2>8. OneReference'
    BY <1>2, <2>2 DEF MarkerInv, OneReference
  <2> QED BY <2>5, <2>6, <2>7, <2>8 DEF MarkerInv
<1>3. CASE markers # <<>>
  BY <1>1, <1>3, EndedTyped, Quiet DEF PutMarker, MarkerInv
<1> QED BY <1>2, <1>3

(* A reference is made of the version its publisher put.                   *)
LEMMA IssueMarker ==
  ASSUME Types, NEW p \in Publishers, Issue(p)
  PROVE  Types' /\ (MarkerInv => MarkerInv')
<1> DEFINE ref == [version |-> pub[p].version,
                   until |-> markers[pub[p].version].until]
<1>1. PICK pc \in {"done", "failed"} : Publisher(p, "seal", Ended(pc))
  BY DEF Issue
<1>2. issued' \subseteq issued \cup {ref} /\ UNCHANGED bucketVars
  BY DEF Issue
<1>3. pub[p].pc = "seal" /\ pub' = [pub EXCEPT ![p] = Ended(pc)]
      /\ UNCHANGED envVars
  BY <1>1 DEF Publisher
<1>4. MarkerInv => markers # <<>> /\ pub[p].version = 1
  BY <1>3 DEF MarkerInv, SealsTheVersion
<1>5. MarkerInv => OneReference'
  BY <1>2, <1>4 DEF MarkerInv, OneReference, bucketVars
<1>6. Types'
  BY <1>2, <1>3, EndedTyped DEF Types, envVars, bucketVars
<1>7. MarkerInv => SealsTheVersion'
  BY <1>2, <1>3, EndedTyped DEF MarkerInv, Types, SealsTheVersion, bucketVars
<1> QED BY <1>2, <1>5, <1>6, <1>7 DEF MarkerInv, OneVersion, bucketVars

(* Restorers, the environment and stuttering leave the publishers' side.   *)
LEMMA OthersMarker ==
  ASSUME Types,
         \/ Tick \/ ChangeDefault \/ Occupy
         \/ \E q \in Paths : Write(q)
         \/ \E r \in Restorers : Restore(r)
         \/ UNCHANGED vars
  PROVE  Types' /\ (MarkerInv => MarkerInv')
<1>1. UNCHANGED <<blobs, markers, issued, pub>>
  BY DEF Tick, ChangeDefault, Occupy, Write, Restore, FetchMarker, VerifyEntry,
         MakeStaging, StageEntry, Rename, Abort, Crash, Restorer, vars,
         bucketVars
<1>2. now' \in Nat /\ days' \in Nat /\ tree' \in [Paths -> Nat]
  <2> USE ArchiveAssumption DEF Types
  <2>1. CASE Tick
    BY <2>1 DEF Tick
  <2>2. CASE ChangeDefault
    BY <2>2 DEF ChangeDefault
  <2>3. CASE \E q \in Paths : Write(q)
    BY <2>3 DEF Write
  <2>4. CASE Occupy \/ (\E r \in Restorers : Restore(r)) \/ UNCHANGED vars
    <3>1. UNCHANGED envVars
      BY <2>4 DEF Occupy, Restore, FetchMarker, VerifyEntry, MakeStaging,
                  StageEntry, Rename, Abort, Crash, Restorer, vars
    <3> QED BY <3>1 DEF envVars
  <2> QED BY <2>1, <2>2, <2>3, <2>4
<1> QED
  BY <1>1, <1>2 DEF MarkerInv, Types, OneVersion, SealsTheVersion, OneReference

(* Every step of the archive keeps the invariant.                          *)
LEMMA StepTypes ==
  ASSUME Types, [Next]_vars PROVE Types'
<1>1. CASE \E p \in Publishers : Mirror(p)
  BY <1>1, MirrorMarker, PutMarkerTypes, IssueMarker DEF Mirror
<1>2. CASE ~\E p \in Publishers : Mirror(p)
  BY <1>2, OthersMarker DEF Next
<1> QED BY <1>1, <1>2

LEMMA StepMarker ==
  ASSUME ~LargeMarker, MarkerInv, [Next]_vars PROVE MarkerInv'
<1>1. CASE \E p \in Publishers : Mirror(p)
  BY <1>1, MirrorMarker, PutMarkerMarker, IssueMarker DEF Mirror, MarkerInv
<1>2. CASE ~\E p \in Publishers : Mirror(p)
  BY <1>2, OthersMarker DEF Next, MarkerInv
<1> QED BY <1>1, <1>2

(* One version is at most one long, and its references are at most one.    *)
LEMMA MarkerOnce == MarkerInv => MarkerNeverOverwritten
<1> SUFFICES ASSUME MarkerInv PROVE MarkerNeverOverwritten
  OBVIOUS
<1>1. Len(markers) <= 1
  <2>1. CASE markers = <<>>
    BY <2>1
  <2>2. CASE markers = <<markers[1]>>
    <3>1. Len(<<markers[1]>>) = 1
      OBVIOUS
    <3> QED BY <2>2, <3>1
  <2> QED BY <2>1, <2>2 DEF MarkerInv, OneVersion
<1>2. PICK x : issued \subseteq {x}
  BY DEF MarkerInv, OneReference
<1>3. IsFiniteSet({x}) /\ Cardinality({x}) = 1
  BY FS_Singleton
<1>4. Cardinality(issued) <= 1
  BY <1>2, <1>3, FS_Subset
<1> QED BY <1>1, <1>4 DEF MarkerNeverOverwritten

(* "cannot be overwritten", for every number of publishers, files, writes  *)
(* and days, when the commit document stays below multipart_threshold;     *)
(* above it the run archive_multipart shows a second version.              *)
THEOREM MarkerTheorem == ~LargeMarker => (Spec => []MarkerNeverOverwritten)
<1> SUFFICES ASSUME ~LargeMarker PROVE Spec => []MarkerNeverOverwritten
  OBVIOUS
<1>1. MarkerInv /\ [Next]_vars => MarkerInv'
  BY StepMarker
<1> QED BY <1>1, InitMarker, MarkerOnce, PTL DEF Spec

-----------------------------------------------------------------------------
(* A commit is whole.  A publisher that compares its two inventories knows *)
(* of a moment between them, when the second listing was made: every count *)
(* of the first was read before it and every count of the second after it, *)
(* and the source's counts only grow, so an inventory that is equal to     *)
(* both is the tree of that moment.                                        *)

Under == {"scan", "hash", "upload", "put", "confirm", "rehash", "absent",
          "publish", "seal"}

(* t was the source when p listed it for the second time.                  *)
Moment(p, t) ==
  \A q \in Paths :
    /\ pub[p].inventory[q] <= t[q] /\ t[q] <= tree[q]
    /\ q \in pub[p].left => t[q] # Absent
    /\ IF t[q] = Absent THEN pub[p].seen[q] = Absent
       ELSE q \notin pub[p].left => t[q] <= pub[p].seen[q]

(* The blob of q is what the inventory says, and locked long enough.       *)
Secured(p, q) ==
  /\ blobs[p][q].write = pub[p].inventory[q]
  /\ blobs[p][q].until >= pub[p].start + MinDays

Mirrored(p) ==
  LET x == pub[p]
  IN /\ x.pc \in Under => x.start <= now
     /\ x.pc = "hash" => \A q \in Paths : x.seen[q] <= tree[q]
     /\ x.pc \in {"upload", "put", "confirm"} =>
          /\ \A q \in Paths : x.inventory[q] <= tree[q]
          /\ x.left \subseteq Files(x.inventory)
          /\ \A q \in Files(x.inventory) \ x.left : Secured(p, q)
     /\ x.pc \in {"put", "confirm"} =>
          x.left # {} /\ x.floor >= x.start + MinDays
     /\ x.pc = "confirm" =>
          blobs[p][Min(x.left)].write = x.inventory[Min(x.left)]
     /\ x.pc = "rehash" => \E t \in history : Moment(p, t)
     /\ x.pc \in {"absent", "publish"} => x.inventory \in history
     /\ x.pc \in {"rehash", "absent", "publish"} =>
          \A q \in Files(x.inventory) : Secured(p, q)
     /\ x.pc \in {"publish", "seal"} => x.floor >= x.start + MinDays
     /\ x.pc = "seal" => /\ x.version \in DOMAIN markers
                         /\ markers[x.version].start = x.start

(* The version stands, and its publisher puts no blob any more.            *)
Published(v) ==
  LET m == markers[v]
  IN /\ pub[m.by].pc \in {"seal", "done", "failed"}
     /\ Whole(m)
     /\ \A q \in Files(m.files) : blobs[m.by][q].until >= m.start + MinDays

Promised(ref) ==
  /\ ref.version \in DOMAIN markers
  /\ markers[ref.version].until >= markers[ref.version].start + MinDays

(* A restorer stages what the commit says, file by file.                   *)
Staged(r) ==
  LET x == rest[r]
  IN /\ x.pc \in {"verify", "stage"} => x.ref.version \in DOMAIN markers
     /\ x.pc = "stage" =>
          /\ x.left \subseteq Files(Commit(r).files)
          /\ x.staging = [q \in Paths |->
                            IF q \in Files(Commit(r).files) \ x.left
                            THEN Commit(r).files[q] ELSE Absent]

References == [version : Nat, until : Nat]
RestorerLocals ==
  [pc : {"new", "verify", "stage", "done", "failed", "crashed"},
   ref : References, left : SUBSET Paths,
   staging : [Paths -> Nat] \cup {NoTree}]

WholeInv ==
  /\ Types
  /\ rest \in [Restorers -> RestorerLocals] /\ issued \subseteq References
  /\ history \subseteq [Paths -> Nat] /\ tree \in history
  /\ \A p \in Publishers : Mirrored(p)
  /\ \A v \in DOMAIN markers : Published(v)
  /\ \A ref \in issued : Promised(ref)
  /\ \A r \in Restorers : Staged(r)


(* Time passes, the source is written and remembered, and versions of the  *)
(* marker are only added.                                                  *)
Grows ==
  /\ now <= now' /\ history \subseteq history'
  /\ \A q \in Paths : tree[q] <= tree'[q]
  /\ \A v \in DOMAIN markers : v \in DOMAIN markers' /\ markers'[v] = markers[v]

LEMMA InitWhole == Init => WholeInv
<1> SUFFICES ASSUME Init PROVE WholeInv
  OBVIOUS
<1>1. Types
  BY InitMarker DEF MarkerInv
<1>2. history \subseteq [Paths -> Nat] /\ tree \in history
  BY <1>1 DEF Init, Types
<1>3. \A p \in Publishers : Mirrored(p)
  BY DEF Init, Idle, Mirrored, Under
<1>4. rest \in [Restorers -> RestorerLocals]
  BY DEF Init, RestorerLocals, References, NoRef
<1>5. \A r \in Restorers : Staged(r)
  BY DEF Init, Staged
<1>6. DOMAIN markers = {} /\ issued = {}
  BY DEF Init
<1> QED BY <1>1, <1>2, <1>3, <1>4, <1>5, <1>6 DEF WholeInv

LEMMA MirroredKept ==
  ASSUME WholeInv, Types', NEW p \in Publishers, Mirrored(p), Grows,
         pub'[p] = pub[p], blobs'[p] = blobs[p]
  PROVE  Mirrored(p)'
<1> DEFINE x == pub[p]
<1>1. /\ pub'[p] = x /\ now \in Nat /\ now' \in Nat
      /\ tree \in [Paths -> Nat] /\ tree' \in [Paths -> Nat]
      /\ x \in Locals
  BY DEF WholeInv, Types
<1>2. /\ x.start \in Nat /\ x.seen \in [Paths -> Nat]
      /\ x.inventory \in [Paths -> Nat]
  BY <1>1 DEF Locals
<1>3. \A q \in Paths : Secured(p, q) => Secured(p, q)'
  BY DEF Secured
<1>4. (\E t \in history : Moment(p, t)) => (\E t \in history : Moment(p, t))'
  <2> SUFFICES ASSUME NEW t \in history, Moment(p, t)
               PROVE  t \in history' /\ Moment(p, t)'
    BY DEF Grows
  <2>1. t \in [Paths -> Nat]
    BY DEF WholeInv
  <2> QED BY <1>1, <1>2, <2>1 DEF Moment, Grows
<1>5. x.start <= now => x.start <= now'
  BY <1>1, <1>2 DEF Grows
<1>6. /\ (\A q \in Paths : x.seen[q] <= tree[q]) =>
           \A q \in Paths : x.seen[q] <= tree'[q]
      /\ (\A q \in Paths : x.inventory[q] <= tree[q]) =>
           \A q \in Paths : x.inventory[q] <= tree'[q]
  BY <1>1, <1>2 DEF Grows
<1>7. x.pc = "seal" => /\ x.version \in DOMAIN markers'
                       /\ markers'[x.version].start = x.start
  BY DEF Mirrored, Grows
<1>8. x.pc \in {"absent", "publish"} => x.inventory \in history'
  BY DEF Mirrored, Grows
<1> HIDE DEF x
<1>9. Files(x.inventory) \subseteq Paths
  BY DEF Files
<1> QED BY <1>1, <1>3, <1>4, <1>5, <1>6, <1>7, <1>8, <1>9 DEF Mirrored, x

LEMMA PublishedKept ==
  ASSUME NEW v \in DOMAIN markers, Published(v), Grows,
         blobs'[markers[v].by] = blobs[markers[v].by],
         pub'[markers[v].by].pc \in {"seal", "done", "failed"}
  PROVE  Published(v)'
BY DEF Published, Whole, Grows, Files

LEMMA StagedKept ==
  ASSUME NEW r \in Restorers, Staged(r), Grows, rest'[r] = rest[r]
  PROVE  Staged(r)'
BY DEF Staged, Grows, Commit

(* A publisher that has a marker has put its last blob: its steps disturb  *)
(* only its own mirroring, the version it adds and the reference it issues.*)
LEMMA PublisherWhole ==
  ASSUME WholeInv, Types', NEW p \in Publishers, NEW record \in Locals,
         pub' = [pub EXCEPT ![p] = record],
         \A o \in Publishers : o # p => blobs'[o] = blobs[o],
         UNCHANGED <<envVars, rest>>, Grows, Mirrored(p)',
         pub[p].pc \in {"seal", "done", "failed"} =>
           record.pc \in {"seal", "done", "failed"} /\ blobs'[p] = blobs[p],
         \A v \in DOMAIN markers' : v \notin DOMAIN markers => Published(v)',
         issued' \subseteq References,
         \A ref \in issued' : ref \notin issued => Promised(ref)'
  PROVE  WholeInv'
<1>1. pub \in [Publishers -> Locals] /\ markers \in Seq(Commits)
  BY DEF WholeInv, Types
<1>2. \A o \in Publishers : Mirrored(o)'
  <2> TAKE o \in Publishers
  <2>1. CASE o # p
    <3>1. pub'[o] = pub[o] /\ blobs'[o] = blobs[o]
      BY <1>1, <2>1
    <3> QED BY <3>1, MirroredKept DEF WholeInv
  <2> QED BY <2>1
<1>3. \A v \in DOMAIN markers' : Published(v)'
  <2> SUFFICES ASSUME NEW v \in DOMAIN markers PROVE Published(v)'
    OBVIOUS
  <2>1. Published(v)
    BY DEF WholeInv
  <2> DEFINE b == markers[v].by
  <2>2. b \in Publishers /\ pub[b].pc \in {"seal", "done", "failed"}
    <3>1. markers[v] \in Commits
      BY <1>1
    <3> QED BY <2>1, <3>1 DEF Commits, Published
  <2> HIDE DEF b
  <2>3. blobs'[b] = blobs[b] /\ pub'[b].pc \in {"seal", "done", "failed"}
    BY <1>1, <2>2
  <2> QED BY <2>1, <2>3, PublishedKept DEF b
<1>4. \A ref \in issued' : Promised(ref)'
  BY DEF WholeInv, Promised, Grows
<1>5. \A r \in Restorers : Staged(r)'
  BY StagedKept DEF WholeInv
<1> QED BY <1>2, <1>3, <1>4, <1>5 DEF WholeInv, envVars


LEMMA QuietWhole ==
  ASSUME WholeInv, Types', NEW p \in Publishers, NEW from, NEW record \in Locals,
         Publisher(p, from, record), from \notin {"seal", "done", "failed"},
         \A o \in Publishers : o # p => blobs'[o] = blobs[o],
         UNCHANGED <<markers, issued>>, Mirrored(p)'
  PROVE  WholeInv'
<1>1. /\ pub' = [pub EXCEPT ![p] = record] /\ pub[p].pc = from
      /\ UNCHANGED <<envVars, rest>>
  BY DEF Publisher
<1>2. Grows
  <2>1. now \in Nat /\ tree \in [Paths -> Nat]
    BY DEF WholeInv, Types
  <2> QED BY <1>1, <2>1 DEF Grows, envVars
<1>3. issued \subseteq References
  BY DEF WholeInv
<1> QED BY <1>1, <1>2, <1>3, PublisherWhole

(* A mirroring that is over promises nothing any more.                     *)
LEMMA EndedWhole ==
  ASSUME WholeInv, Types', NEW p \in Publishers, NEW from,
         Publisher(p, from, Ended("failed")),
         UNCHANGED <<bucketVars, issued>>
  PROVE  WholeInv'
<1>1. /\ pub' = [pub EXCEPT ![p] = Ended("failed")]
      /\ UNCHANGED <<envVars, rest, blobs, markers, issued>>
  BY DEF Publisher, bucketVars
<1>2. Ended("failed") \in Locals /\ Ended("failed").pc = "failed"
  BY EndedTyped
<1>3. Grows
  <2>1. now \in Nat /\ tree \in [Paths -> Nat]
    BY DEF WholeInv, Types
  <2> QED BY <1>1, <2>1 DEF Grows, envVars
<1>4. pub'[p] = Ended("failed")
  BY <1>1 DEF WholeInv, Types
<1>5. Mirrored(p)'
  BY <1>2, <1>4 DEF Mirrored, Under
<1>6. issued \subseteq References
  BY DEF WholeInv
<1> QED BY <1>1, <1>2, <1>3, <1>5, <1>6, PublisherWhole

(* What the steps below start from.                                        *)
LEMMA PublisherFacts ==
  ASSUME WholeInv, NEW p \in Publishers
  PROVE  /\ pub \in [Publishers -> Locals] /\ pub[p] \in Locals
         /\ pub[p].left \in SUBSET Paths /\ pub[p].seen \in [Paths -> Nat]
         /\ pub[p].inventory \in [Paths -> Nat] /\ pub[p].start \in Nat
         /\ pub[p].retained \in [Paths -> Nat] /\ pub[p].floor \in Nat
         /\ tree \in [Paths -> Nat] /\ now \in Nat /\ days \in Nat
         /\ blobs \in [Publishers -> [Paths -> Blobs]]
         /\ tree \in history /\ history \subseteq [Paths -> Nat]
         /\ Mirrored(p) /\ MinDays \in Nat
         /\ pub[p].left # {} => Min(pub[p].left) \in pub[p].left
<1>1. pub \in [Publishers -> Locals] /\ pub[p] \in Locals
  BY DEF WholeInv, Types
<1>2. /\ pub[p].left \in SUBSET Paths /\ pub[p].seen \in [Paths -> Nat]
      /\ pub[p].inventory \in [Paths -> Nat] /\ pub[p].start \in Nat
      /\ pub[p].retained \in [Paths -> Nat] /\ pub[p].floor \in Nat
  BY <1>1 DEF Locals
<1>3. /\ tree \in [Paths -> Nat] /\ now \in Nat /\ days \in Nat
      /\ blobs \in [Publishers -> [Paths -> Blobs]]
      /\ tree \in history /\ history \subseteq [Paths -> Nat]
      /\ Mirrored(p) /\ MinDays \in Nat
  BY ArchiveAssumption DEF WholeInv, Types
<1>4. pub[p].left # {} => Min(pub[p].left) \in pub[p].left
  <2>1. pub[p].left \in SUBSET Nat
    BY <1>2, ArchiveAssumption
  <2> QED BY <2>1, LeastElement
<1> QED BY <1>1, <1>2, <1>3, <1>4

(* Files are counted from one, and the count of one read stays below.      *)
LEMMA InventoryWhole ==
  ASSUME WholeInv, Types', NEW p \in Publishers,
         \/ Open(p) \/ Scan(p, "scan", "hash") \/ Hash(p, "hash")
         \/ Inventoried(p)
  PROVE  WholeInv'
<1> DEFINE x == pub[p]
<1>1. /\ pub \in [Publishers -> Locals] /\ x \in Locals
      /\ x.left \in SUBSET Paths /\ x.seen \in [Paths -> Nat]
      /\ tree \in [Paths -> Nat] /\ now \in Nat /\ x.start \in Nat
  BY PublisherFacts
<1>2. /\ x.pc \in Under => x.start <= now
      /\ x.pc = "hash" => \A q \in Paths : x.seen[q] <= tree[q]
  BY PublisherFacts, Zenon DEF Mirrored
<1>3. Empty \in [Paths -> Nat] /\ \A q \in Paths : Empty[q] = 0
  BY DEF Empty, Absent
<1>4. \A t \in [Paths -> Nat] : Files(t) \in SUBSET Paths
  BY DEF Files
<1> HIDE DEF x
<1>5. ASSUME NEW from, NEW r \in Locals, Publisher(p, from, r),
             from \in {"new", "scan", "hash"}, UNCHANGED <<bucketVars, issued>>,
             r.pc \in {"scan", "hash", "upload"}, r.start <= now,
             r.pc = "hash" => \A q \in Paths : r.seen[q] <= tree[q],
             r.pc = "upload" => /\ \A q \in Paths : r.inventory[q] <= tree[q]
                                /\ r.left = Files(r.inventory)
      PROVE  WholeInv'
  <2>1. pub'[p] = r /\ UNCHANGED <<tree, now, blobs, markers, issued>>
    BY <1>1, <1>5 DEF Publisher, envVars, bucketVars
  <2>2. Mirrored(p)'
    BY <1>5, <2>1 DEF Mirrored, Under
  <2> QED BY <1>5, <2>1, <2>2, QuietWhole
<1>6. CASE Open(p)
  <2> DEFINE r == [To(p, "scan") EXCEPT !.start = now]
  <2>0. pub[p] \in Locals /\ now \in Nat
    BY <1>1 DEF x
  <2>1. r \in Locals /\ r.pc = "scan" /\ r.start = now
    BY <2>0 DEF To, Locals
  <2>2. PICK s \in {r, Ended("failed")} : Publisher(p, "new", s)
    BY <1>6 DEF Open
  <2> HIDE DEF r
  <2>3. now <= now
    BY <2>0
  <2> QED BY <1>6, <2>1, <2>2, <2>3, <1>5, EndedWhole DEF Open
<1>7. CASE Scan(p, "scan", "hash")
  <2> DEFINE r == [To(p, "hash") EXCEPT !.left = Files(tree), !.seen = Empty]
  <2>1. r \in Locals /\ r.pc = "hash" /\ r.start = x.start /\ r.seen = Empty
    BY <1>1, <1>3, <1>4 DEF To, Locals, x
  <2>2. Publisher(p, "scan", r) /\ UNCHANGED <<bucketVars, issued>>
    BY <1>7 DEF Scan
  <2> HIDE DEF r
  <2>3. x.start <= now
    BY <1>2, <2>2 DEF Publisher, Under, x
  <2> QED BY <1>1, <1>3, <2>1, <2>2, <2>3, <1>5
<1>8. CASE Hash(p, "hash")
  <2> DEFINE q == Min(x.left)
             r == [pub[p] EXCEPT !.left = @ \ {q}, !.seen[q] = tree[q]]
  <2>1. x.pc = "hash" /\ Publisher(p, "hash", r) /\ UNCHANGED <<bucketVars, issued>>
    BY <1>8 DEF Hash, Publisher, x
  <2>2. /\ r \in Locals /\ r.pc = "hash" /\ r.start = x.start
        /\ r.seen = [x.seen EXCEPT ![q] = tree[q]]
    BY <1>1, <2>1 DEF Locals, x
  <2>3. \A f \in Paths : r.seen[f] <= tree[f]
    BY <1>1, <1>2, <2>1, <2>2
  <2> HIDE DEF r, q
  <2> QED BY <1>2, <2>1, <2>2, <2>3, <1>5 DEF Under
<1>9. CASE Inventoried(p)
  <2> DEFINE r == [To(p, "upload") EXCEPT !.inventory = pub[p].seen,
                                          !.left = Files(pub[p].seen),
                                          !.seen = Empty]
  <2>1. /\ r \in Locals /\ r.pc = "upload" /\ r.start = x.start
        /\ r.inventory = x.seen /\ r.left = Files(x.seen)
    BY <1>1, <1>3, <1>4 DEF To, Locals, x
  <2>2. Publisher(p, "hash", r) /\ UNCHANGED <<bucketVars, issued>>
    BY <1>9 DEF Inventoried
  <2>3. x.pc = "hash"
    BY <2>2 DEF Publisher, x
  <2> HIDE DEF r
  <2> QED BY <1>2, <2>1, <2>2, <2>3, <1>5 DEF Under
<1> QED BY <1>6, <1>7, <1>8, <1>9


(* Every file whose blob was confirmed stays secured; the one being put is *)
(* the next of those left.                                                 *)
LEMMA UploadWhole ==
  ASSUME WholeInv, Types', NEW p \in Publishers,
         Stage(p) \/ Put(p) \/ Confirm(p)
  PROVE  WholeInv'
<1> DEFINE x == pub[p]  q == Min(pub[p].left)  f == Ended("failed")
<1>1. /\ pub \in [Publishers -> Locals] /\ x \in Locals
      /\ x.left \in SUBSET Paths /\ x.inventory \in [Paths -> Nat]
      /\ now \in Nat /\ days \in Nat /\ x.start \in Nat /\ x.floor \in Nat
      /\ blobs \in [Publishers -> [Paths -> Blobs]] /\ MinDays \in Nat
      /\ tree \in [Paths -> Nat] /\ x.retained \in [Paths -> Nat]
  BY PublisherFacts
<1>2. x.left # {} => q \in x.left
  BY PublisherFacts, Zenon
<1>3. Mirrored(p)
  BY PublisherFacts, Zenon
<1>4. x.pc \in {"upload", "put", "confirm"}
  BY DEF Stage, Put, Confirm, Publisher
<1>5. /\ x.start <= now /\ \A y \in Paths : x.inventory[y] <= tree[y]
      /\ x.left \subseteq Files(x.inventory)
      /\ \A y \in Files(x.inventory) \ x.left : Secured(p, y)
      /\ x.pc \in {"put", "confirm"} =>
           x.left # {} /\ x.floor >= x.start + MinDays
      /\ x.pc = "confirm" => blobs[p][q].write = x.inventory[q]
  BY <1>3, <1>4 DEF Mirrored, Under
<1>6. Files(x.inventory) \subseteq Paths
  BY DEF Files
<1> HIDE DEF x, q, f
<1>7. CASE Stage(p)
  <2> DEFINE r == [To(p, "put") EXCEPT !.floor = now + MinDays]
  <2>0. pub[p] \in Locals /\ now + MinDays \in Nat
    BY <1>1 DEF x
  <2>1. /\ r \in Locals /\ r.pc = "put" /\ r.start = x.start /\ r.left = x.left
        /\ r.inventory = x.inventory /\ r.floor = now + MinDays
    BY <2>0 DEF To, Locals, x
  <2>2. /\ x.pc = "upload" /\ x.left # {} /\ UNCHANGED <<bucketVars, issued>>
        /\ Publisher(p, "upload", r) \/ Publisher(p, "upload", f)
    BY <1>7 DEF Stage, Publisher, f, x
  <2> HIDE DEF r
  <2>3. CASE Publisher(p, "upload", f)
    BY <2>2, <2>3, EndedWhole DEF f
  <2>4. CASE Publisher(p, "upload", r)
    <3>1. pub'[p] = r /\ UNCHANGED <<tree, now, blobs, markers, issued>>
      BY <1>1, <2>2, <2>4 DEF Publisher, envVars, bucketVars
    <3>2. \A y \in Files(r.inventory) \ r.left : Secured(p, y)'
      BY <1>5, <2>1, <3>1 DEF Secured, x
    <3>3. r.floor >= r.start + MinDays
      BY <1>1, <1>5, <2>1
    <3>4. Mirrored(p)'
      BY <1>5, <2>1, <2>2, <3>1, <3>2, <3>3 DEF Mirrored, Under
    <3> QED BY <2>1, <2>4, <3>1, <3>4, QuietWhole
  <2> QED BY <2>2, <2>3, <2>4
<1>8. CASE Put(p)
  <2> DEFINE r == To(p, "confirm")
             b == [write |-> pub[p].inventory[q], until |-> now + days]
  <2>1. /\ r \in Locals /\ r.pc = "confirm" /\ r.start = x.start
        /\ r.left = x.left /\ r.inventory = x.inventory /\ r.floor = x.floor
    BY <1>1 DEF To, Locals, x
  <2>2. /\ x.pc = "put" /\ Publisher(p, "put", r) /\ UNCHANGED <<markers, issued>>
        /\ blobs' = [blobs EXCEPT ![p][q] = b]
    BY <1>8 DEF Put, Publisher, x, q
  <2> HIDE DEF r
  <2>3. /\ pub'[p] = r /\ UNCHANGED <<tree, now>>
        /\ \A o \in Publishers : o # p => blobs'[o] = blobs[o]
        /\ \A y \in Paths : y # q => blobs'[p][y] = blobs[p][y]
    BY <1>1, <2>2 DEF Publisher, envVars
  <2>4. q \in x.left /\ q \in Paths /\ b.write = x.inventory[q]
    BY <1>1, <1>2, <1>5, <2>2 DEF x
  <2> HIDE DEF b
  <2>5. blobs'[p][q].write = x.inventory[q]
    BY <1>1, <2>2, <2>4
  <2>6. \A y \in Files(r.inventory) \ r.left : Secured(p, y)'
    <3> SUFFICES ASSUME NEW y \in Files(x.inventory) \ x.left
                 PROVE  Secured(p, y)'
      BY <2>1
    <3>1. y \in Paths /\ y # q /\ Secured(p, y)
      BY <1>5, <1>6, <2>4
    <3>2. blobs'[p][y] = blobs[p][y]
      BY <2>3, <3>1
    <3> QED BY <2>1, <2>3, <3>1, <3>2 DEF Secured, x
  <2>7. q = Min(r.left)
    BY <2>1 DEF q, x
  <2>8. Mirrored(p)'
    BY <1>5, <2>1, <2>2, <2>3, <2>5, <2>6, <2>7 DEF Mirrored, Under
  <2> QED BY <2>1, <2>2, <2>3, <2>8, QuietWhole
<1>9. CASE Confirm(p)
  <2> DEFINE u == blobs[p][q].until
             r == [To(p, "upload") EXCEPT !.left = @ \ {q}, !.floor = 0,
                                          !.retained[q] = u]
  <2>1. u \in Nat /\ q \in x.left /\ q \in Paths /\ x.pc = "confirm"
    <3>1. x.pc = "confirm"
      BY <1>9 DEF Confirm, Publisher, x
    <3>2. q \in x.left /\ q \in Paths
      BY <3>1, <1>1, <1>2, <1>5
    <3>3. blobs[p][q] \in Blobs
      BY <1>1, <3>2
    <3> QED BY <3>1, <3>2, <3>3 DEF Blobs
  <2>2. UNCHANGED <<bucketVars, issued>>
        /\ \/ u >= x.floor /\ Publisher(p, "confirm", r)
           \/ Publisher(p, "confirm", f)
    BY <1>9 DEF Confirm, Confirmed, f, q, x
  <2> HIDE DEF u
  <2>3. /\ r \in Locals /\ r.pc = "upload" /\ r.start = x.start
        /\ r.left = x.left \ {q} /\ r.inventory = x.inventory
    BY <1>1, <2>1 DEF To, Locals, x
  <2> HIDE DEF r
  <2>4. CASE Publisher(p, "confirm", f)
    BY <2>2, <2>4, EndedWhole DEF f
  <2>5. CASE u >= x.floor /\ Publisher(p, "confirm", r)
    <3>1. pub'[p] = r /\ UNCHANGED <<tree, now, blobs, markers, issued>>
      BY <1>1, <2>2, <2>5 DEF Publisher, envVars, bucketVars
    <3>2. Secured(p, q)
      <4>1. u >= x.start + MinDays
        BY <1>1, <1>5, <2>1, <2>5
      <4> QED BY <1>5, <2>1, <4>1 DEF Secured, u, x
    <3>3. \A y \in Files(r.inventory) \ r.left : Secured(p, y)'
      <4> SUFFICES ASSUME NEW y \in Files(x.inventory) \ (x.left \ {q})
                   PROVE  Secured(p, y)'
        BY <2>3
      <4>1. Secured(p, y)
        BY <1>5, <3>2
      <4> QED BY <2>3, <3>1, <4>1 DEF Secured, x
    <3>4. Mirrored(p)'
      BY <1>5, <2>3, <3>1, <3>3 DEF Mirrored, Under
    <3> QED BY <2>3, <2>5, <3>1, <3>4, QuietWhole
  <2> QED BY <2>2, <2>4, <2>5
<1> QED BY <1>7, <1>8, <1>9


(* The second inventory, and what equality with the first proves.          *)
LEMMA CompareWhole ==
  ASSUME WholeInv, Types', NEW p \in Publishers,
         Uploaded(p) \/ Hash(p, "rehash") \/ Compare(p) \/ CheckAbsent(p)
  PROVE  WholeInv'
<1> DEFINE x == pub[p]  f == Ended("failed")
<1>1. /\ pub \in [Publishers -> Locals] /\ x \in Locals
      /\ x.left \in SUBSET Paths /\ x.inventory \in [Paths -> Nat]
      /\ x.seen \in [Paths -> Nat] /\ now \in Nat /\ x.start \in Nat
      /\ tree \in [Paths -> Nat] /\ tree \in history
      /\ history \subseteq [Paths -> Nat] /\ MinDays \in Nat
  BY PublisherFacts
<1>2. x.left # {} => Min(x.left) \in x.left
  BY PublisherFacts, Zenon
<1>3. Mirrored(p)
  BY PublisherFacts, Zenon
<1>4. Empty \in [Paths -> Nat] /\ Files(tree) \in SUBSET Paths
      /\ now + MinDays \in Nat
  BY <1>1 DEF Empty, Absent, Files
<1> HIDE DEF x, f
<1>5. ASSUME NEW from, NEW r \in Locals, Publisher(p, from, r),
             from \in {"upload", "rehash", "absent"},
             UNCHANGED <<bucketVars, issued>>,
             r.pc \in {"rehash", "absent", "publish"},
             r.start = x.start, r.inventory = x.inventory,
             \A q \in Files(x.inventory) : Secured(p, q),
             r.pc = "rehash" => (\E t \in history : Moment(p, t))',
             r.pc # "rehash" => x.inventory \in history,
             r.pc = "publish" => r.floor = now + MinDays
      PROVE  WholeInv'
  <2>1. pub'[p] = r /\ UNCHANGED <<tree, now, history, blobs, markers, issued>>
    BY <1>1, <1>5 DEF Publisher, envVars, bucketVars
  <2>2. x.start <= now
    BY <1>3, <1>5 DEF Mirrored, Under, Publisher, x
  <2>3. \A q \in Files(r.inventory) : Secured(p, q)'
    BY <1>5, <2>1 DEF Secured, x
  <2>4. r.pc = "publish" => r.floor >= r.start + MinDays
    BY <1>1, <1>5, <2>2
  <2>5. Mirrored(p)'
    BY <1>5, <2>1, <2>2, <2>3, <2>4 DEF Mirrored, Under
  <2> QED BY <1>5, <2>1, <2>5, QuietWhole
<1>6. CASE Uploaded(p)
  <2> DEFINE r == [To(p, "rehash") EXCEPT !.left = Files(tree), !.seen = Empty]
  <2>0. pub[p] \in Locals
    BY <1>1 DEF x
  <2>1. /\ r \in Locals /\ r.pc = "rehash" /\ r.start = x.start
        /\ r.inventory = x.inventory /\ r.left = Files(tree) /\ r.seen = Empty
    BY <2>0, <1>4 DEF To, Locals, x
  <2>2. /\ Publisher(p, "upload", r) /\ UNCHANGED <<bucketVars, issued>>
        /\ x.pc = "upload" /\ x.left = {}
    BY <1>6 DEF Uploaded, Scan, Publisher, x
  <2> HIDE DEF r
  <2>3. /\ \A q \in Files(x.inventory) : Secured(p, q)
        /\ \A q \in Paths : x.inventory[q] <= tree[q]
    BY <1>3, <2>2 DEF Mirrored, x
  <2>4. pub'[p] = r /\ tree' = tree /\ history' = history
    BY <1>1, <2>2 DEF Publisher, envVars
  <2>5. Moment(p, tree)'
    <3>1. \A q \in Paths : Empty[q] = 0
      BY DEF Empty, Absent
    <3>2. \A q \in Paths : q \in Files(tree) <=> tree[q] # 0
      BY DEF Files, Absent
    <3>3. \A q \in Paths : tree[q] \in Nat
      BY <1>1
    <3> QED BY <2>1, <2>3, <2>4, <3>1, <3>2, <3>3 DEF Moment, Absent
  <2>6. (\E t \in history : Moment(p, t))'
    BY <1>1, <2>4, <2>5
  <2> QED BY <2>1, <2>2, <2>3, <2>6, <1>5
<1>7. CASE Hash(p, "rehash")
  <2> DEFINE q == Min(x.left)
             r == [pub[p] EXCEPT !.left = @ \ {q}, !.seen[q] = tree[q]]
  <2>0. pub[p] \in Locals
    BY <1>1 DEF x
  <2>1. /\ x.pc = "rehash" /\ x.left # {} /\ Publisher(p, "rehash", r)
        /\ UNCHANGED <<bucketVars, issued>>
    BY <1>7 DEF Hash, Publisher, x
  <2>2. /\ r \in Locals /\ r.pc = "rehash" /\ r.start = x.start
        /\ r.inventory = x.inventory /\ r.left = x.left \ {q}
        /\ r.seen = [x.seen EXCEPT ![q] = tree[q]]
    BY <1>1, <2>0, <2>1 DEF Locals, x
  <2>q. q \in x.left /\ q \in Paths
    BY <1>1, <1>2, <2>1
  <2> HIDE DEF r, q
  <2>3. \A y \in Files(x.inventory) : Secured(p, y)
    BY <1>3, <2>1 DEF Mirrored, x
  <2>4. PICK t \in history : Moment(p, t)
    BY <1>3, <2>1 DEF Mirrored, x
  <2>5. pub'[p] = r /\ tree' = tree /\ history' = history
    BY <1>1, <2>1 DEF Publisher, envVars
  <2>6. \A y \in Paths :
          /\ r.inventory[y] <= t[y] /\ t[y] <= tree[y]
          /\ y \in r.left => t[y] # 0
          /\ IF t[y] = 0 THEN r.seen[y] = 0
             ELSE y \notin r.left => t[y] <= r.seen[y]
    <3> SUFFICES ASSUME NEW y \in Paths
                 PROVE  /\ r.inventory[y] <= t[y] /\ t[y] <= tree[y]
                        /\ y \in r.left => t[y] # 0
                        /\ IF t[y] = 0 THEN r.seen[y] = 0
                           ELSE y \notin r.left => t[y] <= r.seen[y]
      OBVIOUS
    <3>1. /\ x.inventory[y] <= t[y] /\ t[y] <= tree[y]
          /\ y \in x.left => t[y] # 0
          /\ IF t[y] = 0 THEN x.seen[y] = 0
             ELSE y \notin x.left => t[y] <= x.seen[y]
      BY <2>4 DEF Moment, Absent, x
    <3>2. r.seen[y] = IF y = q THEN tree[y] ELSE x.seen[y]
      BY <1>1, <2>2
    <3> QED BY <2>2, <2>q, <3>1, <3>2
  <2>7. (\E s \in history : Moment(p, s))'
    BY <2>4, <2>5, <2>6 DEF Moment, Absent
  <2> QED BY <2>1, <2>2, <2>3, <2>7, <1>5
<1>8. CASE Compare(p)
  <2> DEFINE r == To(p, "absent")
  <2>0. pub[p] \in Locals
    BY <1>1 DEF x
  <2>1. /\ r \in Locals /\ r.pc = "absent" /\ r.start = x.start
        /\ r.inventory = x.inventory
    BY <2>0 DEF To, Locals, x
  <2>2. /\ x.pc = "rehash" /\ x.left = {} /\ UNCHANGED <<bucketVars, issued>>
        /\ \/ x.seen = x.inventory /\ Publisher(p, "rehash", r)
           \/ Publisher(p, "rehash", f)
    BY <1>8 DEF Compare, Publisher, x, f
  <2> HIDE DEF r
  <2>3. CASE Publisher(p, "rehash", f)
    BY <2>2, <2>3, EndedWhole DEF f
  <2>4. CASE x.seen = x.inventory /\ Publisher(p, "rehash", r)
    <3>1. \A y \in Files(x.inventory) : Secured(p, y)
      BY <1>3, <2>2 DEF Mirrored, x
    <3>2. PICK t \in history : Moment(p, t)
      BY <1>3, <2>2 DEF Mirrored, x
    <3>3. t \in [Paths -> Nat]
      BY <1>1
    <3>4. \A y \in Paths :
            /\ x.inventory[y] <= t[y]
            /\ IF t[y] = 0 THEN x.inventory[y] = 0 ELSE t[y] <= x.inventory[y]
      BY <2>2, <2>4, <3>2 DEF Moment, Absent, x
    <3>5. \A y \in Paths : x.inventory[y] = t[y]
      BY <1>1, <3>3, <3>4
    <3>6. x.inventory = t
      BY <1>1, <3>3, <3>5
    <3> QED BY <1>5, <2>1, <2>2, <2>4, <3>1, <3>2, <3>6
  <2> QED BY <2>2, <2>3, <2>4
<1>9. CASE CheckAbsent(p)
  <2> DEFINE r == [To(p, "publish") EXCEPT !.floor = now + MinDays]
  <2>0. pub[p] \in Locals /\ now + MinDays \in Nat
    BY <1>1, <1>4 DEF x
  <2>1. /\ r \in Locals /\ r.pc = "publish" /\ r.start = x.start
        /\ r.inventory = x.inventory /\ r.floor = now + MinDays
    BY <2>0 DEF To, Locals, x
  <2>2. /\ x.pc = "absent" /\ UNCHANGED <<bucketVars, issued>>
        /\ Publisher(p, "absent", r) \/ Publisher(p, "absent", f)
    BY <1>9 DEF CheckAbsent, Publisher, x, f
  <2> HIDE DEF r
  <2>3. CASE Publisher(p, "absent", f)
    BY <2>2, <2>3, EndedWhole DEF f
  <2>4. CASE Publisher(p, "absent", r)
    <3>1. /\ \A y \in Files(x.inventory) : Secured(p, y)
          /\ x.inventory \in history
      BY <1>3, <2>2 DEF Mirrored, x
    <3> QED BY <1>5, <2>1, <2>2, <2>4, <3>1
  <2> QED BY <2>2, <2>3, <2>4
<1> QED BY <1>6, <1>7, <1>8, <1>9


(* The version a publisher adds is what it mirrored.                       *)
LEMMA PutMarkerWhole ==
  ASSUME WholeInv, Types', NEW p \in Publishers, PutMarker(p)
  PROVE  WholeInv'
<1> DEFINE x == pub[p]  n == Len(markers) + 1  m == Marker(p)
<1>1. /\ pub \in [Publishers -> Locals] /\ x \in Locals
      /\ markers \in Seq(Commits) /\ now \in Nat /\ tree \in [Paths -> Nat]
      /\ Mirrored(p) /\ pub[p] \in Locals /\ Len(markers) \in Nat
  <2>1. markers \in Seq(Commits) /\ Len(markers) \in Nat
    BY DEF WholeInv, Types
  <2> QED BY <2>1, PublisherFacts
<1>2. CASE LargeMarker \/ markers = <<>>
  <2> DEFINE r == [To(p, "seal") EXCEPT !.version = n]
  <2>0. n \in Nat
    BY <1>1
  <2>1. /\ markers' = Append(markers, m) /\ Publisher(p, "publish", r)
        /\ UNCHANGED <<blobs, issued>> /\ x.pc = "publish"
    BY <1>2 DEF PutMarker, Publisher
  <2>2. /\ m.files = x.inventory /\ m.by = p /\ m.start = x.start
    BY DEF Marker
  <2> HIDE DEF m, n
  <2>3. /\ r \in Locals /\ r.pc = "seal" /\ r.version = n /\ r.start = x.start
        /\ r.floor = x.floor
    BY <1>1, <2>0 DEF To, Locals
  <2> HIDE DEF r
  <2>4. /\ pub' = [pub EXCEPT ![p] = r] /\ pub'[p] = r
        /\ UNCHANGED <<envVars, now, tree, history, rest>>
    BY <1>1, <2>1 DEF Publisher, envVars
  <2>5. /\ DOMAIN markers = 1..(n - 1) /\ DOMAIN markers' = 1..n
        /\ \A v \in 1..(n - 1) : markers'[v] = markers[v]
        /\ markers'[n] = m
    BY <1>1, <2>1 DEF n
  <2>6. Grows
    <3>1. DOMAIN markers \subseteq DOMAIN markers'
      BY <2>0, <2>5
    <3> QED BY <1>1, <2>4, <2>5, <3>1 DEF Grows
  <2>7. /\ x.start <= now /\ x.floor >= x.start + MinDays
        /\ x.inventory \in history
        /\ \A q \in Files(x.inventory) : Secured(p, q)
    BY <1>1, <2>1 DEF Mirrored, Under
  <2>8. Mirrored(p)'
    <3>1. n \in DOMAIN markers' /\ markers'[n].start = x.start
      BY <2>0, <2>2, <2>5, <1>1 DEF n
    <3> QED BY <2>3, <2>4, <2>7, <3>1 DEF Mirrored, Under
  <2>9. ASSUME NEW v \in DOMAIN markers', v \notin DOMAIN markers
        PROVE  Published(v)'
    <3>1. v = n /\ markers'[v] = m
      BY <2>0, <2>5, <2>9
    <3>2. \A q \in Files(x.inventory) :
            /\ blobs'[p][q].write = x.inventory[q]
            /\ blobs'[p][q].until >= x.start + MinDays
      BY <2>1, <2>7 DEF Secured
    <3>3. pub'[p].pc = "seal" /\ x.inventory \in history'
      BY <2>3, <2>4, <2>7
    <3> HIDE DEF x
    <3> QED BY <2>2, <3>1, <3>2, <3>3 DEF Published, Whole, Files
  <2>10. issued \subseteq References
    BY DEF WholeInv
  <2> QED BY <2>1, <2>3, <2>4, <2>6, <2>8, <2>9, <2>10, PublisherWhole
<1>3. CASE ~(LargeMarker \/ markers = <<>>)
  BY <1>3, EndedWhole DEF PutMarker, bucketVars
<1> QED BY <1>2, <1>3

(* A reference is handed out when the marker's own lock is confirmed.      *)
LEMMA IssueWhole ==
  ASSUME WholeInv, Types', NEW p \in Publishers, Issue(p)
  PROVE  WholeInv'
<1> DEFINE x == pub[p]  v == pub[p].version  m == markers[v]
           ref == [version |-> v, until |-> m.until]
<1>1. /\ pub \in [Publishers -> Locals] /\ x \in Locals
      /\ markers \in Seq(Commits) /\ now \in Nat /\ tree \in [Paths -> Nat]
      /\ Mirrored(p) /\ issued \subseteq References /\ MinDays \in Nat
      /\ x.start \in Nat /\ x.floor \in Nat
  <2>1. markers \in Seq(Commits) /\ issued \subseteq References
    BY DEF WholeInv, Types
  <2> QED BY <2>1, PublisherFacts
<1>2. PICK pc \in {"done", "failed"} :
        /\ Publisher(p, "seal", Ended(pc))
        /\ UNCHANGED bucketVars
        /\ issued' = issued \/ (m.until >= x.floor /\ issued' = issued \cup {ref})
  BY DEF Issue, Confirmed
<1>3. /\ x.pc = "seal" /\ pub' = [pub EXCEPT ![p] = Ended(pc)]
      /\ UNCHANGED <<envVars, now, tree, history, rest, blobs, markers>>
  BY <1>2 DEF Publisher, envVars, bucketVars
<1>4. Ended(pc) \in Locals /\ Ended(pc).pc \in {"done", "failed"}
  BY EndedTyped
<1>5. /\ v \in DOMAIN markers /\ m.start = x.start /\ v \in Nat
      /\ x.floor >= x.start + MinDays
  <2>1. /\ v \in DOMAIN markers /\ m.start = x.start
        /\ x.floor >= x.start + MinDays
    BY <1>1, <1>3 DEF Mirrored
  <2> QED BY <1>1, <2>1
<1>6. m.until \in Nat
  <2>1. m \in Commits
    BY <1>1, <1>5
  <2> QED BY <2>1 DEF Commits
<1> HIDE DEF x, v, m
<1>7. Grows
  BY <1>1, <1>3 DEF Grows
<1>8. Mirrored(p)'
  <2>1. pub'[p] = Ended(pc)
    BY <1>1, <1>3
  <2> QED BY <1>4, <2>1 DEF Mirrored, Under
<1>9. issued' \subseteq References
  BY <1>1, <1>2, <1>5, <1>6 DEF References
<1>10. ASSUME NEW s \in issued', s \notin issued
       PROVE  Promised(s)'
  <2>1. s = ref /\ m.until >= x.floor
    BY <1>2, <1>10
  <2>2. s.version = v
    BY <2>1
  <2>3. m.until >= m.start + MinDays
    BY <1>1, <1>5, <1>6, <2>1
  <2> QED BY <1>3, <1>5, <2>2, <2>3 DEF Promised, m
<1> QED BY <1>3, <1>4, <1>7, <1>8, <1>9, <1>10, PublisherWhole

LEMMA MirrorWhole ==
  ASSUME WholeInv, Types', NEW p \in Publishers, Mirror(p)
  PROVE  WholeInv'
<1>1. CASE Stop(p)
  <2>1. Publisher(p, pub[p].pc, Ended("failed")) /\ UNCHANGED <<bucketVars, issued>>
    BY <1>1 DEF Stop
  <2> QED BY <2>1, EndedWhole
<1> QED BY <1>1, InventoryWhole, UploadWhole, CompareWhole, PutMarkerWhole,
           IssueWhole DEF Mirror

-----------------------------------------------------------------------------
(* Restorers and the world *)

LEMMA RestorerFacts ==
  ASSUME WholeInv, NEW r \in Restorers, rest[r].pc \in {"verify", "stage"}
  PROVE  LET m == Commit(r)
         IN /\ rest[r].ref.version \in DOMAIN markers
            /\ m \in Commits /\ m.files \in [Paths -> Nat]
            /\ m.files \in history /\ Files(m.files) \in SUBSET Paths
            /\ \A q \in Files(m.files) : blobs[m.by][q].write = m.files[q]
<1> DEFINE v == rest[r].ref.version
<1>1. Staged(r) /\ markers \in Seq(Commits)
  BY DEF WholeInv, Types
<1>2. v \in DOMAIN markers
  BY <1>1 DEF Staged
<1>3. Published(v) /\ Commit(r) = markers[v] /\ markers[v] \in Commits
  BY <1>1, <1>2 DEF WholeInv, Commit
<1> HIDE DEF v
<1>4. markers[v].files \in [Paths -> Nat]
  BY <1>3 DEF Commits
<1> QED BY <1>2, <1>3, <1>4 DEF Published, Whole, Files, v

(* A restorer's step disturbs only what it has staged.                     *)
LEMMA RestorerWhole ==
  ASSUME WholeInv, Types', NEW r \in Restorers, NEW from,
         NEW record \in RestorerLocals, Restorer(r, from, record), Staged(r)'
  PROVE  WholeInv'
<1>1. /\ rest' = [rest EXCEPT ![r] = record]
      /\ UNCHANGED <<envVars, bucketVars, issued, pub>>
  BY DEF Restorer
<1>2. rest \in [Restorers -> RestorerLocals]
  BY DEF WholeInv
<1>3. UNCHANGED <<now, days, tree, history, blobs, markers, issued, pub>>
  BY <1>1 DEF envVars, bucketVars
<1>4. Grows
  <2>1. now \in Nat /\ tree \in [Paths -> Nat]
    BY DEF WholeInv, Types
  <2> QED BY <1>3, <2>1 DEF Grows
<1>5. \A p \in Publishers : Mirrored(p)'
  BY <1>3, <1>4, MirroredKept DEF WholeInv
<1>6. \A v \in DOMAIN markers' : Published(v)'
  BY <1>3 DEF WholeInv, Published, Whole, Files
<1>7. \A ref \in issued' : Promised(ref)'
  BY <1>3 DEF WholeInv, Promised
<1>8. \A s \in Restorers : Staged(s)'
  <2> TAKE s \in Restorers
  <2>1. CASE s # r
    <3>1. rest'[s] = rest[s]
      BY <1>1, <1>2, <2>1
    <3> QED BY <3>1, <1>4, StagedKept DEF WholeInv
  <2> QED BY <2>1
<1>9. rest' \in [Restorers -> RestorerLocals]
  BY <1>1, <1>2
<1>10. issued' \subseteq References /\ history' \subseteq [Paths -> Nat]
       /\ tree' \in history'
  BY <1>3 DEF WholeInv
<1> QED BY <1>5, <1>6, <1>7, <1>8, <1>9, <1>10 DEF WholeInv


LEMMA OverTyped ==
  \A pc \in {"done", "failed"} :
    Over(pc) \in RestorerLocals /\ Over(pc).pc = pc
BY DEF Over, RestorerLocals, References, NoRef

LEMMA OverWhole ==
  ASSUME WholeInv, Types', NEW r \in Restorers, NEW from,
         NEW pc \in {"done", "failed"}, Restorer(r, from, Over(pc))
  PROVE  WholeInv'
<1>1. rest' = [rest EXCEPT ![r] = Over(pc)] /\ rest \in [Restorers -> RestorerLocals]
  BY DEF Restorer, WholeInv
<1>2. Over(pc) \in RestorerLocals /\ rest'[r].pc = pc
  BY <1>1, OverTyped
<1>3. Staged(r)'
  BY <1>2 DEF Staged
<1> QED BY <1>2, <1>3, RestorerWhole

LEMMA RestoreWhole ==
  ASSUME WholeInv, Types', NEW r \in Restorers, Restore(r)
  PROVE  WholeInv'
<1> DEFINE x == rest[r]  m == Commit(r)
<1>1. /\ rest \in [Restorers -> RestorerLocals] /\ x \in RestorerLocals
      /\ Staged(r) /\ markers \in Seq(Commits)
  BY DEF WholeInv, Types
<1>2. ASSUME NEW from, NEW s, Restorer(r, from, s)
      PROVE  rest'[r] = s /\ x.pc = from /\ markers' = markers
  BY <1>1, <1>2 DEF Restorer, bucketVars
<1>3. Empty \in [Paths -> Nat]
  BY DEF Empty, Absent
<1>4. x.pc \in {"verify", "stage"} =>
        /\ x.ref.version \in DOMAIN markers
        /\ m \in Commits /\ m.files \in [Paths -> Nat]
        /\ Files(m.files) \in SUBSET Paths
        /\ \A q \in Files(m.files) : blobs[m.by][q].write = m.files[q]
  BY RestorerFacts
<1>5. x.left \in SUBSET Paths /\ (x.left # {} => Min(x.left) \in x.left)
  <2>1. x.left \in SUBSET Paths
    BY <1>1 DEF RestorerLocals
  <2>2. x.left \in SUBSET Nat
    BY <2>1, ArchiveAssumption
  <2> QED BY <2>1, <2>2, LeastElement
<1>6. CASE FetchMarker(r)
  <2>1. PICK ref \in issued :
          Restorer(r, "new", [rest[r] EXCEPT
            !.pc = "verify", !.ref = ref,
            !.left = Files(markers[ref.version].files)])
    BY <1>6 DEF FetchMarker
  <2>2. Promised(ref) /\ ref \in References
    BY DEF WholeInv
  <2> DEFINE l == Files(markers[ref.version].files)
             s == [x EXCEPT !.pc = "verify", !.ref = ref, !.left = l]
  <2>3. l \in SUBSET Paths
    BY DEF Files
  <2> HIDE DEF l
  <2>4. s \in RestorerLocals /\ s.pc = "verify" /\ s.ref = ref
    BY <1>1, <2>2, <2>3 DEF RestorerLocals
  <2>5. Restorer(r, "new", s)
    BY <2>1 DEF l
  <2> HIDE DEF s
  <2>6. Staged(r)'
    BY <1>2, <2>2, <2>4, <2>5 DEF Staged, Promised
  <2> QED BY <2>4, <2>5, <2>6, RestorerWhole
<1>7. CASE VerifyEntry(r)
  <2> DEFINE q == Min(x.left)  s == [x EXCEPT !.left = @ \ {q}]
  <2>1. s \in RestorerLocals /\ s.pc = x.pc /\ s.ref = x.ref
    BY <1>1 DEF RestorerLocals
  <2>2. Restorer(r, "verify", s)
    BY <1>7 DEF VerifyEntry
  <2> HIDE DEF s
  <2>3. Staged(r)'
    BY <1>1, <1>2, <2>1, <2>2 DEF Staged
  <2> QED BY <2>1, <2>2, <2>3, RestorerWhole
<1>8. CASE MakeStaging(r)
  <2> DEFINE l == Files(m.files)
             s == [x EXCEPT !.pc = "stage", !.staging = Empty, !.left = l]
  <2>1. x.pc = "verify" /\ (Restorer(r, "verify", s) \/ Restorer(r, "verify", Over("failed")))
    BY <1>8 DEF MakeStaging, Restorer
  <2>2. l \in SUBSET Paths
    BY <1>4, <2>1
  <2>l. l = Files(m.files)
    OBVIOUS
  <2> HIDE DEF l, x, m
  <2>3. s \in RestorerLocals /\ s.pc = "stage" /\ s.ref = x.ref /\ s.left = l
        /\ s.staging = Empty
    BY <1>1, <1>3, <2>2 DEF RestorerLocals
  <2> HIDE DEF s
  <2>4. CASE Restorer(r, "verify", s)
    <3>1. rest'[r] = s /\ markers' = markers
      BY <1>2, <2>4
    <3>2. Commit(r)' = m
      BY <2>3, <3>1 DEF Commit, m, x
    <3>3. s.staging = [q \in Paths |-> IF q \in l \ s.left THEN m.files[q] ELSE Absent]
      BY <2>3 DEF Empty
    <3> QED BY <1>4, <2>1, <2>3, <2>4, <2>l, <3>1, <3>2, <3>3, RestorerWhole DEF Staged
  <2>5. CASE Restorer(r, "verify", Over("failed"))
    BY <2>5, OverWhole
  <2> QED BY <2>1, <2>4, <2>5
<1>9. CASE StageEntry(r)
  <2> DEFINE q == Min(x.left)  w == Version(r, q).write  l == Files(m.files)
             s == [x EXCEPT !.left = @ \ {q}, !.staging[q] = w]
  <2>1. x.pc = "stage" /\ x.left # {} /\ Restorer(r, "stage", s)
    BY <1>9 DEF StageEntry, Restorer
  <2>2. /\ x.left \subseteq l /\ q \in x.left /\ q \in Paths
        /\ x.staging = [y \in Paths |->
                          IF y \in l \ x.left THEN m.files[y] ELSE Absent]
    BY <1>1, <1>5, <2>1 DEF Staged
  <2>3. w = m.files[q]
    BY <1>4, <2>1, <2>2 DEF Version
  <2>4. w \in Nat /\ x.staging \in [Paths -> Nat]
    BY <1>4, <2>1, <2>2, <2>3 DEF Absent
  <2>l. l = Files(m.files)
    OBVIOUS
  <2> HIDE DEF q, w, l, x, m
  <2>5. /\ s \in RestorerLocals /\ s.pc = "stage" /\ s.ref = x.ref
        /\ s.left = x.left \ {q} /\ s.staging = [x.staging EXCEPT ![q] = w]
    BY <1>1, <2>1, <2>4 DEF RestorerLocals
  <2> HIDE DEF s
  <2>6. rest'[r] = s /\ markers' = markers
    BY <1>2, <2>1
  <2>7. Commit(r)' = m
    BY <2>5, <2>6 DEF Commit, m, x
  <2>8. s.left \subseteq l
    BY <2>2, <2>5
  <2>9. s.staging = [y \in Paths |->
                       IF y \in l \ s.left THEN m.files[y] ELSE Absent]
    <3>1. \A y \in Paths : s.staging[y] =
            IF y \in l \ s.left THEN m.files[y] ELSE Absent
      BY <2>2, <2>3, <2>4, <2>5
    <3>2. s.staging \in [Paths -> Nat]
      BY <2>4, <2>5
    <3> QED BY <3>1, <3>2
  <2> QED BY <1>4, <2>1, <2>5, <2>6, <2>7, <2>8, <2>9, <2>l, RestorerWhole DEF Staged
<1>10. CASE Rename(r)
  <2>1. PICK pc \in {"done", "failed"} : Restorer(r, "stage", Over(pc))
    BY <1>10 DEF Rename
  <2> QED BY <2>1, OverWhole
<1>11. CASE Abort(r)
  BY <1>11, OverWhole DEF Abort
<1>12. CASE Crash(r)
  <2> DEFINE s == [x EXCEPT !.pc = "crashed"]
  <2>1. s \in RestorerLocals /\ s.pc = "crashed"
    BY <1>1 DEF RestorerLocals
  <2>2. Restorer(r, "stage", s)
    BY <1>12 DEF Crash
  <2> HIDE DEF s
  <2>3. Staged(r)'
    BY <1>2, <2>1, <2>2 DEF Staged
  <2> QED BY <2>1, <2>2, <2>3, RestorerWhole
<1> QED BY <1>6, <1>7, <1>8, <1>9, <1>10, <1>11, <1>12 DEF Restore

LEMMA WorldWhole ==
  ASSUME WholeInv, Types',
         \/ Tick \/ ChangeDefault \/ Occupy
         \/ \E q \in Paths : Write(q)
         \/ UNCHANGED vars
  PROVE  WholeInv'
<1>1. UNCHANGED <<blobs, markers, issued, pub, rest>>
  BY DEF Tick, ChangeDefault, Occupy, Write, vars, bucketVars
<1>2. /\ now \in Nat /\ tree \in [Paths -> Nat] /\ tree' \in [Paths -> Nat]
      /\ tree \in history /\ history \subseteq [Paths -> Nat]
  BY DEF WholeInv, Types
<1>3. now' \in {now, now + 1}
  BY DEF Tick, ChangeDefault, Occupy, Write, vars, envVars
<1>4. \/ tree' = tree /\ history' = history
      \/ /\ history' = history \cup {tree'}
         /\ \E q \in Paths : tree' = [tree EXCEPT ![q] = @ + 1]
  BY DEF Tick, ChangeDefault, Occupy, Write, vars, envVars
<1>5. \A q \in Paths : tree[q] <= tree'[q]
  BY <1>2, <1>4
<1>6. Grows
  BY <1>1, <1>2, <1>3, <1>4, <1>5 DEF Grows
<1>7. \A p \in Publishers : Mirrored(p)'
  BY <1>1, <1>6, MirroredKept DEF WholeInv
<1>8. \A v \in DOMAIN markers' : Published(v)'
  <2> TAKE v \in DOMAIN markers'
  <2>1. v \in DOMAIN markers /\ Published(v)
    BY <1>1 DEF WholeInv
  <2> QED BY <1>1, <1>6, <2>1, PublishedKept DEF Published
<1>9. \A ref \in issued' : Promised(ref)'
  BY <1>1 DEF WholeInv, Promised
<1>10. \A r \in Restorers : Staged(r)'
  BY <1>1, <1>6, StagedKept DEF WholeInv
<1>11. history' \subseteq [Paths -> Nat] /\ tree' \in history'
  BY <1>2, <1>4
<1> QED BY <1>1, <1>7, <1>8, <1>9, <1>10, <1>11 DEF WholeInv

LEMMA StepWhole ==
  ASSUME WholeInv, [Next]_vars PROVE WholeInv'
<1>1. Types'
  BY StepTypes DEF WholeInv
<1> QED BY <1>1, MirrorWhole, RestoreWhole, WorldWhole DEF Next

(* What mirror_tree, publish_commit and restore_commit hold of their own   *)
(* progress, of the versions in the bucket and of the destination is       *)
(* inductive, whatever other publishers, writers and crashes do.           *)
THEOREM WholeInvariant == Spec => []WholeInv
BY InitWhole, StepWhole, PTL DEF Spec


(* mirror_tree reads the source file by file while it changes, and may be  *)
(* killed at any call: a marker stands for all its blobs and for a tree    *)
(* the source had at one moment, and a reference handed out for objects    *)
(* locked minimum_retention_days from the start, also where a multipart    *)
(* upload may add a second version of the marker.                          *)
THEOREM CommitTheorem == Spec => []CommitWhole
<1>1. WholeInv => CommitWhole
  <2> SUFFICES ASSUME WholeInv PROVE CommitWhole
    OBVIOUS
  <2>1. \A v \in DOMAIN markers : Whole(markers[v])
    BY DEF WholeInv, Published
  <2>2. ASSUME NEW ref \in issued
        PROVE  Retained(markers[ref.version])
    <3>1. Promised(ref)
      BY DEF WholeInv
    <3>2. Published(ref.version)
      BY <3>1 DEF WholeInv, Promised
    <3> QED BY <3>1, <3>2 DEF Retained, Promised, Published
  <2> QED BY <2>1, <2>2 DEF CommitWhole
<1> QED BY <1>1, WholeInvariant, PTL

(* restore_commit publishes by one rename, onto nothing, a whole tree that *)
(* the source once was, however the restore is interrupted.                *)
THEOREM RestoreTheorem == Spec => RestoreAllOrNothing
<1>1. ASSUME WholeInv, [Next]_vars, dest' # dest
      PROVE  dest = NoTree /\ dest' \in history \cup {Foreign}
  <2>1. CASE Occupy
    BY <2>1 DEF Occupy
  <2>2. ASSUME NEW r \in Restorers, Rename(r)
        PROVE  dest = NoTree /\ dest' \in history \cup {Foreign}
    <3>1. /\ rest[r].pc = "stage" /\ rest[r].left = {}
          /\ dest = NoTree /\ dest' = rest[r].staging
      BY <1>1, <2>2 DEF Rename, Restorer
    <3> DEFINE f == Commit(r).files
    <3>2. f \in [Paths -> Nat] /\ f \in history
      BY <1>1, <3>1, RestorerFacts
    <3>3. rest[r].staging =
            [q \in Paths |-> IF q \in Files(f) THEN f[q] ELSE Absent]
      BY <1>1, <3>1 DEF WholeInv, Staged
    <3> HIDE DEF f
    <3>4. rest[r].staging = f
      BY <3>2, <3>3 DEF Files
    <3> QED BY <3>1, <3>2, <3>4
  <2>3. CASE \/ Tick \/ ChangeDefault \/ UNCHANGED vars
             \/ \E q \in Paths : Write(q)
             \/ \E p \in Publishers : Mirror(p)
    <3>1. dest' = dest
      BY <2>3 DEF Tick, ChangeDefault, Write, vars, Mirror, Open, Scan, Hash,
         Inventoried, Stage, Put, Confirm, Uploaded, Compare, CheckAbsent,
         PutMarker, Issue, Stop, Publisher
    <3> QED BY <1>1, <3>1
  <2>4. ASSUME NEW r \in Restorers,
               \/ FetchMarker(r) \/ VerifyEntry(r) \/ MakeStaging(r)
               \/ StageEntry(r) \/ Abort(r) \/ Crash(r)
        PROVE  FALSE
    BY <1>1, <2>4 DEF FetchMarker, VerifyEntry, MakeStaging, StageEntry, Abort,
       Crash
  <2> QED BY <1>1, <2>1, <2>2, <2>3, <2>4 DEF Next, Restore
<1>2. WholeInv /\ [Next]_vars =>
        [dest' # dest => dest = NoTree /\ dest' \in history \cup {Foreign}]_vars
  BY <1>1
<1> QED BY <1>2, WholeInvariant, PTL DEF Spec, RestoreAllOrNothing

=============================================================================
