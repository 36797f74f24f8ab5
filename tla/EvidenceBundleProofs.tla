------------------------ MODULE EvidenceBundleProofs ------------------------
(***************************************************************************)
(* Proofs about EvidenceBundle for every number of runners, every set of   *)
(* configs, plans and builds, and any choice of what is dirty.             *)
(*                                                                         *)
(* Everything rests on the manifest.  Its file has one writer, the owner   *)
(* of the directory, whose outcome never changes once it has executed, and *)
(* digests are what they were computed over: so a manifest that can be     *)
(* read determines the documents it binds, and files that match it are     *)
(* those documents.  BundleInv follows the manifest from the owner's list  *)
(* of files to the disk, to the reviewer and to review.json.               *)
(*                                                                         *)
(* ProgressInv follows the owner: each of its files is on the disk or      *)
(* still to be written.  What it sealed is therefore what its execution    *)
(* emitted, and the last part shows that the reviewer accepts that, case   *)
(* by case of how an execution may end.                                    *)
(***************************************************************************)
EXTENDS EvidenceBundle, NaturalLemmas, SequenceTheorems

-----------------------------------------------------------------------------
(* The documents of an execution *)

(* No execution emits more than two streams of a kind.                     *)
Few(streams) == \E n \in 0..2 : streams = [i \in 1..n |-> streams[i]]
Streamed(o)  == Few(o.semantic) /\ Few(o.physical)

(* Sequences joined and extended, element by element.                      *)
LEMMA ConcatAt ==
  ASSUME NEW S, NEW T, NEW x \in Seq(S), NEW y \in Seq(T)
  PROVE  /\ x \o y \in Seq(S \cup T) /\ Len(x \o y) = Len(x) + Len(y)
         /\ \A i \in 1..Len(x) : (x \o y)[i] = x[i]
         /\ \A i \in 1..Len(y) : (x \o y)[Len(x) + i] = y[i]
<1>1. x \in Seq(S \cup T) /\ y \in Seq(S \cup T)
  <2>1. /\ Len(x) \in Nat /\ \A i \in 1..Len(x) : x[i] \in S \cup T
        /\ Len(y) \in Nat /\ \A i \in 1..Len(y) : y[i] \in S \cup T
    OBVIOUS
  <2> QED BY <2>1
<1> QED BY <1>1

LEMMA AppendAt ==
  ASSUME NEW S, NEW x \in Seq(S), NEW e
  PROVE  /\ Append(x, e) \in Seq(S \cup {e}) /\ Len(Append(x, e)) = Len(x) + 1
         /\ DOMAIN Append(x, e) = 1..(Len(x) + 1)
         /\ \A i \in 1..Len(x) : Append(x, e)[i] = x[i]
         /\ Append(x, e)[Len(x) + 1] = e
<1>1. x \in Seq(S \cup {e})
  <2>1. Len(x) \in Nat /\ \A i \in 1..Len(x) : x[i] \in S \cup {e}
    OBVIOUS
  <2> QED BY <2>1
<1> QED BY <1>1

LEMMA FewTuples ==
  ASSUME NEW s, NEW t
  PROVE  Few(<<>>) /\ Few(<<s>>) /\ Few(<<s, t>>) /\ Few(<<s>> \o <<t>>)
<1>1. /\ <<>> = [i \in 1..0 |-> <<>>[i]] /\ <<s>> = [i \in 1..1 |-> <<s>>[i]]
      /\ <<s, t>> = [i \in 1..2 |-> <<s, t>>[i]]
  OBVIOUS
<1>2. <<s>> \o <<t>> = [i \in 1..2 |-> (<<s>> \o <<t>>)[i]]
  <2> DEFINE x == <<s>>
             y == <<t>>
             z == x \o y
             S == {s}
             T == {t}
             U == S \cup T
  <2>1. x \in Seq(S) /\ y \in Seq(T) /\ Len(x) = 1 /\ Len(y) = 1
    OBVIOUS
  <2> HIDE DEF x, y, S, T
  <2>2. z \in Seq(U) /\ Len(z) = Len(x) + Len(y)
    BY <2>1, ConcatAt
  <2> HIDE DEF z, U
  <2>3. z = [i \in 1..2 |-> z[i]]
    BY <2>1, <2>2
  <2> QED BY <2>3 DEF x, y, z
<1> QED BY <1>1, <1>2 DEF Few

LEMMA ExecutionStreams ==
  ASSUME NEW r, NEW c, NEW o \in Executions(r, c)
  PROVE  Streamed(o)
<1> DEFINE p(w, x, t) == PhysicalStreams(r, c, w, x, t)
<1>1. ASSUME NEW w, NEW x, NEW t
      PROVE  Few(p(w, x, t)) /\ (p(w, x, t) # <<>> => Few(p(w, x, t) \o p(w, x, t)))
  BY FewTuples DEF PhysicalStreams
<1>0. ASSUME NEW x, NEW y, NEW res, NEW b, Few(x), Few(y)
      PROVE  Streamed(Outcome(x, y, res, b))
  BY <1>0 DEF Streamed, Outcome
<1> HIDE DEF p
<1>2. CASE o \in Completed(r, c)
  <2>1. /\ \E s : o.semantic = <<s>>
        /\ o.physical = <<>> \/ \E t : o.physical = <<t>>
    BY <1>2, SMT DEF Completed, Outcome, PhysicalStreams, Receipts
  <2> QED BY <2>1, FewTuples DEF Streamed
<1>3. CASE o \in Raised(r, c)
  <2>1. /\ o.semantic = <<>> \/ \E s : o.semantic = <<s>>
        /\ o.physical = <<>> \/ \E t : o.physical = <<t>>
    BY <1>3, SMT DEF Raised, Outcome, PhysicalStreams, Receipts
  <2> QED BY <2>1, FewTuples DEF Streamed
<1>4. CASE o \in Malformed(r, c)
  <2> DEFINE s == Semantic(r, 0, "done")
             good == Result(c, s, 0, "done")
             q == p(0, 0, FALSE)
  <2>1. CASE \E x \in {<<>>, <<<<>>>>, <<s, s>>, <<<<>>, s>>, <<<<Odd>>>>} :
               o = Outcome(x, q, good, FALSE)
    <3>1. PICK x \in {<<>>, <<<<>>>>, <<s, s>>, <<<<>>, s>>, <<<<Odd>>>>} :
            o = Outcome(x, q, good, FALSE)
      BY <2>1
    <3>2. Few(x)
      BY FewTuples
    <3> QED BY <1>0, <1>1, <3>1, <3>2
  <2>2. CASE o = Outcome(<<s>>, q, OtherResult, FALSE)
    BY <1>0, <1>1, <2>2, FewTuples
  <2>3. CASE \E x \in IF q = <<>> THEN {} ELSE {<<<<>>>>, q \o q} :
               o = Outcome(<<s>>, x, good, FALSE)
    <3>1. PICK x \in IF q = <<>> THEN {} ELSE {<<<<>>>>, q \o q} :
            o = Outcome(<<s>>, x, good, FALSE)
      BY <2>3
    <3>2. Few(x)
      BY <1>1, FewTuples
    <3> QED BY <1>0, <3>1, <3>2, FewTuples
  <2> QED BY <1>4, <2>1, <2>2, <2>3, Zenon DEF Malformed, p
<1> QED BY <1>2, <1>3, <1>4 DEF Executions

LEMMA RetainedFew ==
  ASSUME NEW s, Few(s)
  PROVE  \E n \in 0..2 : Retained(s) \in [1..n -> {Retained(s)[k] : k \in 1..n}]
<1>1. PICK m \in 0..2 : DOMAIN s = 1..m
  BY DEF Few
<1> DEFINE kept == {i \in DOMAIN s : s[i] # <<>>}
           size == Cardinality(kept)
<1>2. IsFiniteSet(1..m) /\ Cardinality(1..m) = m
  <2>1. m \in Int /\ 1 \in Int /\ (IF 1 > m THEN 0 ELSE m - 1 + 1) = m
    OBVIOUS
  <2> QED BY <2>1, FS_Interval, Zenon
<1>k. kept \subseteq 1..m
  BY <1>1
<1>3. size \in 0..2
  <2>1. IsFiniteSet(kept) /\ size \in Nat /\ size <= m
    BY <1>2, <1>k, FS_Subset, FS_CardinalityType
  <2> QED BY <2>1
<1>4. Retained(s) = [k \in 1..size |-> Retained(s)[k]]
  BY DEF Retained
<1> HIDE DEF size, kept
<1> QED BY <1>3, <1>4
LEMMA Joined ==
  ASSUME NEW S, NEW T, NEW s \in Seq(S), NEW t \in Seq(T)
  PROVE  /\ s \o t \in Seq(S \cup T)
         /\ s # <<>> => s \o t # <<>> /\ (s \o t)[1] = s[1]
<1>1. s \in Seq(S \cup T) /\ t \in Seq(S \cup T)
  <2>1. /\ Len(s) \in Nat /\ \A i \in 1..Len(s) : s[i] \in S \cup T
        /\ Len(t) \in Nat /\ \A i \in 1..Len(t) : t[i] \in S \cup T
    OBVIOUS
  <2> QED BY <2>1
<1>2. s \o t \in Seq(S \cup T) /\ Len(s \o t) = Len(s) + Len(t)
  BY <1>1
<1>3. ASSUME s # <<>> PROVE s \o t # <<>> /\ (s \o t)[1] = s[1]
  <2>1. Len(s) \in Nat \ {0} /\ Len(t) \in Nat
    BY <1>3
  <2> QED BY <1>1, <1>2, <2>1
<1> QED BY <1>2, <1>3

(* The streams of a failure have names of their own.                       *)
LEMMA FailureStreamDocs ==
  ASSUME NEW s, Few(s), NEW stem \in {"events", "physical"}
  PROVE  LET d == FailureStreams(stem, Retained(s))
         IN  d \in Seq({d[i] : i \in DOMAIN d})
             /\ \A i \in DOMAIN d : d[i].path \in Streams
<1> DEFINE f == Retained(s)
           d == FailureStreams(stem, f)
           S == {d[i] : i \in DOMAIN d}
<1>1. PICK n \in 0..2 : DOMAIN f = 1..n
  BY RetainedFew
<1> HIDE DEF f
<1>2. DOMAIN d = 1..n /\ d = [i \in 1..n |-> d[i]]
  BY <1>1 DEF FailureStreams
<1>3. ASSUME NEW i \in 1..n PROVE d[i].path \in Streams
  <2>1. d[i].path = IF Len(f) = 1 THEN stem ELSE Numbered[stem][i]
    BY <1>1, <1>3 DEF FailureStreams, StreamDoc, Document
  <2>2. Numbered[stem][i] \in Streams
    <3>1. i = 1 \/ i = 2
      OBVIOUS
    <3> QED BY <3>1 DEF Numbered, Streams
  <2> QED BY <2>1, <2>2 DEF Streams
<1>4. d \in Seq(S)
  <2> HIDE DEF d
  <2>1. \A i \in 1..n : d[i] \in S
    BY <1>2
  <2>2. d \in [1..n -> S]
    BY <1>2, <2>1
  <2> HIDE DEF S
  <2> QED BY <2>2
<1> QED BY <1>2, <1>3, <1>4 DEF f

(* The config comes first, and only the manifest is written as one.        *)
LEMMA OutputDocs ==
  ASSUME NEW r, NEW o, Streamed(o)
  PROVE  \E S : /\ Outputs(r, o) \in Seq(S) /\ Outputs(r, o) # <<>>
                /\ Outputs(r, o)[1] = ConfigDoc(input[r])
                /\ \A d \in S : d.path \in Paths \ {"manifest"}
<1> DEFINE c == ConfigDoc(input[r])
           Plain(S) == \A d \in S : d.path \in Paths \ {"manifest"}
<1>c. Plain({c})
  BY DEF ConfigDoc, Document, Paths
<1>1. ASSUME NEW e, NEW S, NEW t \in Seq(S), e.path \in Paths \ {"manifest"}, Plain(S)
      PROVE  /\ <<c, e>> \o t \in Seq({c, e} \cup S) /\ <<c, e>> \o t # <<>>
             /\ (<<c, e>> \o t)[1] = c /\ Plain({c, e} \cup S)
  <2> HIDE DEF c
  <2>1. <<c, e>> \in Seq({c, e}) /\ <<c, e>> # <<>> /\ <<c, e>>[1] = c
    OBVIOUS
  <2> QED BY <1>1, <1>c, <2>1, Joined
<1>2. CASE Presentable(o)
  <2> DEFINE e == StreamDoc("events", o.semantic[1])
             x == Document("result", o.result)
             p == StreamDoc("physical", o.physical[1])
             t == IF o.physical = <<>> THEN <<>> ELSE <<p>>
  <2>1. /\ e.path \in Paths \ {"manifest"} /\ x.path \in Paths \ {"manifest"}
        /\ p.path \in Paths \ {"manifest"}
    BY DEF StreamDoc, Document, Paths, Streams
  <2>2. Outputs(r, o) = <<c, e, x>> \o t
    BY <1>2 DEF Outputs, RawDocs
  <2> HIDE DEF c, e, x, p
  <2>3. <<c, e, x>> \in Seq({c, e, x}) /\ <<c, e, x>> # <<>> /\ <<c, e, x>>[1] = c
    OBVIOUS
  <2>4. t \in Seq({p})
    <3>1. <<>> \in Seq({p}) /\ <<p>> \in Seq({p})
      OBVIOUS
    <3> QED BY <3>1
  <2>5. Plain({c, e, x} \cup {p})
    BY <1>c, <2>1
  <2> HIDE DEF t, Plain
  <2>6. /\ <<c, e, x>> \o t \in Seq({c, e, x} \cup {p}) /\ <<c, e, x>> \o t # <<>>
        /\ (<<c, e, x>> \o t)[1] = c
    BY <2>3, <2>4, Joined
  <2> QED BY <2>2, <2>5, <2>6 DEF c, Plain
<1>3. CASE ~Presentable(o)
  <2> DEFINE s == FailureStreams("events", Retained(o.semantic))
             p == FailureStreams("physical", Retained(o.physical))
             f == Document("failure",
                    [kind |-> "failure", run |-> r,
                     semantic |-> Len(Retained(o.semantic)),
                     physical |-> Len(Retained(o.physical))])
             S == {s[i] : i \in DOMAIN s}
             T == {p[i] : i \in DOMAIN p}
  <2>1. s \in Seq(S) /\ p \in Seq(T) /\ Plain(S) /\ Plain(T)
    <3>1. /\ s \in Seq(S) /\ \A i \in DOMAIN s : s[i].path \in Streams
          /\ p \in Seq(T) /\ \A i \in DOMAIN p : p[i].path \in Streams
      BY FailureStreamDocs DEF Streamed
    <3> HIDE DEF s, p
    <3> QED BY <3>1 DEF Paths, Streams
  <2>2. f.path \in Paths \ {"manifest"}
    BY DEF Document, Paths
  <2>3. Outputs(r, o) = (<<c, f>> \o s) \o p
    BY <1>3 DEF Outputs, FailureDocs
  <2> HIDE DEF c, f, s, p, S, T
  <2>4. /\ <<c, f>> \o s \in Seq({c, f} \cup S) /\ <<c, f>> \o s # <<>>
        /\ (<<c, f>> \o s)[1] = c /\ Plain({c, f} \cup S)
    BY <1>1, <2>1, <2>2
  <2>5. Plain(({c, f} \cup S) \cup T)
    BY <2>1, <2>4
  <2> HIDE DEF Plain
  <2>6. /\ (<<c, f>> \o s) \o p \in Seq(({c, f} \cup S) \cup T)
        /\ (<<c, f>> \o s) \o p # <<>> /\ ((<<c, f>> \o s) \o p)[1] = c
    BY <2>1, <2>4, Joined
  <2> QED BY <2>3, <2>5, <2>6 DEF c, Plain
<1> QED BY <1>2, <1>3
ManifestOf(r, o) == Manifest(r, Decision(o), Outputs(r, o))

LEMMA DocumentsShape ==
  ASSUME NEW r, NEW o, Streamed(o)
  PROVE  LET x == Outputs(r, o)
             d == Documents(r, o)
             n == Len(x)
         IN  /\ n \in Nat \ {0} /\ DOMAIN x = 1..n
             /\ Len(d) = n + 1 /\ DOMAIN d = 1..(n + 1)
             /\ d \in Seq(ToSet(d)) /\ d[1] = ConfigDoc(input[r])
             /\ \A i \in 1..n : d[i] = x[i] /\ d[i].path \in Paths \ {"manifest"}
             /\ d[n + 1] = ManifestOf(r, o)
             /\ Last(d) = ManifestOf(r, o)
<1> DEFINE x == Outputs(r, o)
           d == Documents(r, o)
           n == Len(x)
           m == ManifestOf(r, o)
<1>1. PICK S : /\ x \in Seq(S) /\ x # <<>> /\ x[1] = ConfigDoc(input[r])
               /\ \A e \in S : e.path \in Paths \ {"manifest"}
  BY OutputDocs
<1>2. d = Append(x, m)
  BY DEF Documents, ManifestOf
<1> HIDE DEF x, d, m
<1>3. /\ n \in Nat \ {0} /\ DOMAIN x = 1..n /\ \A i \in 1..n : x[i] \in S
  BY <1>1
<1>4. d \in Seq(S \cup {m}) /\ Len(d) = n + 1 /\ DOMAIN d = 1..(n + 1)
  <2>1. x \in Seq(S \cup {m})
    BY <1>1, <1>3
  <2> QED BY <1>2, <2>1
<1>5. d[n + 1] = m /\ \A i \in 1..n : d[i] = x[i]
  BY <1>1, <1>2, <1>3
<1>6. d \in Seq(ToSet(d))
  <2>1. d = [i \in 1..(n + 1) |-> d[i]] /\ n + 1 \in Nat
    BY <1>3, <1>4
  <2>2. \A i \in 1..(n + 1) : d[i] \in ToSet(d)
    BY <1>4 DEF ToSet
  <2> QED BY <2>1, <2>2
<1>7. Last(d) = m
  BY <1>4, <1>5 DEF Last
<1> QED BY <1>1, <1>3, <1>4, <1>5, <1>6, <1>7 DEF x, d, m

-----------------------------------------------------------------------------
(* Their files *)

Item(doc, kind) == [file |-> <<doc.path, kind>>, body |-> doc.body]
Items(docs) == UNION {{Item(doc, "data"), Item(doc, "sidecar")} : doc \in docs}

LEMMA ItemIn ==
  ASSUME NEW S, NEW doc \in S, NEW kind \in {"data", "sidecar"}
  PROVE  Item(doc, kind) \in Items(S)
BY DEF Items

LEMMA FilesTyped ==
  ASSUME NEW S, NEW d \in Seq(S)
  PROVE  FilesOf(d) \in Seq(Items(S))
<1> DEFINE n == Len(d)
<1>1. n \in Nat /\ 2 * n \in Nat /\ \A i \in 1..n : d[i] \in S
  OBVIOUS
<1>2. ASSUME NEW i \in 1..(2 * n)
      PROVE  FilesOf(d)[i] \in Items(S)
  <2> DEFINE k == (i + 1) \div 2
             kind == IF i % 2 = 1 THEN "data" ELSE "sidecar"
  <2>1. k \in 1..n
    BY <1>1
  <2>2. d[k] \in S /\ kind \in {"data", "sidecar"}
    BY <1>1, <2>1
  <2>3. FilesOf(d)[i] = Item(d[k], kind)
    BY DEF FilesOf, Item
  <2> HIDE DEF k, kind
  <2> QED BY <2>2, <2>3, ItemIn
<1>3. FilesOf(d) = [i \in 1..(2 * n) |-> FilesOf(d)[i]]
  BY DEF FilesOf
<1> HIDE DEF n
<1> QED BY <1>1, <1>2, <1>3

LEMMA ItemOf ==
  ASSUME NEW S, NEW item \in Items(S)
  PROVE  \E doc \in S, kind \in {"data", "sidecar"} :
           item.file = <<doc.path, kind>> /\ item.body = doc.body
BY DEF Items, Item

(* The only writer of the manifest's file writes the manifest.             *)
LEMMA OutputItem ==
  ASSUME NEW r, NEW o, Streamed(o), NEW item \in Items(ToSet(Documents(r, o)))
  PROVE  /\ item.file \in Files
         /\ item.file[1] = "manifest" => item.body = ManifestOf(r, o).body
<1> DEFINE d == Documents(r, o)
           n == Len(Outputs(r, o))
           m == ManifestOf(r, o)
<1>1. PICK doc \in ToSet(d), kind \in {"data", "sidecar"} :
        item.file = <<doc.path, kind>> /\ item.body = doc.body
  BY ItemOf
<1>2. /\ n \in Nat /\ DOMAIN d = 1..(n + 1)
      /\ \A i \in 1..n : d[i].path \in Paths \ {"manifest"}
      /\ d[n + 1] = m
  BY DocumentsShape
<1>3. PICK i \in 1..(n + 1) : doc = d[i]
  BY <1>1, <1>2 DEF ToSet
<1>4. m.path = "manifest"
  BY DEF ManifestOf, Manifest, Document
<1> HIDE DEF d, n, m
<1>5. i \in 1..n \/ i = n + 1
  BY <1>2, <1>3
<1>6. doc.path \in Paths /\ (doc.path = "manifest" => doc = m)
  BY <1>2, <1>3, <1>4, <1>5 DEF Paths
<1> QED BY <1>1, <1>6 DEF Files, m

LEMMA ConfigItem ==
  ASSUME NEW c, NEW item \in Items({ConfigDoc(c)})
  PROVE  item.file \in Files /\ item.file[1] # "manifest"
<1>1. ConfigDoc(c).path = "config"
  BY DEF ConfigDoc, Document
<1>2. PICK kind \in {"data", "sidecar"} : item.file = <<"config", kind>>
  BY <1>1, ItemOf
<1> QED BY <1>2 DEF Files, Paths
-----------------------------------------------------------------------------
(* Histories *)

(* A legal step added to a history that replays gives one that replays.    *)
LEMMA Advanced ==
  ASSUME NEW S, NEW h \in Seq(S), Replays(h), NEW s \in EvidenceState,
         CanAdvance(h, s), NEW evidence
  PROVE  LET g == Advance(h, s, evidence)
         IN  /\ Replays(g) /\ StateOf(g) = s /\ Front(g) = h
             /\ Last(g).evidence = evidence
             /\ \E T : g \in Seq(T)
<1> DEFINE g == Advance(h, s, evidence)
           e == LifecycleEvent(h, s, evidence)
           n == Len(h)
<1>1. n \in Nat \ {0} /\ DOMAIN h = 1..n
  BY DEF Replays
<1>2. g = Append(h, e)
  BY DEF Advance
<1>e. e.state = s /\ e.evidence = evidence
  BY DEF LifecycleEvent
<1> HIDE DEF g
<1>3. /\ g \in Seq(S \cup {e}) /\ Len(g) = n + 1 /\ DOMAIN g = 1..(n + 1)
      /\ g[n + 1] = e /\ \A i \in 1..n : g[i] = h[i]
  <2> HIDE DEF e
  <2>1. h \in Seq(S \cup {e})
    BY <1>1
  <2> QED BY <1>1, <1>2, <2>1
<1>4. ASSUME NEW k \in 0..n PROVE SubSeq(g, 1, k) = SubSeq(h, 1, k)
  <2>1. /\ SubSeq(g, 1, k) = [i \in 1..k |-> g[i]]
        /\ SubSeq(h, 1, k) = [i \in 1..k |-> h[i]]
    BY <1>1, <1>3
  <2> QED BY <1>1, <1>3, <2>1
<1>5. SubSeq(g, 1, n) = h
  <2>1. SubSeq(h, 1, n) = [i \in 1..n |-> h[i]] /\ h = [i \in 1..n |-> h[i]]
    BY <1>1
  <2> QED BY <1>1, <1>4, <2>1
<1>6. ASSUME NEW i \in 1..(n + 1)
      PROVE  /\ g[i].state \in EvidenceState
             /\ g[i] = LifecycleEvent(SubSeq(g, 1, i - 1), g[i].state, g[i].evidence)
             /\ IF i = 1 THEN g[i].state = "PLANNED"
                ELSE g[i].state \in Successors(g[i - 1].state)
  <2>1. CASE i = n + 1
    <3>1. g[i] = e /\ i - 1 = n /\ i # 1 /\ g[i - 1] = h[n]
      BY <1>1, <1>3, <2>1
    <3>2. g[i].state \in Successors(g[i - 1].state)
      BY <1>e, <3>1 DEF CanAdvance, StateOf
    <3> QED BY <1>5, <1>e, <3>1, <3>2
  <2>2. CASE i \in 1..n
    <3>1. /\ h[i].state \in EvidenceState
          /\ h[i] = LifecycleEvent(SubSeq(h, 1, i - 1), h[i].state, h[i].evidence)
          /\ IF i = 1 THEN h[i].state = "PLANNED"
             ELSE h[i].state \in Successors(h[i - 1].state)
      BY <1>1, <2>2 DEF Replays
    <3>2. i - 1 \in 0..n /\ (i # 1 => i - 1 \in 1..n)
      BY <1>1, <2>2
    <3>3. SubSeq(g, 1, i - 1) = SubSeq(h, 1, i - 1)
      BY <1>4, <3>2
    <3>4. g[i] = h[i] /\ (i # 1 => g[i - 1] = h[i - 1])
      BY <1>3, <2>2, <3>2
    <3> QED BY <3>1, <3>3, <3>4
  <2> QED BY <1>1, <2>1, <2>2
<1>7. g # <<>>
  BY <1>1, <1>3
<1>8. Replays(g)
  BY <1>3, <1>6, <1>7 DEF Replays
<1>9. StateOf(g) = s /\ Last(g).evidence = evidence
  BY <1>3, <1>e DEF StateOf, Last
<1>10. Front(g) = h
  BY <1>1, <1>3, <1>5 DEF Front
<1> QED BY <1>3, <1>8, <1>9, <1>10 DEF g

LEMMA Started ==
  ASSUME NEW evidence
  PROVE  LET h == Start(evidence)
         IN  Replays(h) /\ StateOf(h) = "PLANNED" /\ \E S : h \in Seq(S)
<1> DEFINE e == LifecycleEvent(<<>>, "PLANNED", evidence)
           h == Start(evidence)
<1>1. h = <<e>>
  BY DEF Start
<1>2. e.state = "PLANNED" /\ e.evidence = evidence
  BY DEF LifecycleEvent
<1>3. e = LifecycleEvent(<<>>, e.state, e.evidence)
  BY <1>2
<1> HIDE DEF e, h
<1>4. /\ h \in Seq({e}) /\ h # <<>> /\ DOMAIN h = 1..1 /\ h[1] = e /\ Len(h) = 1
      /\ SubSeq(h, 1, 1 - 1) = <<>>
  BY <1>1
<1>5. Replays(h)
  <2>1. ASSUME NEW i \in 1..1 PROVE i = 1
    OBVIOUS
  <2> QED BY <1>2, <1>3, <1>4, <2>1 DEF Replays, EvidenceState
<1> QED BY <1>2, <1>4, <1>5 DEF StateOf, h

(* The history a manifest carries is one a review may extend.              *)
LEMMA ManifestHistory ==
  ASSUME NEW r, NEW o
  PROVE  LET h == ManifestOf(r, o).body.lifecycle
         IN  /\ Replays(h) /\ CanAdvance(h, "REVIEWED") /\ \E S : h \in Seq(S)
<1> DEFINE a == Start(ConfigDoc(input[r]).body)
           b == Running(r)
           x == Artifacts(Entries(Outputs(r, o)))
           h == ManifestOf(r, o).body.lifecycle
<1>1. h = Advance(b, "SEALED", x)
  BY DEF ManifestOf, Manifest, Document
<1>2. b = Advance(a, "RUNNING", Identity(installed[r]))
  BY DEF Running
<1> HIDE DEF a, b, x, h
<1>3. Replays(a) /\ StateOf(a) = "PLANNED" /\ \E S : a \in Seq(S)
  BY Started DEF a
<1>4. Replays(b) /\ StateOf(b) = "RUNNING" /\ \E S : b \in Seq(S)
  <2>1. CanAdvance(a, "RUNNING") /\ "RUNNING" \in EvidenceState
    BY <1>3 DEF CanAdvance, Successors, EvidenceState
  <2> QED BY <1>2, <1>3, <2>1, Advanced
<1>5. Replays(h) /\ StateOf(h) = "SEALED" /\ \E S : h \in Seq(S)
  <2>1. CanAdvance(b, "SEALED") /\ "SEALED" \in EvidenceState
    BY <1>4 DEF CanAdvance, Successors, EvidenceState
  <2> QED BY <1>1, <1>4, <2>1, Advanced
<1>6. CanAdvance(h, "REVIEWED")
  BY <1>5 DEF CanAdvance, Successors
<1> QED BY <1>5, <1>6 DEF h
-----------------------------------------------------------------------------
(* The invariant *)

Stages == {"fresh", "prepared", "absent", "opening", "sealing"} \cup Ended

(* Where a runner has executed its case, or never will.                    *)
Past == {"sealing", "sealed", "failed", "stopped"}

Types ==
  /\ pc \in [Runners -> Stages] /\ owner \in Runners \cup {NoRunner}
  /\ DOMAIN outcome = Runners /\ DOMAIN todo = Runners /\ DOMAIN disk = Files
  /\ DOMAIN review = {"data", "sidecar"}

(* Only the owner writes, and what it has still to write are the files of  *)
(* the documents of its one execution.                                     *)
Writing(r) ==
  /\ pc[r] \in {"opening", "sealing"} => owner = r
  /\ pc[r] = "opening" => todo[r] \in Seq(Items({ConfigDoc(input[r])}))
  /\ pc[r] = "sealing" =>
       /\ Streamed(outcome[r])
       /\ todo[r] \in Seq(Items(ToSet(Documents(r, outcome[r]))))

Written == owner \in Runners /\ pc[owner] \in Past /\ Streamed(outcome[owner])
OwnManifest == ManifestOf(owner, outcome[owner]).body

(* A manifest that can be read is that of the owner's execution.           *)
ManifestTrue == Whole(Body("manifest")) => Written /\ Body("manifest") = OwnManifest

(* A reviewer at work has verified that manifest.                          *)
Verified ==
  reviewer \in {"verified", "replayed", "writing"} =>
    /\ Whole(Body("manifest")) /\ Body("manifest").decision = "none"
    /\ input[owner] = planned

ReviewTrue ==
  Whole(review.data) =>
    /\ Written /\ Presentable(outcome[owner]) /\ input[owner] = planned
    /\ review.data = Review(OwnManifest)

BundleInv ==
  /\ Types /\ (\A r \in Runners : Writing(r))
  /\ ManifestTrue /\ Verified /\ ReviewTrue

-----------------------------------------------------------------------------
(* Steps *)

LEMMA InitBundle == Init => BundleInv
<1> SUFFICES ASSUME Init PROVE BundleInv
  OBVIOUS
<1>1. Types
  BY DEF Init, Types, Stages
<1>2. \A r \in Runners : Writing(r)
  BY DEF Init, Writing
<1>3. Body("manifest") = Absent
  BY DEF Init, Body, Files, Paths
<1>4. review.data = Absent /\ reviewer = "idle"
  BY DEF Init
<1> QED BY <1>1, <1>2, <1>3, <1>4 DEF BundleInv, ManifestTrue, Verified, ReviewTrue, Whole

LEMMA Fixed == [Next]_vars => UNCHANGED <<planned, input, installed>>
BY DEF Next, vars, runVars, reviewVars, RunnerStep, ReviewStep, HostCrash, ReviewMove,
   Prepare, CheckAbsent, MakeDirectory, MakeDirectoryRefused, Execute, Create,
   Abandon, Fill, Finish, Stop, VerifyRaw, Replay, MakeReviewDirectory,
   WriteReview, SignReview, ReviewerKilled

(* Documents are what the inputs of their runner make of an outcome.       *)
LEMMA SameDocuments ==
  ASSUME UNCHANGED <<input, installed>>, NEW r, NEW o
  PROVE  /\ Documents(r, o)' = Documents(r, o)
         /\ ManifestOf(r, o)' = ManifestOf(r, o)
<1>1. Outputs(r, o)' = Outputs(r, o)
  BY DEF Outputs, RawDocs, FailureDocs
<1>2. Running(r)' = Running(r)
  BY DEF Running
<1>3. Manifest(r, Decision(o), Outputs(r, o))' = Manifest(r, Decision(o), Outputs(r, o))
  BY <1>1, <1>2 DEF Manifest
<1> QED BY <1>1, <1>3 DEF Documents, ManifestOf

LEMMA SameReview ==
  ASSUME UNCHANGED planned, NEW m
  PROVE  Review(m)' = Review(m)
BY DEF Review, Expected
(* What has been executed stays, and its owner with it.                    *)
LEMMA Steady ==
  ASSUME Types, [Next]_vars, NEW r \in Runners, owner = r, pc[r] \in Past
  PROVE  owner' = r /\ pc'[r] \in Past /\ outcome'[r] = outcome[r]
<1> USE DEF runVars, reviewVars
<1>0. owner # NoRunner /\ pc \in [Runners -> Stages] /\ DOMAIN outcome = Runners
  BY BundleAssumption DEF Types
<1>p. pc[r] \notin {"fresh", "prepared", "absent", "opening"}
  BY DEF Past
<1>1. ASSUME NEW s \in Runners, RunnerStep(s)
      PROVE  owner' = r /\ pc'[r] \in Past /\ outcome'[r] = outcome[r]
  <2>1. CASE Prepare(s) \/ CheckAbsent(s) \/ MakeDirectoryRefused(s)
    BY <1>0, <1>p, <2>1 DEF Prepare, CheckAbsent, MakeDirectoryRefused, Move
  <2>2. CASE MakeDirectory(s)
    BY <1>0, <2>2 DEF MakeDirectory
  <2>3. CASE Execute(s)
    <3>1. s # r
      BY <1>p, <2>3 DEF Execute, Move
    <3> QED BY <1>0, <2>3, <3>1 DEF Execute, Move
  <2>4. CASE Create(s) \/ Fill(s)
    BY <2>4 DEF Create, Fill
  <2>5. CASE Abandon(s) \/ Finish(s) \/ Stop(s)
    BY <1>0, <2>5 DEF Abandon, Finish, Stop, Move, Past
  <2> QED BY <1>1, <2>1, <2>2, <2>3, <2>4, <2>5 DEF RunnerStep
<1>2. CASE ReviewStep
  BY <1>2 DEF ReviewStep, ReviewMove, VerifyRaw, Replay, MakeReviewDirectory,
     WriteReview, SignReview, ReviewerKilled
<1>3. CASE HostCrash
  BY <1>3 DEF HostCrash, Past
<1>4. CASE UNCHANGED vars
  BY <1>4 DEF vars
<1> QED BY <1>1, <1>2, <1>3, <1>4 DEF Next

LEMMA StepTypes ==
  ASSUME Types, [Next]_vars
  PROVE  Types'
<1> USE DEF runVars, reviewVars, Types
<1>1. ASSUME NEW s \in Runners, RunnerStep(s) PROVE Types'
  <2>1. CASE Prepare(s) \/ CheckAbsent(s) \/ MakeDirectoryRefused(s)
    BY <2>1 DEF Prepare, CheckAbsent, MakeDirectoryRefused, Move, Stages, Ended
  <2>2. CASE MakeDirectory(s)
    BY <2>2 DEF MakeDirectory, Move, Stages
  <2>3. CASE Execute(s)
    BY <2>3 DEF Execute, Move, Stages
  <2>4. CASE Create(s) \/ Fill(s)
    BY <2>4 DEF Create, Fill
  <2>5. CASE Abandon(s) \/ Finish(s) \/ Stop(s)
    BY <2>5 DEF Abandon, Finish, Stop, Move, Stages, Ended
  <2> QED BY <1>1, <2>1, <2>2, <2>3, <2>4, <2>5 DEF RunnerStep
<1>2. CASE ReviewStep
  BY <1>2 DEF ReviewStep, ReviewMove, VerifyRaw, Replay, MakeReviewDirectory,
     WriteReview, SignReview, ReviewerKilled
<1>3. CASE HostCrash
  BY <1>3 DEF HostCrash, Stages, Ended
<1>4. CASE UNCHANGED vars
  BY <1>4 DEF vars
<1> QED BY <1>1, <1>2, <1>3, <1>4 DEF Next

(* A runner that is not touched writes on.                                 *)
LEMMA StillWriting ==
  ASSUME UNCHANGED <<input, installed>>, NEW r \in Runners, Writing(r),
         pc'[r] \in {pc[r], "sealed", "failed", "stopped", "refused"},
         todo'[r] = todo[r], outcome'[r] = outcome[r],
         owner' = owner \/ pc[r] \notin {"opening", "sealing"}
  PROVE  Writing(r)'
BY SameDocuments DEF Writing

LEMMA StepWriting ==
  ASSUME Types, \A r \in Runners : Writing(r), [Next]_vars, NEW r \in Runners
  PROVE  Writing(r)'
<1> USE DEF runVars, reviewVars
<1>0. UNCHANGED <<input, installed>> /\ Writing(r)
  BY Fixed
<1>t. /\ pc \in [Runners -> Stages] /\ owner \in Runners \cup {NoRunner}
      /\ DOMAIN outcome = Runners /\ DOMAIN todo = Runners
  BY DEF Types
<1>1. ASSUME NEW s \in Runners, RunnerStep(s) PROVE Writing(r)'
  <2>1. CASE Prepare(s) \/ CheckAbsent(s) \/ MakeDirectoryRefused(s)
    <3>1. /\ UNCHANGED <<todo, outcome, owner>>
          /\ pc'[r] = pc[r] \/ pc'[r] \notin {"opening", "sealing"}
      BY <1>t, <2>1 DEF Prepare, CheckAbsent, MakeDirectoryRefused, Move
    <3>2. CASE pc'[r] = pc[r]
      BY <1>0, <3>1, <3>2, StillWriting
    <3> QED BY <3>1, <3>2 DEF Writing
  <2>2. CASE MakeDirectory(s)
    <3>1. CASE s = r
      <4>1. /\ owner' = r /\ pc'[r] = "opening"
            /\ todo'[r] = FilesOf(<<ConfigDoc(input[r])>>)
        BY <1>t, <2>2, <3>1 DEF MakeDirectory, Move
      <4>2. <<ConfigDoc(input[r])>> \in Seq({ConfigDoc(input[r])})
        OBVIOUS
      <4>3. todo'[r] \in Seq(Items({ConfigDoc(input'[r])}))
        BY <1>0, <4>1, <4>2, FilesTyped
      <4> QED BY <4>1, <4>3 DEF Writing
    <3>2. CASE s # r
      <4>1. /\ pc'[r] = pc[r] /\ todo'[r] = todo[r] /\ outcome'[r] = outcome[r]
            /\ pc[r] \notin {"opening", "sealing"}
        BY <1>0, <1>t, <2>2, <3>2, BundleAssumption DEF MakeDirectory, Move, Writing
      <4> QED BY <1>0, <4>1, StillWriting
    <3> QED BY <3>1, <3>2
  <2>3. CASE Execute(s)
    <3>1. CASE s = r
      <4>1. PICK o \in Executions(r, input[r]) :
              /\ owner' = owner /\ pc[r] = "opening" /\ pc'[r] = "sealing"
              /\ outcome'[r] = o /\ todo'[r] = FilesOf(Tail(Documents(r, o)))
        BY <1>t, <2>3, <3>1 DEF Execute, Move
      <4>2. Streamed(o)
        BY ExecutionStreams
      <4> DEFINE d == Documents(r, o)
      <4>3. d \in Seq(ToSet(d)) /\ d # <<>>
        <5>1. d \in Seq(ToSet(d)) /\ Len(d) = Len(Outputs(r, o)) + 1 /\ Len(Outputs(r, o)) \in Nat
          BY <4>2, DocumentsShape
        <5> HIDE DEF d
        <5> QED BY <5>1
      <4>4. Tail(d) \in Seq(ToSet(d))
        <5> HIDE DEF d
        <5> QED BY <4>3
      <4>5. todo'[r] \in Seq(Items(ToSet(d)))
        BY <4>1, <4>4, FilesTyped
      <4>6. d = Documents(r, o)'
        BY <1>0, SameDocuments
      <4>7. owner = r
        BY <1>0, <4>1 DEF Writing
      <4> HIDE DEF d
      <4>8. todo'[r] \in Seq(Items(ToSet(Documents(r, outcome[r])')))
        BY <4>1, <4>5, <4>6
      <4> QED BY <4>1, <4>2, <4>7, <4>8 DEF Writing
    <3>2. CASE s # r
      <4>1. /\ pc'[r] = pc[r] /\ todo'[r] = todo[r] /\ outcome'[r] = outcome[r]
            /\ owner' = owner
        BY <1>t, <2>3, <3>2 DEF Execute, Move
      <4> QED BY <1>0, <4>1, StillWriting
    <3> QED BY <3>1, <3>2
  <2>4. CASE Create(s)
    BY <1>0, <2>4, StillWriting DEF Create
  <2>5. CASE Fill(s)
    <3>1. CASE s = r
      <4>1. /\ UNCHANGED <<pc, outcome, owner>> /\ todo'[r] = Tail(todo[r])
            /\ todo[r] # <<>>
        BY <1>t, <2>5, <3>1 DEF Fill, Busy
      <4>2. ASSUME NEW S, todo[r] \in Seq(S) PROVE todo'[r] \in Seq(S)
        BY <4>1, <4>2
      <4>3. Documents(r, outcome[r])' = Documents(r, outcome[r])
        BY <1>0, <4>1, SameDocuments
      <4>4. input' = input
        BY <1>0
      <4> QED BY <1>0, <4>1, <4>2, <4>3, <4>4 DEF Writing
    <3>2. CASE s # r
      <4>1. UNCHANGED <<pc, outcome, owner>> /\ todo'[r] = todo[r]
        BY <1>t, <2>5, <3>2 DEF Fill
      <4> QED BY <1>0, <4>1, StillWriting
    <3> QED BY <3>1, <3>2
  <2>6. CASE Abandon(s) \/ Finish(s) \/ Stop(s)
    <3>1. /\ UNCHANGED <<todo, outcome, owner>>
          /\ pc'[r] \in {pc[r], "sealed", "failed", "stopped", "refused"}
      BY <1>t, <2>6 DEF Abandon, Finish, Stop, Move
    <3> QED BY <1>0, <3>1, StillWriting
  <2> QED BY <1>1, <2>1, <2>2, <2>3, <2>4, <2>5, <2>6 DEF RunnerStep
<1>2. CASE ReviewStep
  BY <1>0, <1>2, StillWriting DEF ReviewStep, ReviewMove, VerifyRaw, Replay,
     MakeReviewDirectory, WriteReview, SignReview, ReviewerKilled
<1>3. CASE HostCrash
  <2>1. /\ UNCHANGED <<todo, outcome, owner>>
        /\ pc'[r] \in {pc[r], "sealed", "failed", "stopped", "refused"}
    BY <1>3 DEF HostCrash
  <2> QED BY <1>0, <2>1, StillWriting
<1>4. CASE UNCHANGED vars
  BY <1>0, <1>4, StillWriting DEF vars
<1> QED BY <1>1, <1>2, <1>3, <1>4 DEF Next
(* The item a busy runner is at belongs to a file, and the manifest's file *)
(* is only ever filled with the owner's manifest.                          *)
LEMMA NextItem ==
  ASSUME Types, NEW r \in Runners, Writing(r), Busy(r)
  PROVE  /\ Head(todo[r]).file \in Files
         /\ Head(todo[r]).file[1] = "manifest" => Written
              /\ owner = r /\ Head(todo[r]).body = OwnManifest
<1> DEFINE item == Head(todo[r])
<1>1. todo[r] # <<>> /\ owner = r /\ pc[r] \in {"opening", "sealing"}
  BY DEF Busy, Writing
<1>2. CASE pc[r] = "opening"
  <2>1. item \in Items({ConfigDoc(input[r])})
    BY <1>1, <1>2 DEF Writing
  <2> QED BY <2>1, ConfigItem
<1>3. CASE pc[r] = "sealing"
  <2>1. item \in Items(ToSet(Documents(r, outcome[r]))) /\ Streamed(outcome[r])
    BY <1>1, <1>3 DEF Writing
  <2>2. item.file \in Files
        /\ (item.file[1] = "manifest" => item.body = ManifestOf(r, outcome[r]).body)
    BY <2>1, OutputItem
  <2> QED BY <1>1, <1>3, <2>1, <2>2 DEF Written, Past, OwnManifest
<1> QED BY <1>1, <1>2, <1>3

(* The manifest's file is created torn, filled with the manifest by its    *)
(* owner, and damaged by a crash; nobody else touches it.                  *)
LEMMA ManifestFile ==
  ASSUME Types, \A r \in Runners : Writing(r), [Next]_vars
  PROVE  \/ Body("manifest")' = Body("manifest")
         \/ Body("manifest") = Absent /\ Body("manifest")' = Torn
         \/ Written /\ Body("manifest")' = OwnManifest
         \/ HostCrash /\ Body("manifest")' \in {Absent, Torn}
<1> USE DEF runVars, reviewVars, Body
<1> DEFINE f == <<"manifest", "data">>
<1>0. DOMAIN disk = Files /\ f \in Files /\ disk["manifest", "data"] = disk[f]
  BY DEF Types, Files, Paths
<1>1. ASSUME NEW r \in Runners, RunnerStep(r)
      PROVE  \/ disk'[f] = disk[f]
             \/ disk[f] = Absent /\ disk'[f] = Torn
             \/ Written /\ disk'[f] = OwnManifest
  <2> DEFINE item == Head(todo[r])
  <2>1. CASE Create(r)
    <3>1. disk[item.file] = Absent /\ disk' = [disk EXCEPT ![item.file] = Torn]
      BY <2>1 DEF Create
    <3> QED BY <1>0, <3>1
  <2>2. CASE Fill(r)
    <3>1. Busy(r) /\ disk' = [disk EXCEPT ![item.file] = item.body]
      BY <2>2 DEF Fill
    <3>2. item.file = f => Written /\ item.body = OwnManifest
      BY <3>1, NextItem
    <3> HIDE DEF item, f
    <3> QED BY <1>0, <3>1, <3>2
  <2>3. CASE UNCHANGED disk
    BY <2>3
  <2> QED BY <1>1, <2>1, <2>2, <2>3 DEF RunnerStep, Prepare, CheckAbsent,
        MakeDirectory, MakeDirectoryRefused, Execute, Move, Abandon, Finish, Stop
<1>2. CASE ReviewStep \/ UNCHANGED vars
  <2>1. UNCHANGED disk
    BY <1>2 DEF ReviewStep, ReviewMove, VerifyRaw, Replay, MakeReviewDirectory,
       WriteReview, SignReview, ReviewerKilled, vars
  <2> QED BY <2>1
<1>3. CASE HostCrash
  <2>1. PICK p \in Paths : \E data \in Damages(p),
               sidecar \in {disk[p, "sidecar"], Torn, Absent} :
          disk' = [disk EXCEPT ![<<p, "data">>] = data,
                               ![<<p, "sidecar">>] = sidecar]
    BY <1>3 DEF HostCrash
  <2>2. PICK data \in Damages(p), sidecar \in {disk[p, "sidecar"], Torn, Absent} :
          disk' = [disk EXCEPT ![<<p, "data">>] = data,
                               ![<<p, "sidecar">>] = sidecar]
    BY <2>1
  <2>3. disk'[f] = IF p = "manifest" THEN data ELSE disk[f]
    BY <1>0, <2>2
  <2>4. p = "manifest" => data \in {disk[f], Torn, Absent}
    BY DEF Damages, Streams
  <2> QED BY <1>0, <1>3, <2>3, <2>4
<1> QED BY <1>0, <1>1, <1>2, <1>3 DEF Next

LEMMA WrittenStays ==
  ASSUME Types, Written, [Next]_vars
  PROVE  /\ Written' /\ owner' = owner /\ outcome'[owner] = outcome[owner]
         /\ OwnManifest' = OwnManifest /\ UNCHANGED <<planned, input>>
<1>1. /\ owner' = owner /\ pc'[owner] \in Past
      /\ outcome'[owner] = outcome[owner]
  BY Steady DEF Written
<1>2. Written'
  BY <1>1 DEF Written
<1>3. UNCHANGED <<planned, input, installed>>
  BY Fixed
<1>4. OwnManifest' = OwnManifest
  BY <1>1, <1>3, SameDocuments DEF OwnManifest
<1> QED BY <1>1, <1>2, <1>3, <1>4

LEMMA StepManifest ==
  ASSUME Types, \A r \in Runners : Writing(r), ManifestTrue, [Next]_vars
  PROVE  ManifestTrue'
<1>1. CASE Written
  BY <1>1, WrittenStays, ManifestFile DEF ManifestTrue, Whole
<1>2. CASE ~Written
  BY <1>2, ManifestFile DEF ManifestTrue, Whole
<1> QED BY <1>1, <1>2

(* The verification of a manifest that can be read.                        *)
LEMMA VerifiedInput ==
  ASSUME ManifestTrue, Whole(Body("manifest")), IdentityExpected
  PROVE  input[owner] = planned /\ installed[owner] = planned.build
<1>1. /\ Body("manifest").input = ConfigDoc(input[owner]).body
      /\ Body("manifest").identity = Identity(installed[owner])
  BY DEF ManifestTrue, OwnManifest, ManifestOf, Manifest, Document
<1>2. /\ Body("manifest").input = ConfigDoc(planned).body
      /\ Body("manifest").identity = Identity(planned.build)
  BY DEF IdentityExpected, Expected
<1>3. ConfigDoc(input[owner]).body.config = input[owner]
      /\ ConfigDoc(planned).body.config = planned
  BY DEF ConfigDoc, Document
<1>4. Identity(installed[owner]).build = installed[owner]
      /\ Identity(planned.build).build = planned.build
  BY DEF Identity
<1> QED BY <1>1, <1>2, <1>3, <1>4

LEMMA StepVerified ==
  ASSUME BundleInv, [Next]_vars
  PROVE  Verified'
<1> USE DEF runVars, reviewVars
<1>i. /\ Types /\ (\A r \in Runners : Writing(r)) /\ ManifestTrue /\ Verified
  BY DEF BundleInv
<1>1. CASE ReviewStep
  <2>1. UNCHANGED <<disk, owner>> /\ UNCHANGED <<planned, input>>
    BY <1>1, Fixed DEF ReviewStep, ReviewMove, VerifyRaw, Replay, MakeReviewDirectory,
       WriteReview, SignReview, ReviewerKilled
  <2>2. Body("manifest")' = Body("manifest")
    BY <2>1 DEF Body
  <2>3. CASE VerifyRaw
    <3>1. RawVerified /\ Whole(Body("manifest"))
      BY <2>3 DEF VerifyRaw, RawVerified, Signed, Body
    <3>2. input[owner] = planned
      BY <1>i, <3>1, VerifiedInput DEF RawVerified
    <3>3. Body("manifest").decision = "none"
      BY <3>1 DEF RawVerified
    <3> QED BY <2>1, <2>2, <3>1, <3>2, <3>3 DEF Verified
  <2>4. CASE \/ reviewer' \notin {"verified", "replayed", "writing"}
             \/ reviewer \in {"verified", "replayed", "writing"}
    BY <1>i, <2>1, <2>2, <2>4 DEF Verified
  <2> QED BY <1>1, <2>3, <2>4 DEF ReviewStep, ReviewMove, Replay, MakeReviewDirectory,
        WriteReview, SignReview, ReviewerKilled
<1>2. CASE HostCrash
  <2>1. reviewer' = "idle"
    BY <1>2 DEF HostCrash
  <2> QED BY <2>1 DEF Verified
<1>3. CASE (\E r \in Runners : RunnerStep(r)) \/ UNCHANGED vars
  <2> SUFFICES ASSUME reviewer' \in {"verified", "replayed", "writing"}
               PROVE  /\ Whole(Body("manifest")') /\ Body("manifest")'.decision = "none"
                      /\ input'[owner'] = planned'
    BY DEF Verified
  <2>1. UNCHANGED reviewer
    BY <1>3 DEF RunnerStep, Prepare, CheckAbsent, MakeDirectory, Move,
       MakeDirectoryRefused, Execute, Create, Abandon, Fill, Finish, Stop, vars
  <2>2. Whole(Body("manifest")) /\ Body("manifest").decision = "none" /\ input[owner] = planned
    BY <1>i, <2>1 DEF Verified
  <2>3. Written /\ Body("manifest") = OwnManifest
    BY <1>i, <2>2 DEF ManifestTrue
  <2>4. ~HostCrash
    BY <2>1, <2>2 DEF HostCrash
  <2>5. Body("manifest")' = Body("manifest")
    BY <1>i, <2>2, <2>3, <2>4, ManifestFile DEF Whole
  <2> QED BY <1>i, <2>2, <2>3, <2>5, WrittenStays
<1> QED BY <1>1, <1>2, <1>3 DEF Next

LEMMA StepReview ==
  ASSUME BundleInv, [Next]_vars
  PROVE  ReviewTrue'
<1> USE DEF runVars, reviewVars
<1>i. Types /\ ManifestTrue /\ Verified /\ ReviewTrue /\ DOMAIN review = {"data", "sidecar"}
  BY DEF BundleInv, Types
<1>1. CASE WriteReview
  <2>1. /\ Whole(Body("manifest")) /\ Body("manifest").decision = "none"
        /\ input[owner] = planned
    BY <1>i, <1>1 DEF WriteReview, ReviewMove, Verified
  <2>2. Written /\ Body("manifest") = OwnManifest
    BY <1>i, <2>1 DEF ManifestTrue
  <2>3. Presentable(outcome[owner])
    BY <2>1, <2>2 DEF OwnManifest, ManifestOf, Manifest, Document, Decision
  <2>4. review'.data = Review(OwnManifest)
    BY <1>i, <1>1, <2>2 DEF WriteReview
  <2>5. Review(OwnManifest)' = Review(OwnManifest)
    BY <1>i, <2>2, WrittenStays, SameReview
  <2> QED BY <1>i, <2>1, <2>2, <2>3, <2>4, <2>5, WrittenStays DEF ReviewTrue
<1>2. CASE ~WriteReview
  <2>1. review'.data = review.data
    BY <1>i, <1>2 DEF Next, vars, RunnerStep, ReviewStep, HostCrash, ReviewMove,
       Prepare, CheckAbsent, MakeDirectory, MakeDirectoryRefused, Execute, Move,
       Create, Abandon, Fill, Finish, Stop, VerifyRaw, Replay, MakeReviewDirectory,
       SignReview, ReviewerKilled
  <2>2. CASE Whole(review.data)
    <3>1. Written /\ review.data = Review(OwnManifest)
      BY <1>i, <2>2 DEF ReviewTrue
    <3>2. Review(OwnManifest)' = Review(OwnManifest)
      BY <1>i, <3>1, WrittenStays, SameReview
    <3> QED BY <1>i, <2>1, <2>2, <3>1, <3>2, WrittenStays DEF ReviewTrue
  <2>3. CASE ~Whole(review.data)
    BY <2>1, <2>3 DEF ReviewTrue, Whole
  <2> QED BY <2>2, <2>3
<1> QED BY <1>1, <1>2
-----------------------------------------------------------------------------
(* The theorems *)

(* Whatever runners and reviewers do, and at whatever step they are killed *)
(* or the host crashes, a manifest that can be read is the owner's, a      *)
(* reviewer past VerifyRaw has read it, and a review speaks of it.         *)
THEOREM BundleInvariant == Spec => []BundleInv
<1>1. BundleInv /\ [Next]_vars => BundleInv'
  BY StepTypes, StepWriting, StepManifest, StepVerified, StepReview DEF BundleInv
<1> QED BY <1>1, InitBundle, PTL DEF Spec

(* What the manifest binds is what the runner wrote: its entries are the   *)
(* documents, so that matching files are those documents.                  *)
LEMMA BoundDocuments ==
  ASSUME ManifestTrue, Whole(Body("manifest")), EntriesMatch
  PROVE  \A doc \in ToSet(Documents(owner, outcome[owner])) :
           Body(doc.path) = doc.body
<1> DEFINE o == outcome[owner]
           x == Outputs(owner, o)
           d == Documents(owner, o)
           m == ManifestOf(owner, o)
           n == Len(x)
<1>1. Streamed(o) /\ Body("manifest") = m.body
  BY DEF ManifestTrue, Written, OwnManifest
<1>2. /\ n \in Nat /\ DOMAIN x = 1..n /\ DOMAIN d = 1..(n + 1)
      /\ \A i \in 1..n : d[i] = x[i]
      /\ d[n + 1] = m
  BY <1>1, DocumentsShape
<1>3. m.path = "manifest" /\ m.body.artifacts = Entries(x)
  BY DEF ManifestOf, Manifest, Document
<1> HIDE DEF o, x, d, m
<1>4. Bound = Entries(x)
  BY <1>1, <1>3 DEF Bound
<1>5. ASSUME NEW i \in 1..n PROVE Body(d[i].path) = d[i].body
  <2>1. i \in DOMAIN Entries(x) /\ Entries(x)[i] = Entry(x[i])
    BY <1>2 DEF Entries
  <2>2. Body(Entries(x)[i].path) = Entries(x)[i].sha256
    BY <1>4, <2>1 DEF EntriesMatch
  <2>3. Entry(x[i]).path = x[i].path /\ Entry(x[i]).sha256 = x[i].body
    BY DEF Entry
  <2> QED BY <1>2, <2>1, <2>2, <2>3
<1>6. Body(d[n + 1].path) = d[n + 1].body
  BY <1>1, <1>2, <1>3
<1>7. ASSUME NEW doc \in ToSet(d) PROVE Body(doc.path) = doc.body
  <2>1. PICK i \in 1..(n + 1) : doc = d[i]
    BY <1>2 DEF ToSet
  <2>2. i \in 1..n \/ i = n + 1
    BY <1>2, <2>1
  <2> QED BY <1>5, <1>6, <2>1, <2>2
<1> QED BY <1>7 DEF d, o

(* A bundle verify_manifest and replay accept, at whatever moment and      *)
(* after whatever loss, is everything one execution of the planned config  *)
(* by the planned build had to write, and of the kind it deserved: the     *)
(* manifest, written last and once, vouches for all of it.                 *)
THEOREM AcceptedTheorem == Spec => []AcceptedIsWhole
<1>1. BundleInv => AcceptedIsWhole
  <2> SUFFICES ASSUME BundleInv, Accepted
               PROVE  /\ owner # NoRunner
                      /\ input[owner] = planned /\ installed[owner] = planned.build
                      /\ FailureVerified <=> ~Presentable(outcome[owner])
                      /\ \A doc \in ToSet(Documents(owner, outcome[owner])) :
                           Body(doc.path) = doc.body
    BY DEF AcceptedIsWhole
  <2>1. ManifestTrue
    BY DEF BundleInv
  <2>2. Signed("manifest") /\ IdentityExpected /\ EntriesMatch
    BY DEF Accepted, RawVerified, FailureVerified
  <2>3. Whole(Body("manifest"))
    BY <2>2 DEF Signed, Body
  <2>4. Written /\ Body("manifest") = OwnManifest
    BY <2>1, <2>3 DEF ManifestTrue
  <2>5. owner # NoRunner
    BY <2>4, BundleAssumption DEF Written
  <2>6. Body("manifest").decision = Decision(outcome[owner])
    BY <2>4 DEF OwnManifest, ManifestOf, Manifest, Document
  <2>7. FailureVerified <=> ~Presentable(outcome[owner])
    <3>1. FailureVerified => Body("manifest").decision = "FAILED"
      BY DEF FailureVerified
    <3>2. ~FailureVerified => Body("manifest").decision = "none"
      BY DEF Accepted, RawVerified
    <3> QED BY <2>6, <3>1, <3>2 DEF Decision
  <2> QED BY <2>1, <2>2, <2>3, <2>5, <2>7, VerifiedInput, BoundDocuments
<1> QED BY <1>1, BundleInvariant, PTL

(* A signed review.json is about the manifest of a run of the planned      *)
(* config that completed, and extends that run's own lifecycle by one      *)
(* legal step, whatever has become of the bundle since.                    *)
THEOREM ReviewTheorem == Spec => []ReviewHolds
<1>1. BundleInv => ReviewHolds
  <2> SUFFICES ASSUME BundleInv, Whole(review.data)
               PROVE  LET docs == Documents(owner, outcome[owner])
                          h == review.data.lifecycle
                      IN  /\ Presentable(outcome[owner]) /\ input[owner] = planned
                          /\ review.data.raw_manifest = Last(docs).body
                          /\ Replays(h) /\ StateOf(h) = "REVIEWED"
                          /\ Front(h) = Last(docs).body.lifecycle
                          /\ Last(h).evidence = Last(docs).body
    BY DEF ReviewHolds
  <2> DEFINE m == OwnManifest
             h == review.data.lifecycle
  <2>1. /\ Written /\ Presentable(outcome[owner]) /\ input[owner] = planned
        /\ review.data = Review(m)
    BY DEF BundleInv, ReviewTrue
  <2>2. Last(Documents(owner, outcome[owner])).body = m
    BY <2>1, DocumentsShape DEF Written, OwnManifest
  <2>3. Replays(m.lifecycle) /\ CanAdvance(m.lifecycle, "REVIEWED")
        /\ \E S : m.lifecycle \in Seq(S)
    BY ManifestHistory DEF OwnManifest
  <2>4. h = Advance(m.lifecycle, "REVIEWED", m) /\ review.data.raw_manifest = m
    BY <2>1 DEF Review
  <2> HIDE DEF m, h
  <2>5. /\ Replays(h) /\ StateOf(h) = "REVIEWED" /\ Front(h) = m.lifecycle
        /\ Last(h).evidence = m
    BY <2>3, <2>4, Advanced DEF EvidenceState
  <2> QED BY <2>1, <2>2, <2>4, <2>5 DEF h
<1> QED BY <1>1, BundleInvariant, PTL

-----------------------------------------------------------------------------
(* Which documents an execution leads to *)

(* Where each document of an execution stands among its documents.         *)
NameOf(stem, n, i) == IF n = 1 THEN stem ELSE Numbered[stem][i]

(* No more streams are kept than were handed over.                         *)
LEMMA RetainedSize ==
  ASSUME NEW s, Few(s)
  PROVE  LET f == Retained(s)
         IN  Len(f) \in 0..2 /\ DOMAIN f = 1..Len(f) /\ f \in Seq({f[i] : i \in DOMAIN f})
<1> DEFINE f == Retained(s)
           S(n) == {f[i] : i \in 1..n}
<1>1. PICK n \in 0..2 : f \in [1..n -> S(n)]
  BY RetainedFew
<1> HIDE DEF f, S
<1>2. f \in Seq(S(n)) /\ Len(f) = n /\ DOMAIN f = 1..n
  BY <1>1
<1>3. S(n) = {f[i] : i \in DOMAIN f}
  BY <1>2 DEF S
<1> QED BY <1>2, <1>3 DEF f

(* The documents of a failure, one by one.                                 *)
LEMMA FailureLayout ==
  ASSUME NEW r, NEW o, Streamed(o), ~Presentable(o)
  PROVE  LET s == Retained(o.semantic)
             p == Retained(o.physical)
             m == Len(s)
             n == Len(p)
             d == Documents(r, o)
         IN  /\ m \in 0..2 /\ DOMAIN s = 1..m /\ n \in 0..2 /\ DOMAIN p = 1..n
             /\ DOMAIN d = 1..(m + n + 3) /\ Len(Outputs(r, o)) = m + n + 2
             /\ d[1] = ConfigDoc(input[r])
             /\ d[2] = Document("failure", [kind |-> "failure", run |-> r,
                                            semantic |-> m, physical |-> n])
             /\ \A i \in 1..m : d[2 + i] = StreamDoc(NameOf("events", m, i), s[i])
             /\ \A i \in 1..n : d[2 + m + i] = StreamDoc(NameOf("physical", n, i), p[i])
             /\ d[m + n + 3] = ManifestOf(r, o)
<1> DEFINE s == Retained(o.semantic)
           p == Retained(o.physical)
           m == Len(s)
           n == Len(p)
           c == ConfigDoc(input[r])
           f == Document("failure", [kind |-> "failure", run |-> r,
                                     semantic |-> m, physical |-> n])
           x == FailureStreams("events", s)
           y == FailureStreams("physical", p)
           h == <<c, f>>
           d == Documents(r, o)
<1>1. m \in 0..2 /\ DOMAIN s = 1..m /\ n \in 0..2 /\ DOMAIN p = 1..n
  BY RetainedSize DEF Streamed
<1>2. /\ DOMAIN x = 1..m /\ \A i \in 1..m : x[i] = StreamDoc(NameOf("events", m, i), s[i])
      /\ DOMAIN y = 1..n /\ \A i \in 1..n : y[i] = StreamDoc(NameOf("physical", n, i), p[i])
  <2> HIDE DEF s, p
  <2> QED BY <1>1 DEF FailureStreams, NameOf
<1>3. x \in Seq({x[i] : i \in DOMAIN x}) /\ y \in Seq({y[i] : i \in DOMAIN y})
  BY FailureStreamDocs DEF Streamed
<1>4. Outputs(r, o) = (h \o x) \o y
  BY DEF Outputs, FailureDocs
<1>5. d = Append(Outputs(r, o), ManifestOf(r, o))
  BY DEF Documents, ManifestOf
<1> HIDE DEF s, p, c, f, x, y, d
<1>6. h \in Seq({c, f}) /\ Len(h) = 2 /\ h[1] = c /\ h[2] = f
  OBVIOUS
<1> HIDE DEF h
<1>7. Len(x) = m /\ Len(y) = n
  BY <1>1, <1>2, <1>3
<1> DEFINE X == {x[i] : i \in DOMAIN x}
           Y == {y[i] : i \in DOMAIN y}
           C == {c, f}
           CX == C \cup X
<1> HIDE DEF X, Y, C
<1>8. /\ h \o x \in Seq(C \cup X) /\ Len(h \o x) = 2 + m
      /\ (h \o x)[1] = c /\ (h \o x)[2] = f
      /\ \A i \in 1..m : (h \o x)[2 + i] = x[i]
  <2>1. h \in Seq(C) /\ x \in Seq(X)
    BY <1>3, <1>6 DEF C, X
  <2>2. 1 \in 1..Len(h) /\ 2 \in 1..Len(h)
    BY <1>6
  <2>i. /\ h \o x \in Seq(C \cup X) /\ Len(h \o x) = Len(h) + Len(x)
        /\ \A i \in 1..Len(h) : (h \o x)[i] = h[i]
        /\ \A i \in 1..Len(x) : (h \o x)[Len(h) + i] = x[i]
    BY <2>1, ConcatAt
  <2> QED BY <1>6, <1>7, <2>2, <2>i
<1> HIDE DEF CX
<1>9. /\ (h \o x) \o y \in Seq(CX \cup Y)
      /\ Len((h \o x) \o y) = 2 + m + n
      /\ \A i \in 1..(2 + m) : ((h \o x) \o y)[i] = (h \o x)[i]
      /\ \A i \in 1..n : ((h \o x) \o y)[2 + m + i] = y[i]
  <2>1. h \o x \in Seq(CX) /\ y \in Seq(Y)
    BY <1>3, <1>8 DEF CX, Y
  <2>i. /\ (h \o x) \o y \in Seq(CX \cup Y) /\ Len((h \o x) \o y) = Len((h \o x)) + Len(y)
        /\ \A i \in 1..Len((h \o x)) : ((h \o x) \o y)[i] = (h \o x)[i]
        /\ \A i \in 1..Len(y) : ((h \o x) \o y)[Len((h \o x)) + i] = y[i]
    BY <2>1, ConcatAt
  <2> QED BY <1>7, <1>8, <2>i
<1> DEFINE u == (h \o x) \o y
<1> HIDE DEF u
<1>10. /\ u[1] = c /\ u[2] = f /\ \A i \in 1..m : u[2 + i] = x[i]
       /\ \A i \in 1..n : u[2 + m + i] = y[i]
       /\ Len(u) = m + n + 2
  <2>1. m \in Nat /\ n \in Nat
    BY <1>1
  <2>2. Len(u) = m + n + 2
    BY <1>9, <2>1 DEF u
  <2>3. u[1] = c /\ u[2] = f
    <3>1. 1 \in 1..(2 + m) /\ 2 \in 1..(2 + m)
      BY <2>1
    <3> QED BY <1>8, <1>9, <3>1 DEF u
  <2>4. ASSUME NEW i \in 1..m PROVE u[2 + i] = x[i]
    <3>1. 2 + i \in 1..(2 + m)
      BY <2>1
    <3>2. u[2 + i] = (h \o x)[2 + i]
      BY <1>9, <3>1 DEF u
    <3> QED BY <1>8, <3>2
  <2>5. \A i \in 1..n : u[2 + m + i] = y[i]
    BY <1>9 DEF u
  <2> QED BY <2>2, <2>3, <2>4, <2>5
<1>11. /\ DOMAIN d = 1..(m + n + 3) /\ d[m + n + 3] = ManifestOf(r, o)
       /\ \A i \in 1..(m + n + 2) : d[i] = u[i]
  <2>1. Len(u) + 1 = m + n + 3
    BY <1>1, <1>10
  <2>2. d = Append(u, ManifestOf(r, o))
    BY <1>4, <1>5 DEF u
  <2>3. u \in Seq(CX \cup Y)
    BY <1>9 DEF u
  <2> DEFINE w == ManifestOf(r, o)
  <2> HIDE DEF w
  <2>4. /\ DOMAIN Append(u, w) = 1..(Len(u) + 1) /\ Append(u, w)[Len(u) + 1] = w
        /\ \A i \in 1..Len(u) : Append(u, w)[i] = u[i]
    BY <2>3, AppendAt
  <2> QED BY <1>10, <2>1, <2>2, <2>4 DEF w
<1>12. /\ d[1] = c /\ d[2] = f /\ \A i \in 1..m : d[2 + i] = x[i]
       /\ \A i \in 1..n : d[2 + m + i] = y[i]
  BY <1>1, <1>10, <1>11
<1> QED BY <1>1, <1>2, <1>4, <1>10, <1>11, <1>12 DEF s, p, c, f, d, u

(* The documents of a run that can be presented, one by one.               *)
LEMMA RawLayout ==
  ASSUME NEW r, NEW o, Streamed(o), Presentable(o)
  PROVE  LET k == Len(o.physical)
             d == Documents(r, o)
         IN  /\ k \in 0..1 /\ DOMAIN o.physical = 1..k
             /\ DOMAIN d = 1..(k + 4) /\ Len(Outputs(r, o)) = k + 3
             /\ d[1] = ConfigDoc(input[r])
             /\ d[2] = StreamDoc("events", o.semantic[1])
             /\ d[3] = Document("result", o.result)
             /\ k = 1 => d[4] = StreamDoc("physical", o.physical[1])
             /\ d[k + 4] = ManifestOf(r, o)
<1> DEFINE k == Len(o.physical)
           c == ConfigDoc(input[r])
           e == StreamDoc("events", o.semantic[1])
           x == Document("result", o.result)
           p == StreamDoc("physical", o.physical[1])
           t == IF o.physical = <<>> THEN <<>> ELSE <<p>>
           h == <<c, e, x>>
           d == Documents(r, o)
<1>1. k \in 0..1 /\ DOMAIN o.physical = 1..k /\ (o.physical = <<>> <=> k = 0)
  <2> DEFINE q == o.physical
  <2>1. PICK n \in 0..2 : q = [i \in 1..n |-> q[i]]
    BY DEF Streamed, Few
  <2>2. Len(q) <= 1
    BY DEF Presentable
  <2>3. Len(q) = n /\ DOMAIN q = 1..n
    BY <2>1
  <2>4. q = <<>> <=> n = 0
    BY <2>1, <2>3
  <2> HIDE DEF q
  <2>5. n = 0 \/ n = 1
    BY <2>2, <2>3
  <2> QED BY <2>3, <2>4, <2>5 DEF q
<1>2. Outputs(r, o) = h \o t
  BY DEF Outputs, RawDocs
<1>3. d = Append(h \o t, ManifestOf(r, o))
  BY <1>2 DEF Documents, ManifestOf
<1> HIDE DEF c, e, x, p, d
<1>4. h \in Seq({c, e, x}) /\ Len(h) = 3 /\ h[1] = c /\ h[2] = e /\ h[3] = x
  OBVIOUS
<1>5. t \in Seq({p}) /\ Len(t) = k /\ (k = 1 => t[1] = p)
  <2>1. CASE o.physical = <<>>
    BY <1>1, <2>1
  <2>2. CASE o.physical # <<>>
    <3>1. k = 1
      BY <1>1, <2>2
    <3>2. t = <<p>>
      BY <2>2
    <3>3. <<p>> \in Seq({p}) /\ Len(<<p>>) = 1 /\ <<p>>[1] = p
      OBVIOUS
    <3> QED BY <3>1, <3>2, <3>3
  <2> QED BY <2>1, <2>2
<1> HIDE DEF h, t, k
<1> DEFINE u == h \o t
           C == {c, e, x}
           P == {p}
<1> HIDE DEF C, P
<1>6. /\ u \in Seq(C \cup P) /\ Len(u) = 3 + k
      /\ \A i \in 1..3 : u[i] = h[i]
      /\ \A i \in 1..k : u[3 + i] = t[i]
  <2>1. h \in Seq(C) /\ t \in Seq(P)
    BY <1>4, <1>5 DEF C, P
  <2>i. /\ h \o t \in Seq(C \cup P) /\ Len(h \o t) = Len(h) + Len(t)
        /\ \A i \in 1..Len(h) : (h \o t)[i] = h[i]
        /\ \A i \in 1..Len(t) : (h \o t)[Len(h) + i] = t[i]
    BY <2>1, ConcatAt
  <2> QED BY <1>4, <1>5, <2>i DEF u
<1> HIDE DEF u
<1>7. /\ DOMAIN d = 1..(k + 4) /\ d[k + 4] = ManifestOf(r, o)
      /\ \A i \in 1..(k + 3) : d[i] = u[i]
  <2>1. Len(u) = k + 3 /\ Len(u) + 1 = k + 4
    BY <1>1, <1>6
  <2>2. d = Append(u, ManifestOf(r, o))
    BY <1>3 DEF u
  <2> QED BY <1>6, <2>1, <2>2, AppendAt
<1>8. d[1] = c /\ d[2] = e /\ d[3] = x /\ (k = 1 => d[4] = p)
  BY <1>1, <1>4, <1>5, <1>6, <1>7
<1>9. Len(Outputs(r, o)) = k + 3
  BY <1>1, <1>2, <1>6 DEF u
<1> QED BY <1>1, <1>7, <1>8, <1>9 DEF k, c, e, x, p, d

(* What is retained of the streams an execution may hand over.             *)
LEMMA CountTo ==
  /\ Cardinality({}) = 0 /\ Cardinality({1}) = 1 /\ Cardinality({2}) = 1
  /\ Cardinality({1, 2}) = 2
<1>1. /\ IsFiniteSet({}) /\ Cardinality({}) = 0
      /\ \A x : IsFiniteSet({x}) /\ Cardinality({x}) = 1
  BY FS_EmptySet, FS_Singleton
<1>2. Cardinality({1} \cup {2}) = Cardinality({1}) + 1
  <2>1. 2 \notin {1}
    OBVIOUS
  <2> QED BY <1>1, <2>1, FS_AddElement, Zenon
<1>3. {1} \cup {2} = {1, 2}
  OBVIOUS
<1>4. 1 + 1 = 2
  OBVIOUS
<1> QED BY <1>1, <1>2, <1>3, <1>4, Zenon

(* Empty streams are dropped, ...                                          *)
LEMMA RetainedNone ==
  ASSUME NEW s, \A i \in DOMAIN s : s[i] = <<>>
  PROVE  Len(Retained(s)) = 0 /\ Retained(s) = <<>>
<1> DEFINE kept == {i \in DOMAIN s : s[i] # <<>>}
           f(k) == s[CHOOSE i \in kept : Cardinality({j \in kept : j <= i}) = k]
<1>1. kept = {}
  OBVIOUS
<1>2. Retained(s) = [k \in 1..Cardinality(kept) |-> f(k)]
  BY DEF Retained
<1> HIDE DEF kept, f
<1>3. Cardinality(kept) = 0
  BY <1>1, CountTo
<1> QED BY <1>2, <1>3

(* ... one that is not empty is kept ...                                   *)
LEMMA RetainedOne ==
  ASSUME NEW s, NEW l \in 1..2, DOMAIN s = 1..l, NEW n \in 1..l, s[n] # <<>>,
         \A i \in 1..l : i # n => s[i] = <<>>
  PROVE  Len(Retained(s)) = 1 /\ DOMAIN Retained(s) = 1..1 /\ Retained(s)[1] = s[n]
<1> DEFINE kept == {i \in DOMAIN s : s[i] # <<>>}
           Rank(i) == Cardinality({j \in kept : j <= i})
<1>1. kept = {n}
  OBVIOUS
<1> HIDE DEF kept
<1>2. Cardinality(kept) = 1
  <2>1. n = 1 \/ n = 2
    OBVIOUS
  <2> QED BY <1>1, <2>1, CountTo
<1>3. {j \in kept : j <= n} = {n}
  BY <1>1
<1>4. Rank(n) = 1
  BY <1>2, <1>3, <1>1
<1> HIDE DEF Rank
<1>5. (CHOOSE i \in kept : Rank(i) = 1) = n
  BY <1>1, <1>4
<1> DEFINE f(k) == s[CHOOSE i \in kept : Rank(i) = k]
<1>6. Retained(s) = [k \in 1..Cardinality(kept) |-> f(k)]
  BY DEF Retained, kept, Rank
<1>7. f(1) = s[n]
  BY <1>5
<1> HIDE DEF f
<1> QED BY <1>2, <1>6, <1>7

(* ... and so are two, in their order.                                     *)
LEMMA RetainedBoth ==
  ASSUME NEW s, DOMAIN s = 1..2, s[1] # <<>>, s[2] # <<>>
  PROVE  /\ Len(Retained(s)) = 2 /\ DOMAIN Retained(s) = 1..2
         /\ Retained(s)[1] = s[1] /\ Retained(s)[2] = s[2]
<1> DEFINE kept == {i \in DOMAIN s : s[i] # <<>>}
           Rank(i) == Cardinality({j \in kept : j <= i})
<1>1. kept = {1, 2}
  OBVIOUS
<1> HIDE DEF kept
<1>2. Cardinality(kept) = 2
  BY <1>1, CountTo
<1>3. {j \in kept : j <= 1} = {1} /\ {j \in kept : j <= 2} = {1, 2}
  BY <1>1
<1>4. Rank(1) = 1 /\ Rank(2) = 2
  BY <1>3, CountTo
<1> HIDE DEF Rank
<1>5. (CHOOSE i \in kept : Rank(i) = 1) = 1 /\ (CHOOSE i \in kept : Rank(i) = 2) = 2
  BY <1>1, <1>4
<1> DEFINE f(k) == s[CHOOSE i \in kept : Rank(i) = k]
<1>6. Retained(s) = [k \in 1..Cardinality(kept) |-> f(k)]
  BY DEF Retained, kept, Rank
<1>7. f(1) = s[1] /\ f(2) = s[2]
  BY <1>5
<1> HIDE DEF f
<1> QED BY <1>2, <1>6, <1>7

-----------------------------------------------------------------------------
(* No two documents of a bundle have the same path.                        *)
LEMMA NamesDiffer ==
  ASSUME NEW r, NEW o, Streamed(o),
         NEW i \in DOMAIN Documents(r, o), NEW j \in DOMAIN Documents(r, o),
         Documents(r, o)[i].path = Documents(r, o)[j].path
  PROVE  i = j
<1> DEFINE d == Documents(r, o)
<1>p. \A c : ConfigDoc(c).path = "config"
  BY DEF ConfigDoc, Document
<1>m. ManifestOf(r, o).path = "manifest"
  BY DEF ManifestOf, Manifest, Document
<1>d. \A p, b : Document(p, b).path = p /\ StreamDoc(p, b).path = p
  BY DEF Document, StreamDoc
<1>1. CASE Presentable(o)
  <2> DEFINE k == Len(o.physical)
  <2>1. /\ k \in 0..1 /\ DOMAIN d = 1..(k + 4)
        /\ d[1].path = "config" /\ d[2].path = "events" /\ d[3].path = "result"
        /\ (k = 1 => d[4].path = "physical") /\ d[k + 4].path = "manifest"
    BY <1>1, <1>p, <1>m, <1>d, RawLayout
  <2> HIDE DEF d, k
  <2>2. i \in DOMAIN d /\ j \in DOMAIN d /\ d[i].path = d[j].path
    BY DEF d
  <2>3. CASE k = 0
    BY <2>1, <2>2, <2>3
  <2>4. CASE k = 1
    BY <2>1, <2>2, <2>4
  <2> QED BY <2>1, <2>3, <2>4
<1>2. CASE ~Presentable(o)
  <2> DEFINE m == Len(Retained(o.semantic))
             n == Len(Retained(o.physical))
             At(p) == CASE p = "config" -> 1
                        [] p = "failure" -> 2
                        [] p \in {"events", "events-0000"} -> 3
                        [] p = "events-0001" -> 4
                        [] p \in {"physical", "physical-0000"} -> m + 3
                        [] p = "physical-0001" -> m + 4
                        [] p = "manifest" -> m + n + 3
  <2> DEFINE s == Retained(o.semantic)
             p == Retained(o.physical)
             F == Document("failure", [kind |-> "failure", run |-> r,
                                       semantic |-> m, physical |-> n])
  <2>0. /\ m \in 0..2 /\ n \in 0..2 /\ DOMAIN d = 1..(m + n + 3)
        /\ d[1] = ConfigDoc(input[r]) /\ d[2] = F
        /\ \A k \in 1..m : d[2 + k] = StreamDoc(NameOf("events", m, k), s[k])
        /\ \A k \in 1..n : d[2 + m + k] = StreamDoc(NameOf("physical", n, k), p[k])
        /\ d[m + n + 3] = ManifestOf(r, o)
    BY <1>2, FailureLayout
  <2>f. F.path = "failure"
    BY <1>d
  <2> HIDE DEF d, m, n, s, p, F
  <2>1. /\ m \in 0..2 /\ n \in 0..2 /\ DOMAIN d = 1..(m + n + 3)
        /\ d[1].path = "config" /\ d[2].path = "failure"
        /\ \A k \in 1..m : d[2 + k].path = NameOf("events", m, k)
        /\ \A k \in 1..n : d[2 + m + k].path = NameOf("physical", n, k)
        /\ d[m + n + 3].path = "manifest"
    BY <1>p, <1>m, <1>d, <2>0, <2>f
  <2>2. i \in DOMAIN d /\ j \in DOMAIN d /\ d[i].path = d[j].path
    BY DEF d
  <2>3. ASSUME NEW k \in 1..m PROVE At(NameOf("events", m, k)) = 2 + k
    <3>1. k = 1 \/ (k = 2 /\ m = 2)
      BY <2>1
    <3> QED BY <2>1, <3>1 DEF NameOf, Numbered
  <2>4. ASSUME NEW k \in 1..n PROVE At(NameOf("physical", n, k)) = 2 + m + k
    <3>1. k = 1 \/ (k = 2 /\ n = 2)
      BY <2>1
    <3> QED BY <2>1, <3>1 DEF NameOf, Numbered
  <2>5. At("config") = 1 /\ At("failure") = 2 /\ At("manifest") = m + n + 3
    BY <2>1
  <2> HIDE DEF At
  <2>6. ASSUME NEW x \in DOMAIN d PROVE At(d[x].path) = x
    <3>1. \/ x = 1 \/ x = 2 \/ x = m + n + 3
          \/ x - 2 \in 1..m \/ x - 2 - m \in 1..n
      BY <2>1
    <3>2. CASE x - 2 \in 1..m
      <4>1. 2 + (x - 2) = x
        BY <2>1
      <4> QED BY <2>1, <2>3, <3>2, <4>1
    <3>3. CASE x - 2 - m \in 1..n
      <4>1. 2 + m + (x - 2 - m) = x
        BY <2>1
      <4> QED BY <2>1, <2>4, <3>3, <4>1
    <3> QED BY <2>1, <2>5, <3>1, <3>2, <3>3
  <2> QED BY <2>2, <2>6
<1> QED BY <1>1, <1>2

(* No document reads as a missing or a torn file.                          *)
LEMMA DocumentsWhole ==
  ASSUME NEW r, NEW o, Streamed(o), NEW doc \in ToSet(Documents(r, o))
  PROVE  Whole(doc.body)
<1> DEFINE d == Documents(r, o)
           Kinds == {"config", "stream", "result", "failure", "manifest"}
<1>w. ASSUME NEW b, b.kind \in Kinds PROVE Whole(b)
  <2>1. Absent.kind \notin Kinds /\ Torn.kind \notin Kinds
    BY DEF Absent, Torn
  <2> QED BY <1>w, <2>1 DEF Whole
<1>p. \A c : ConfigDoc(c).body.kind = "config"
  BY DEF ConfigDoc, Document
<1>m. ManifestOf(r, o).body.kind = "manifest"
  BY DEF ManifestOf, Manifest, Document
<1>d. \A p, b : Document(p, b).body = b /\ StreamDoc(p, b).body.kind = "stream"
  BY DEF Document, StreamDoc
<1>i. PICK i \in DOMAIN d : doc = d[i]
  BY DEF ToSet
<1>1. CASE Presentable(o)
  <2> DEFINE k == Len(o.physical)
  <2>1. /\ k \in 0..1 /\ DOMAIN d = 1..(k + 4)
        /\ d[1].body.kind = "config" /\ d[2].body.kind = "stream"
        /\ d[3].body.kind = "result"
        /\ (k = 1 => d[4].body.kind = "stream") /\ d[k + 4].body.kind = "manifest"
    BY <1>1, <1>p, <1>m, <1>d, RawLayout DEF Presentable
  <2> HIDE DEF d, k
  <2>2. d[i].body.kind \in Kinds
    BY <2>1
  <2> QED BY <1>i, <1>w, <2>2
<1>2. CASE ~Presentable(o)
  <2> DEFINE m == Len(Retained(o.semantic))
             n == Len(Retained(o.physical))
  <2> DEFINE s == Retained(o.semantic)
             p == Retained(o.physical)
             F == Document("failure", [kind |-> "failure", run |-> r,
                                       semantic |-> m, physical |-> n])
  <2>0. /\ m \in 0..2 /\ n \in 0..2 /\ DOMAIN d = 1..(m + n + 3)
        /\ d[1] = ConfigDoc(input[r]) /\ d[2] = F
        /\ \A k \in 1..m : d[2 + k] = StreamDoc(NameOf("events", m, k), s[k])
        /\ \A k \in 1..n : d[2 + m + k] = StreamDoc(NameOf("physical", n, k), p[k])
        /\ d[m + n + 3] = ManifestOf(r, o)
    BY <1>2, FailureLayout
  <2>f. F.body.kind = "failure"
    BY DEF Document
  <2> HIDE DEF d, m, n, s, p, F
  <2>1. /\ m \in 0..2 /\ n \in 0..2 /\ DOMAIN d = 1..(m + n + 3)
        /\ d[1].body.kind = "config" /\ d[2].body.kind = "failure"
        /\ \A k \in 1..m : d[2 + k].body.kind = "stream"
        /\ \A k \in 1..n : d[2 + m + k].body.kind = "stream"
        /\ d[m + n + 3].body.kind = "manifest"
    BY <1>p, <1>m, <1>d, <2>0, <2>f
  <2>2. \/ i = 1 \/ i = 2 \/ i = m + n + 3
        \/ i - 2 \in 1..m \/ i - 2 - m \in 1..n
    BY <2>1
  <2>3. i = 2 + (i - 2) /\ i = 2 + m + (i - 2 - m)
    BY <2>1
  <2>4. d[i].body.kind \in Kinds
    BY <2>1, <2>2, <2>3
  <2> QED BY <1>i, <1>w, <2>4
<1> QED BY <1>1, <1>2

(* A stream that is kept was handed over, ...                              *)
LEMMA RetainedFrom ==
  ASSUME NEW s, Few(s), NEW k \in DOMAIN Retained(s)
  PROVE  \E i \in DOMAIN s : Retained(s)[k] = s[i] /\ s[i] # <<>>
<1>1. PICK n \in 0..2 : DOMAIN s = 1..n
  BY DEF Few
<1>2. CASE \A i \in DOMAIN s : s[i] = <<>>
  <2>1. DOMAIN Retained(s) = {}
    BY <1>2, RetainedNone
  <2> QED BY <2>1
<1>3. CASE \E i \in 1..n : s[i] # <<>> /\ \A j \in 1..n : j # i => s[j] = <<>>
  <2>1. PICK i \in 1..n : s[i] # <<>> /\ \A j \in 1..n : j # i => s[j] = <<>>
    BY <1>3
  <2>2. n \in 1..2
    BY <2>1
  <2>3. DOMAIN Retained(s) = 1..1 /\ Retained(s)[1] = s[i]
    BY <1>1, <2>1, <2>2, RetainedOne
  <2> QED BY <1>1, <2>1, <2>3
<1>4. CASE n = 2 /\ s[1] # <<>> /\ s[2] # <<>>
  <2>1. DOMAIN Retained(s) = 1..2 /\ Retained(s)[1] = s[1] /\ Retained(s)[2] = s[2]
    BY <1>1, <1>4, RetainedBoth
  <2>2. k = 1 \/ k = 2
    BY <2>1
  <2> QED BY <1>1, <1>4, <2>1, <2>2
<1>5. \/ \A i \in DOMAIN s : s[i] = <<>>
      \/ \E i \in 1..n : s[i] # <<>> /\ \A j \in 1..n : j # i => s[j] = <<>>
      \/ n = 2 /\ s[1] # <<>> /\ s[2] # <<>>
  BY <1>1
<1> QED BY <1>2, <1>3, <1>4, <1>5

-----------------------------------------------------------------------------
(* What an execution emits *)

Opened(r)     == [event |-> "run_open", run |-> r, state |-> 0]
CommitOf(w)   == [event |-> "committed", started_work |-> w, state |-> w]
EndedBy(x)    == [event |-> "run_terminated", reason |-> x]
Seen(r, n)    == [event |-> "run_observation", run |-> r, cmax |-> n]
ReceiptOf(n)  == [event |-> "native_round_observation", started_work |-> n]
WasteOf(n)    == [event |-> "t4_waste_observation", discarded |-> n]

(* A stream of an opening, at most one event of each kind, event by event. *)
LEMMA Three ==
  ASSUME NEW a, NEW b, NEW c, NEW y \in Seq({b}), NEW z \in Seq({c})
  PROVE  LET x == <<a>> \o y \o z
         IN  /\ Len(x) = 1 + Len(y) + Len(z) /\ DOMAIN x = 1..(1 + Len(y) + Len(z))
             /\ x[1] = a
             /\ \A i \in 1..Len(y) : x[1 + i] = y[i]
             /\ \A i \in 1..Len(z) : x[1 + Len(y) + i] = z[i]
             /\ x \in Seq(({a} \cup {b}) \cup {c})
<1> DEFINE h == <<a>>
           A_ == {a}
           B_ == {b}
           C_ == {c}
           AB == A_ \cup B_
           g == h \o y
           x == g \o z
<1>1. Len(h) = 1 /\ h[1] = a
  OBVIOUS
<1>0. h \in Seq(A_) /\ y \in Seq(B_) /\ z \in Seq(C_)
  OBVIOUS
<1> HIDE DEF h, A_, B_, C_
<1>2. /\ g \in Seq(AB) /\ Len(g) = Len(h) + Len(y)
      /\ \A i \in 1..Len(h) : g[i] = h[i]
      /\ \A i \in 1..Len(y) : g[Len(h) + i] = y[i]
  BY <1>0, ConcatAt
<1> HIDE DEF g, AB
<1>g. g \in Seq(AB) /\ z \in Seq(C_)
  BY <1>0, <1>2
<1>3. /\ x \in Seq(AB \cup C_) /\ Len(x) = Len(g) + Len(z)
      /\ \A i \in 1..Len(g) : x[i] = g[i]
      /\ \A i \in 1..Len(z) : x[Len(g) + i] = z[i]
  BY <1>g, ConcatAt
<1> HIDE DEF x
<1>4. Len(y) \in Nat /\ Len(z) \in Nat
  OBVIOUS
<1>5. /\ Len(x) = 1 + Len(y) + Len(z) /\ x[1] = a
      /\ \A i \in 1..Len(y) : x[1 + i] = y[i]
      /\ \A i \in 1..Len(z) : x[1 + Len(y) + i] = z[i]
  BY <1>1, <1>2, <1>3, <1>4
<1>6. DOMAIN x = 1..Len(x)
  BY <1>3
<1> QED BY <1>3, <1>5, <1>6 DEF x, g, h, AB, A_, B_, C_

(* An event that is there or not.                                          *)
LEMMA OneOrNone ==
  ASSUME NEW a, NEW n, NEW m \in {0, 1}, m = 0 <=> n = 0
  PROVE  LET y == IF n = 0 THEN <<>> ELSE <<a>>
         IN  y \in Seq({a}) /\ Len(y) = m /\ (n # 0 => y[1] = a)
<1>1. <<>> \in Seq({a}) /\ Len(<<>>) = 0
  OBVIOUS
<1>2. <<a>> \in Seq({a}) /\ Len(<<a>>) = 1 /\ <<a>>[1] = a
  OBVIOUS
<1> QED BY <1>1, <1>2

(* The events of a semantic trace.                                         *)
LEMMA SemanticIs ==
  ASSUME NEW r, NEW w \in {0, 1}, NEW reason
  PROVE  LET s == Semantic(r, w, reason)
         IN  /\ Len(s) = 2 + w /\ DOMAIN s = 1..(2 + w)
             /\ s[1] = Opened(r) /\ s[2 + w] = EndedBy(reason)
             /\ w = 1 => s[2] = CommitOf(w)
             /\ \E S : s \in Seq(S)
<1> DEFINE a == Opened(r)
           b == CommitOf(w)
           c == EndedBy(reason)
           y == IF w = 0 THEN <<>> ELSE <<b>>
           z == <<c>>
           s == <<a>> \o y \o z
           S == ({a} \cup {b}) \cup {c}
<1>0. s = Semantic(r, w, reason)
  BY DEF Semantic, Opened, CommitOf, EndedBy
<1>1. y \in Seq({b}) /\ Len(y) = w /\ (w # 0 => y[1] = b)
  BY OneOrNone
<1>2. z \in Seq({c}) /\ Len(z) = 1 /\ z[1] = c
  OBVIOUS
<1> HIDE DEF a, b, c, y, z
<1>3. /\ Len(s) = 1 + Len(y) + Len(z) /\ DOMAIN s = 1..(1 + Len(y) + Len(z))
      /\ s[1] = a
      /\ \A i \in 1..Len(y) : s[1 + i] = y[i]
      /\ \A i \in 1..Len(z) : s[1 + Len(y) + i] = z[i]
      /\ s \in Seq(S)
  <2>1. y \in Seq({b}) /\ z \in Seq({c})
    BY <1>1, <1>2
  <2> QED BY <2>1, Three
<1> HIDE DEF s
<1>4. 1 + w + 1 = 2 + w /\ 1 \in 1..Len(z) /\ (w = 1 => 1 \in 1..Len(y) /\ 1 + 1 = 2)
  BY <1>1, <1>2
<1>5. s[1 + Len(y) + 1] = c
  BY <1>2, <1>3, <1>4
<1>6. Len(s) = 2 + w /\ DOMAIN s = 1..(2 + w) /\ s[2 + w] = c
  BY <1>1, <1>2, <1>3, <1>4, <1>5
<1>7. w = 1 => s[2] = b
  BY <1>1, <1>3, <1>4
<1> QED BY <1>0, <1>3, <1>6, <1>7 DEF a, b, c

(* The events of a physical trace.                                         *)
LEMMA PhysicalIs ==
  ASSUME NEW r, NEW w \in {0, 1}, NEW x \in {0, 1}, NEW k \in 0..2
  PROVE  LET p == Physical(r, w, x, k)
             m == IF k = 0 THEN 0 ELSE 1
         IN  /\ Len(p) = 1 + m + x /\ DOMAIN p = 1..(1 + m + x)
             /\ p[1] = Seen(r, w + x)
             /\ k # 0 => p[2] = ReceiptOf(k)
             /\ x # 0 => p[1 + m + 1] = WasteOf(x)
             /\ \E S : p \in Seq(S)
<1> DEFINE m == IF k = 0 THEN 0 ELSE 1
           a == Seen(r, w + x)
           b == ReceiptOf(k)
           c == WasteOf(x)
           y == IF k = 0 THEN <<>> ELSE <<b>>
           z == IF x = 0 THEN <<>> ELSE <<c>>
           s == <<a>> \o y \o z
           S == ({a} \cup {b}) \cup {c}
<1>0. s = Physical(r, w, x, k)
  BY Zenon DEF Physical, Seen, ReceiptOf, WasteOf
<1>m. m \in {0, 1} /\ (m = 0 <=> k = 0)
  OBVIOUS
<1>1. y \in Seq({b}) /\ Len(y) = m /\ (k # 0 => y[1] = b)
  <2> HIDE DEF m
  <2> QED BY <1>m, OneOrNone
<1>2. z \in Seq({c}) /\ Len(z) = x /\ (x # 0 => z[1] = c)
  BY OneOrNone
<1> HIDE DEF a, b, c, y, z, m
<1>3. /\ Len(s) = 1 + Len(y) + Len(z) /\ DOMAIN s = 1..(1 + Len(y) + Len(z))
      /\ s[1] = a
      /\ \A i \in 1..Len(y) : s[1 + i] = y[i]
      /\ \A i \in 1..Len(z) : s[1 + Len(y) + i] = z[i]
      /\ s \in Seq(S)
  <2>1. y \in Seq({b}) /\ z \in Seq({c})
    BY <1>1, <1>2
  <2> QED BY <2>1, Three
<1> HIDE DEF s
<1>4. Len(s) = 1 + m + x /\ DOMAIN s = 1..(1 + m + x)
  BY <1>1, <1>2, <1>3
<1>5. k # 0 => s[2] = b
  <2>1. k # 0 => 1 \in 1..Len(y) /\ 1 + 1 = 2
    BY <1>1, <1>m
  <2> QED BY <1>1, <1>3, <2>1
<1>6. x # 0 => s[1 + m + 1] = c
  <2>1. x # 0 => 1 \in 1..Len(z)
    BY <1>2
  <2> QED BY <1>1, <1>2, <1>3, <2>1
<1> QED BY <1>0, <1>3, <1>4, <1>5, <1>6 DEF a, b, c, m

(* The recursive definition of a total has the value it says.              *)
LEMMA TotalRuns ==
  ASSUME NEW n \in Nat, NEW c \in [1..n -> Nat]
  PROVE  \E t \in [0..n -> Nat] :
           /\ t[0] = 0 /\ \A i \in 1..n : t[i] = t[i - 1] + c[i]
           /\ Total(c) = t[n]
<1> DEFINE Runs(t, m) == t = [i \in 0..m |-> IF i = 0 THEN 0 ELSE t[i - 1] + c[i]]
           S == {m \in Nat : m <= n => \E t \in [0..m -> Nat] : Runs(t, m)}
<1>1. 0 \in S
  <2> DEFINE t == [i \in 0..0 |-> 0]
  <2>1. t \in [0..0 -> Nat] /\ Runs(t, 0)
    OBVIOUS
  <2> HIDE DEF t, Runs
  <2> QED BY <2>1
<1>2. ASSUME NEW m \in Nat, m \in S PROVE m + 1 \in S
  <2> SUFFICES ASSUME m + 1 <= n PROVE \E t \in [0..(m + 1) -> Nat] : Runs(t, m + 1)
    OBVIOUS
  <2>1. PICK t \in [0..m -> Nat] : Runs(t, m)
    BY <1>2
  <2> DEFINE u == [i \in 0..(m + 1) |-> IF i = m + 1 THEN t[m] + c[m + 1] ELSE t[i]]
  <2>2. u \in [0..(m + 1) -> Nat]
    OBVIOUS
  <2>3. ASSUME NEW i \in 0..(m + 1)
        PROVE  u[i] = IF i = 0 THEN 0 ELSE u[i - 1] + c[i]
    <3>1. CASE i = m + 1
      BY <3>1
    <3>2. CASE i \in 0..m
      <4>1. t[i] = IF i = 0 THEN 0 ELSE t[i - 1] + c[i]
        BY <2>1, <3>2
      <4> QED BY <3>2, <4>1
    <3> QED BY <3>1, <3>2
  <2>4. Runs(u, m + 1)
    <3>1. u = [i \in 0..(m + 1) |-> u[i]]
      OBVIOUS
    <3> HIDE DEF u
    <3> QED BY <2>3, <3>1
  <2> HIDE DEF u, Runs
  <2> QED BY <2>2, <2>4
<1>3. n \in S
  <2> HIDE DEF S
  <2>1. \A m \in Nat : m \in S
    BY <1>1, <1>2, EveryNatural
  <2> QED BY <2>1
<1>4. Len(c) = n
  OBVIOUS
<1>5. \E t \in [0..n -> Nat] : Runs(t, n)
  <2> HIDE DEF Runs
  <2> QED BY <1>3
<1> DEFINE v == CHOOSE t : Runs(t, n)
<1>6. Runs(v, n) /\ Total(c) = v[n]
  <2>1. Runs(v, n)
    BY <1>5, Zenon
  <2>2. Total(c) = v[n]
    BY <1>4 DEF Total
  <2> QED BY <2>1, <2>2
<1>7. v \in [0..n -> Nat]
  <2>1. PICK t \in [0..n -> Nat] : Runs(t, n)
    BY <1>5
  <2> DEFINE P == {m \in Nat : m <= n => v[m] = t[m]}
  <2> HIDE DEF v
  <2>2. 0 \in P
    BY <1>6, <2>1
  <2>3. ASSUME NEW m \in Nat, m \in P PROVE m + 1 \in P
    <3> SUFFICES ASSUME m + 1 <= n PROVE v[m + 1] = t[m + 1]
      OBVIOUS
    <3>1. m + 1 \in 0..n /\ m + 1 # 0 /\ m + 1 - 1 = m /\ v[m] = t[m]
      BY <2>3
    <3>2. v[m + 1] = v[m + 1 - 1] + c[m + 1] /\ t[m + 1] = t[m + 1 - 1] + c[m + 1]
      BY <1>6, <2>1, <3>1
    <3> QED BY <3>1, <3>2
  <2>4. \A m \in Nat : m \in P
    <3> HIDE DEF P
    <3> QED BY <2>2, <2>3, EveryNatural
  <2>5. ASSUME NEW m \in 0..n PROVE v[m] \in Nat
    <3> HIDE DEF Runs
    <3>1. m \in Nat /\ m <= n
      OBVIOUS
    <3>2. v[m] = t[m]
      BY <2>4, <3>1
    <3> QED BY <3>2
  <2>6. v = [i \in 0..n |-> v[i]]
    BY <1>6
  <2> QED BY <2>5, <2>6
<1> HIDE DEF v
<1>8. v[0] = 0 /\ \A i \in 1..n : v[i] = v[i - 1] + c[i]
  BY <1>6
<1> QED BY <1>6, <1>7, <1>8

(* A total of at most three.                                               *)
LEMMA TotalSmall ==
  ASSUME NEW n \in 0..3, NEW c \in [1..n -> Nat]
  PROVE  Total(c) = (IF n >= 1 THEN c[1] ELSE 0) + (IF n >= 2 THEN c[2] ELSE 0)
                      + (IF n >= 3 THEN c[3] ELSE 0)
<1>1. PICK t \in [0..n -> Nat] :
        t[0] = 0 /\ (\A i \in 1..n : t[i] = t[i - 1] + c[i]) /\ Total(c) = t[n]
  <2>1. n \in Nat
    OBVIOUS
  <2> QED BY <2>1, TotalRuns
<1>2. n = 0 \/ n = 1 \/ n = 2 \/ n = 3
  OBVIOUS
<1>3. /\ n >= 1 => t[1] = t[0] + c[1] /\ c[1] \in Nat
      /\ n >= 2 => t[2] = t[1] + c[2] /\ c[2] \in Nat
      /\ n >= 3 => t[3] = t[2] + c[3] /\ c[3] \in Nat
  BY <1>1
<1> QED BY <1>1, <1>2, <1>3

(* The maximum of a set is its largest element.                            *)
LEMMA LargestOf ==
  ASSUME NEW S, NEW m \in S, S \subseteq Nat, \A x \in S : x <= m
  PROVE  Max(S) = m
<1>1. m \in S /\ \A y \in S : m >= y
  OBVIOUS
<1>2. ASSUME NEW x \in S, \A y \in S : x >= y PROVE x = m
  <2>1. x \in Nat /\ m \in Nat /\ x >= m /\ m >= x
    BY <1>1, <1>2
  <2> QED BY <2>1
<1> QED BY <1>1, <1>2 DEF Max

(* The trace of a run that committed w units of work and ended.            *)
LEMMA SemanticTold ==
  ASSUME NEW r, NEW w \in {0, 1}, NEW reason
  PROVE  LET s == Semantic(r, w, reason)
         IN  /\ s # <<>> /\ Odd \notin ToSet(s)
             /\ SemanticWork(s) = w /\ LastState(s) = w /\ Last(s).reason = reason
             /\ StreamValid(s, reason, w)
             /\ \E S : s \in Seq(S)
<1> DEFINE s == Semantic(r, w, reason)
           commits == Having(s, "committed")
<1>1. /\ Len(s) = 2 + w /\ DOMAIN s = 1..(2 + w)
      /\ s[1] = Opened(r) /\ s[2 + w] = EndedBy(reason)
      /\ w = 1 => s[2] = CommitOf(w)
      /\ \E S : s \in Seq(S)
  BY SemanticIs
<1> HIDE DEF s
<1>2. /\ s[1].event = "run_open" /\ s[1].state = 0
      /\ s[2 + w].event = "run_terminated" /\ s[2 + w].reason = reason
      /\ w = 1 => s[2].event = "committed" /\ s[2].started_work = w /\ s[2].state = w
  BY <1>1 DEF Opened, EndedBy, CommitOf
<1>3. ASSUME NEW i \in DOMAIN s
      PROVE  i = 1 \/ i = 2 + w \/ (i = 2 /\ w = 1)
  BY <1>1
<1>4. commits = IF w = 0 THEN {} ELSE {2}
  <2>1. \A i \in DOMAIN s : s[i].event = "committed" <=> i = 2 /\ w = 1
    BY <1>2, <1>3
  <2> QED BY <1>1, <2>1 DEF Having
<1>5. Odd \notin ToSet(s)
  <2>1. \A i \in DOMAIN s : s[i].event # Odd.event
    BY <1>2, <1>3 DEF Odd
  <2> QED BY <2>1 DEF ToSet
<1> HIDE DEF commits
<1>6. SemanticWork(s) = w
  <2> DEFINE W == {0} \cup {s[i].started_work : i \in commits}
  <2>1. W = {0, w}
    BY <1>2, <1>4
  <2> HIDE DEF W
  <2>2. Max(W) = w
    BY <2>1, LargestOf
  <2> QED BY <2>2 DEF SemanticWork, W, commits
<1>7. LastState(s) = w
  <2>1. CASE w = 0
    BY <1>2, <1>4, <2>1 DEF LastState, commits
  <2>2. CASE w = 1
    <3>1. (CHOOSE i \in commits : \A j \in commits : j <= i) = 2
      BY <1>4, <2>2
    <3> QED BY <1>2, <1>4, <2>2, <3>1 DEF LastState, commits
  <2> QED BY <2>1, <2>2
<1>8. Last(s) = s[2 + w]
  BY <1>1 DEF Last
<1>9. s # <<>>
  BY <1>1
<1> QED BY <1>1, <1>2, <1>5, <1>6, <1>7, <1>8, <1>9 DEF StreamValid, s

(* What a run observed as waste is what it wasted.                         *)
LEMMA WasteTold ==
  ASSUME NEW r, NEW w \in {0, 1}, NEW x \in {0, 1}, NEW k \in 0..2
  PROVE  LET p == Physical(r, w, x, k)
         IN  /\ \A i \in Having(p, "t4_waste_observation") : p[i].discarded = x
             /\ x # 0 => Having(p, "t4_waste_observation") # {}
<1> DEFINE p == Physical(r, w, x, k)
           m == IF k = 0 THEN 0 ELSE 1
<1>1. /\ Len(p) = 1 + m + x /\ DOMAIN p = 1..(1 + m + x)
      /\ p[1] = Seen(r, w + x)
      /\ k # 0 => p[2] = ReceiptOf(k)
      /\ x # 0 => p[1 + m + 1] = WasteOf(x)
      /\ \E S : p \in Seq(S)
  BY PhysicalIs
<1>2. m \in {0, 1} /\ (m = 0 <=> k = 0)
  OBVIOUS
<1> HIDE DEF p, m
<1>3. ASSUME NEW i \in DOMAIN p, p[i].event = "t4_waste_observation"
      PROVE  p[i].discarded = x
  <2>1. i = 1 \/ (i = 2 /\ k # 0) \/ (i = 1 + m + 1 /\ x # 0)
    BY <1>1, <1>2
  <2>2. i # 1 /\ (k # 0 => i # 2)
    BY <1>1, <1>3 DEF Seen, ReceiptOf
  <2> QED BY <1>1, <2>1, <2>2 DEF WasteOf
<1>4. x # 0 => 1 + m + 1 \in DOMAIN p /\ p[1 + m + 1].event = "t4_waste_observation"
  BY <1>1, <1>2 DEF WasteOf
<1> QED BY <1>3, <1>4 DEF Having, p

(* The observations of a run of w committed and x wasted units, k of them  *)
(* with a receipt.                                                         *)
LEMMA PhysicalTold ==
  ASSUME NEW r, NEW w \in {0, 1}, NEW x \in {0, 1}, NEW k \in 0..2
  PROVE  LET p == Physical(r, w, x, k)
         IN  /\ p # <<>> /\ Odd \notin ToSet(p) /\ \E S : p \in Seq(S)
             /\ NativeWork(p) = k
             /\ \A work \in 0..w :
                  /\ k # 0 => NeedsReceipts
                  /\ NeedsReceipts => k >= work /\ k >= x
                  => PhysicalValid(p, work)
<1> DEFINE p == Physical(r, w, x, k)
           m == IF k = 0 THEN 0 ELSE 1
           waste == Having(p, "t4_waste_observation")
           receipts == Having(p, "native_round_observation")
<1>1. /\ Len(p) = 1 + m + x /\ DOMAIN p = 1..(1 + m + x)
      /\ p[1] = Seen(r, w + x)
      /\ k # 0 => p[2] = ReceiptOf(k)
      /\ x # 0 => p[1 + m + 1] = WasteOf(x)
      /\ \E S : p \in Seq(S)
  BY PhysicalIs
<1>m. m \in {0, 1} /\ (m = 0 <=> k = 0)
  OBVIOUS
<1> HIDE DEF p, m
<1>2. /\ p[1].event = "run_observation" /\ p[1].cmax = w + x
      /\ k # 0 => p[2].event = "native_round_observation" /\ p[2].started_work = k
      /\ x # 0 => /\ p[1 + m + 1].event = "t4_waste_observation"
                  /\ p[1 + m + 1].discarded = x
  BY <1>1 DEF Seen, ReceiptOf, WasteOf
<1>3. ASSUME NEW i \in DOMAIN p
      PROVE  i = 1 \/ (i = 2 /\ k # 0) \/ (i = 1 + m + 1 /\ x # 0)
  BY <1>1, <1>m
<1>4. /\ Having(p, "run_observation") = {1}
      /\ receipts = IF k = 0 THEN {} ELSE {2}
      /\ waste = IF x = 0 THEN {} ELSE {1 + m + 1}
  <2>1. ASSUME NEW i \in DOMAIN p
        PROVE  /\ p[i].event = "run_observation" <=> i = 1
               /\ p[i].event = "native_round_observation" <=> i = 2 /\ k # 0
               /\ p[i].event = "t4_waste_observation" <=> i = 1 + m + 1 /\ x # 0
    BY <1>2, <1>3, <1>m
  <2>2. 1 \in DOMAIN p /\ (k # 0 => 2 \in DOMAIN p) /\ (x # 0 => 1 + m + 1 \in DOMAIN p)
    BY <1>1, <1>m
  <2> QED BY <2>1, <2>2 DEF Having
<1>5. Odd \notin ToSet(p)
  <2>1. \A i \in DOMAIN p : p[i].event # Odd.event
    BY <1>2, <1>3 DEF Odd
  <2> QED BY <2>1 DEF ToSet
<1>6. NativeWork(p) = k
  <2> DEFINE c == [i \in DOMAIN p |->
                     IF p[i].event = "native_round_observation"
                     THEN p[i].started_work ELSE 0]
             n == 1 + m + x
  <2>1. n \in 0..3 /\ DOMAIN c = 1..n
    BY <1>1, <1>m
  <2>2. ASSUME NEW i \in 1..n PROVE c[i] = IF i = 2 /\ k # 0 THEN k ELSE 0
    BY <1>1, <1>2, <1>3, <1>m
  <2>3. c \in [1..n -> Nat]
    <3>1. c = [i \in 1..n |-> c[i]]
      BY <2>1
    <3> HIDE DEF c
    <3> QED BY <2>2, <3>1
  <2> HIDE DEF c
  <2>4. Total(c) = (IF n >= 1 THEN c[1] ELSE 0) + (IF n >= 2 THEN c[2] ELSE 0)
                      + (IF n >= 3 THEN c[3] ELSE 0)
    <3> HIDE DEF n
    <3> QED BY <2>1, <2>3, TotalSmall
  <2>5. Total(c) = k
    BY <1>m, <2>2, <2>4
  <2> QED BY <2>5 DEF NativeWork, c
<1> HIDE DEF waste, receipts
<1>7. ASSUME NEW work \in 0..w, k # 0 => NeedsReceipts,
             NeedsReceipts => k >= work /\ k >= x
      PROVE  PhysicalValid(p, work)
  <2> DEFINE R == {work} \cup {p[i].discarded : i \in waste}
             top == IF x > work THEN x ELSE work
  <2>1. R = IF x = 0 THEN {work} ELSE {work, x}
    BY <1>2, <1>4
  <2>2. top \in R /\ R \subseteq Nat /\ \A y \in R : y <= top
    BY <2>1
  <2> HIDE DEF R, top
  <2>3. Max(R) = top
    BY <2>2, LargestOf
  <2>4. top > 0 => p[1].cmax > 0
    BY <1>2 DEF top
  <2>5. NeedsReceipts => k >= top
    BY <1>7 DEF top
  <2>6. receipts # {} => NeedsReceipts
    BY <1>4, <1>7
  <2>7. DOMAIN p = {1} \cup waste \cup receipts
    BY <1>1, <1>4, <1>m
  <2> QED BY <1>4, <1>6, <2>3, <2>4, <2>5, <2>6, <2>7
         DEF PhysicalValid, R, waste, receipts
<1>8. p # <<>>
  BY <1>1, <1>m
<1> QED BY <1>1, <1>5, <1>6, <1>7, <1>8 DEF p

-----------------------------------------------------------------------------
(* What an execution hands over, case by case *)

Told(r, s) == \E w \in {0, 1}, reason \in {"done", "error"} : s = Semantic(r, w, reason)
Observed(r, c, p) ==
  \E w \in {0, 1}, x \in {0, 1}, k \in 0..2 :
    p = Physical(r, w, x, k) /\ (k # 0 => c.backend # "python")

(* One execution of a case, by what it hands over.                         *)
Completes(r, c, o) ==
  \E w \in {0, 1}, x \in {0, 1} :
    o = Outcome(<<Semantic(r, w, "done")>>, PhysicalStreams(r, c, w, x, FALSE),
                Result(c, Semantic(r, w, "done"), w, "done"), FALSE)
Raises(r, c, o) ==
  \/ o = Outcome(<<>>, <<>>, NoResult, TRUE)
  \/ \E w \in {0, 1}, x \in {0, 1}, thrown \in BOOLEAN, reason \in {"done", "error"} :
       \E p \in {<<>>, PhysicalStreams(r, c, w, x, thrown)} :
         o = Outcome(<<Semantic(r, w, reason)>>, p, NoResult, TRUE)
Strays(r, c, o) ==
  LET s == Semantic(r, 0, "done")
      p == PhysicalStreams(r, c, 0, 0, FALSE)
      good == Result(c, s, 0, "done")
  IN  \/ \E x \in {<<>>, <<<<>>>>, <<s, s>>, <<<<>>, s>>, <<<<Odd>>>>} :
           o = Outcome(x, p, good, FALSE)
      \/ o = Outcome(<<s>>, p, OtherResult, FALSE)
      \/ p # <<>> /\ \E x \in {<<<<>>>>, p \o p} : o = Outcome(<<s>>, x, good, FALSE)

(* An execution completes, raises or strays.                               *)
LEMMA ExecutionCases ==
  ASSUME NEW r, NEW c, NEW o \in Executions(r, c)
  PROVE  Completes(r, c, o) \/ Raises(r, c, o) \/ Strays(r, c, o)
<1> USE DEF Executions
<1>1. CASE o \in Completed(r, c)
  <2> DEFINE e(w, x) == Outcome(<<Semantic(r, w, "done")>>, PhysicalStreams(r, c, w, x, FALSE),
                Result(c, Semantic(r, w, "done"), w, "done"), FALSE)
  <2>1. Completed(r, c) = {e(w, x) : w \in {0, 1}, x \in {0, 1}}
    BY DEF Completed
  <2> HIDE DEF e
  <2>2. \E w \in {0, 1}, x \in {0, 1} : o = e(w, x)
    BY <1>1, <2>1
  <2> QED BY <2>2, Zenon DEF Completes, e
<1>2. CASE o \in Raised(r, c)
  <2>1. CASE o = Outcome(<<>>, <<>>, NoResult, TRUE)
    BY <2>1 DEF Raises
  <2>2. CASE \E w \in {0, 1}, x \in {0, 1}, thrown \in BOOLEAN :
               o = Outcome(<<Semantic(r, w, "error")>>,
                           PhysicalStreams(r, c, w, x, thrown), NoResult, TRUE)
    <3>1. PICK w \in {0, 1}, x \in {0, 1}, thrown \in BOOLEAN :
               o = Outcome(<<Semantic(r, w, "error")>>,
                           PhysicalStreams(r, c, w, x, thrown), NoResult, TRUE)
      BY <2>2
    <3>2. \E p \in {<<>>, PhysicalStreams(r, c, w, x, thrown)} :
            o = Outcome(<<Semantic(r, w, "error")>>, p, NoResult, TRUE)
      BY <3>1
    <3> QED BY <3>2 DEF Raises
  <2>3. CASE \E w \in {0, 1} : o = Outcome(<<Semantic(r, w, "done")>>, <<>>, NoResult, TRUE)
    <3>1. PICK w \in {0, 1} : o = Outcome(<<Semantic(r, w, "done")>>, <<>>, NoResult, TRUE)
      BY <2>3
    <3>2. \E p \in {<<>>, PhysicalStreams(r, c, w, 0, FALSE)} :
            o = Outcome(<<Semantic(r, w, "done")>>, p, NoResult, TRUE)
      BY <3>1
    <3> QED BY <3>2 DEF Raises
  <2> DEFINE e(w, x, thrown) == Outcome(<<Semantic(r, w, "error")>>,
                           PhysicalStreams(r, c, w, x, thrown), NoResult, TRUE)
             f(w) == Outcome(<<Semantic(r, w, "done")>>, <<>>, NoResult, TRUE)
  <2>4. Raised(r, c) =
          {Outcome(<<>>, <<>>, NoResult, TRUE)}
          \cup {e(w, x, thrown) : w \in {0, 1}, x \in {0, 1}, thrown \in BOOLEAN}
          \cup {f(w) : w \in {v \in {0, 1} : c.policy = "semantic_and_physical"}}
    BY DEF Raised
  <2> HIDE DEF e, f
  <2>5. \/ o = Outcome(<<>>, <<>>, NoResult, TRUE)
        \/ \E w \in {0, 1}, x \in {0, 1}, thrown \in BOOLEAN : o = e(w, x, thrown)
        \/ \E w \in {0, 1} : o = f(w)
    <3> DEFINE E == {e(w, x, thrown) : w \in {0, 1}, x \in {0, 1}, thrown \in BOOLEAN}
               F == {f(w) : w \in {v \in {0, 1} : c.policy = "semantic_and_physical"}}
    <3>1. o \in E => \E w \in {0, 1}, x \in {0, 1}, thrown \in BOOLEAN : o = e(w, x, thrown)
      OBVIOUS
    <3>2. o \in F => \E w \in {0, 1} : o = f(w)
      OBVIOUS
    <3>3. o = Outcome(<<>>, <<>>, NoResult, TRUE) \/ o \in E \/ o \in F
      <4> HIDE DEF E, F
      <4>1. Raised(r, c) = {Outcome(<<>>, <<>>, NoResult, TRUE)} \cup E \cup F
        BY <2>4 DEF E, F
      <4> QED BY <1>2, <4>1
    <3> HIDE DEF E, F
    <3> QED BY <3>1, <3>2, <3>3
  <2> QED BY <2>1, <2>2, <2>3, <2>5, Zenon DEF e, f
<1>3. CASE o \in Malformed(r, c)
  <2> DEFINE s == Semantic(r, 0, "done")
             p == PhysicalStreams(r, c, 0, 0, FALSE)
             good == Result(c, s, 0, "done")
  <2>1. CASE \E x \in {<<>>, <<<<>>>>, <<s, s>>, <<<<>>, s>>, <<<<Odd>>>>} :
               o = Outcome(x, p, good, FALSE)
    BY <2>1, Zenon DEF Strays
  <2>2. CASE o = Outcome(<<s>>, p, OtherResult, FALSE)
    BY <2>2, Zenon DEF Strays
  <2>3. CASE \E x \in IF p = <<>> THEN {} ELSE {<<<<>>>>, p \o p} :
               o = Outcome(<<s>>, x, good, FALSE)
    <3>1. p # <<>> /\ \E x \in {<<<<>>>>, p \o p} : o = Outcome(<<s>>, x, good, FALSE)
      <4> HIDE DEF p, s, good
      <4> QED BY <2>3
    <3> QED BY <3>1, Zenon DEF Strays
  <2> QED BY <1>3, <2>1, <2>2, <2>3, Zenon DEF Malformed
<1> QED BY <1>1, <1>2, <1>3

(* The fields of an outcome.                                               *)
LEMMA OutcomeIs ==
  ASSUME NEW x, NEW y, NEW res, NEW b
  PROVE  LET o == Outcome(x, y, res, b)
         IN  o.semantic = x /\ o.physical = y /\ o.result = res /\ o.raised = b
BY DEF Outcome

(* What is traced of a round's work, by the backend that did it.           *)
LEMMA PhysicalAre ==
  ASSUME NEW r, NEW c, NEW w \in {0, 1}, NEW x \in {0, 1}, NEW thrown \in BOOLEAN
  PROVE  LET k == Receipts(c, w, x, thrown)
             p == PhysicalStreams(r, c, w, x, thrown)
         IN  /\ k \in 0..2 /\ (k # 0 => c.backend # "python")
             /\ c.backend # "python" /\ ~thrown => k = w + x
             /\ p = <<>> \/ p = <<Physical(r, w, x, k)>>
             /\ p = <<>> <=> c.policy = "semantic"
             /\ Observed(r, c, Physical(r, w, x, k))
<1> DEFINE k == Receipts(c, w, x, thrown)
           p == PhysicalStreams(r, c, w, x, thrown)
<1>1. k \in 0..2 /\ (k # 0 => c.backend # "python")
      /\ (c.backend # "python" /\ ~thrown => k = w + x)
  BY DEF Receipts
<1>2. p = IF c.policy = "semantic" THEN <<>> ELSE <<Physical(r, w, x, k)>>
  BY DEF PhysicalStreams
<1> HIDE DEF k, p
<1>3. Observed(r, c, Physical(r, w, x, k))
  BY <1>1 DEF Observed
<1>4. <<Physical(r, w, x, k)>> # <<>>
  OBVIOUS
<1> QED BY <1>1, <1>2, <1>3, <1>4 DEF k, p

(* A stream handed over twice.                                             *)
LEMMA Twice ==
  ASSUME NEW a
  PROVE  /\ DOMAIN (<<a>> \o <<a>>) = 1..2
         /\ (<<a>> \o <<a>>)[1] = a /\ (<<a>> \o <<a>>)[2] = a
<1> DEFINE x == <<a>>
           A == {a}
           U == A \cup A
           z == x \o x
<1>0. x \in Seq(A)
  OBVIOUS
<1>1. Len(x) = 1 /\ x[1] = a
  OBVIOUS
<1> HIDE DEF x, A
<1>2. /\ z \in Seq(U) /\ Len(z) = Len(x) + Len(x)
      /\ \A i \in 1..Len(x) : z[i] = x[i]
      /\ \A i \in 1..Len(x) : z[Len(x) + i] = x[i]
  BY <1>0, ConcatAt
<1> HIDE DEF z, U
<1>3. DOMAIN z = 1..2
  BY <1>1, <1>2
<1>4. z[1] = a /\ z[1 + 1] = a
  BY <1>1, <1>2
<1> QED BY <1>3, <1>4 DEF z, x

(* Every stream handed over is empty, not encodable, or a trace of the     *)
(* run.                                                                    *)
LEMMA Emitted ==
  ASSUME NEW r, NEW c, NEW o \in Executions(r, c)
  PROVE  /\ \A i \in DOMAIN o.semantic :
              \/ o.semantic[i] = <<>> \/ o.semantic[i] = <<Odd>>
              \/ Told(r, o.semantic[i])
         /\ \A i \in DOMAIN o.physical :
              o.physical[i] = <<>> \/ Observed(r, c, o.physical[i])
<1> DEFINE Sem(x) == \A i \in DOMAIN x : x[i] = <<>> \/ x[i] = <<Odd>> \/ Told(r, x[i])
           Phy(x) == \A i \in DOMAIN x : x[i] = <<>> \/ Observed(r, c, x[i])
<1>s. ASSUME NEW w \in {0, 1}, NEW reason \in {"done", "error"}
      PROVE  Told(r, Semantic(r, w, reason))
  BY DEF Told
<1>1. ASSUME NEW w \in {0, 1}, NEW reason \in {"done", "error"}
      PROVE  Sem(<<Semantic(r, w, reason)>>)
  <2> DEFINE s == Semantic(r, w, reason)
  <2>1. Told(r, s)
    BY <1>s
  <2> HIDE DEF s
  <2>2. Sem(<<s>>)
    BY <2>1
  <2> QED BY <2>2 DEF s
<1>2. ASSUME NEW w \in {0, 1}, NEW x \in {0, 1}, NEW thrown \in BOOLEAN
      PROVE  LET p == PhysicalStreams(r, c, w, x, thrown)
             IN  Phy(p) /\ (p # <<>> => Phy(p \o p))
  <2> DEFINE q == Physical(r, w, x, Receipts(c, w, x, thrown))
             p == PhysicalStreams(r, c, w, x, thrown)
  <2>1. (p = <<>> \/ p = <<q>>) /\ Observed(r, c, q)
    BY PhysicalAre
  <2> HIDE DEF q, p
  <2>2. Phy(<<>>) /\ Phy(<<q>>)
    BY <2>1
  <2>3. Phy(<<q>> \o <<q>>)
    <3> DEFINE z == <<q>> \o <<q>>
    <3>1. DOMAIN z = 1..2 /\ z[1] = q /\ z[2] = q
      BY Twice
    <3> HIDE DEF z
    <3>2. Phy(z)
      BY <2>1, <3>1
    <3> QED BY <3>2 DEF z
  <2>4. Phy(p) /\ (p # <<>> => Phy(p \o p))
    <3> HIDE DEF Phy
    <3> QED BY <2>1, <2>2, <2>3
  <2> QED BY <2>4 DEF p
<1>3. Sem(<<>>) /\ Phy(<<>>) /\ Phy(<<<<>>>>)
  OBVIOUS
<1>4. SUFFICES Sem(o.semantic) /\ Phy(o.physical)
  OBVIOUS
<1>5. CASE Completes(r, c, o)
  <2>1. PICK w \in {0, 1}, x \in {0, 1} :
          o = Outcome(<<Semantic(r, w, "done")>>, PhysicalStreams(r, c, w, x, FALSE),
                Result(c, Semantic(r, w, "done"), w, "done"), FALSE)
    BY <1>5 DEF Completes
  <2> HIDE DEF Sem, Phy
  <2>2. o.semantic = <<Semantic(r, w, "done")>> /\ o.physical = PhysicalStreams(r, c, w, x, FALSE)
    BY <2>1 DEF Outcome
  <2>3. Sem(<<Semantic(r, w, "done")>>) /\ Phy(PhysicalStreams(r, c, w, x, FALSE))
    BY <1>1, <1>2
  <2> QED BY <2>2, <2>3
<1>6. CASE Raises(r, c, o)
  <2> HIDE DEF Sem, Phy
  <2>1. CASE o = Outcome(<<>>, <<>>, NoResult, TRUE)
    <3>1. o.semantic = <<>> /\ o.physical = <<>>
      BY <2>1 DEF Outcome
    <3> QED BY <1>3, <3>1
  <2>2. CASE o # Outcome(<<>>, <<>>, NoResult, TRUE)
    <3>1. PICK w \in {0, 1}, x \in {0, 1}, thrown \in BOOLEAN, reason \in {"done", "error"} :
            \E p \in {<<>>, PhysicalStreams(r, c, w, x, thrown)} :
              o = Outcome(<<Semantic(r, w, reason)>>, p, NoResult, TRUE)
      BY <1>6, <2>2 DEF Raises
    <3>2. PICK p \in {<<>>, PhysicalStreams(r, c, w, x, thrown)} :
              o = Outcome(<<Semantic(r, w, reason)>>, p, NoResult, TRUE)
      BY <3>1
    <3>3. o.semantic = <<Semantic(r, w, reason)>> /\ o.physical = p
      BY <3>2 DEF Outcome
    <3>4. Sem(<<Semantic(r, w, reason)>>) /\ Phy(PhysicalStreams(r, c, w, x, thrown))
      BY <1>1, <1>2
    <3>5. Phy(p)
      BY <1>3, <3>4
    <3> QED BY <3>3, <3>4, <3>5
  <2> QED BY <2>1, <2>2
<1>7. CASE Strays(r, c, o)
  <2> DEFINE s == Semantic(r, 0, "done")
             p == PhysicalStreams(r, c, 0, 0, FALSE)
             good == Result(c, s, 0, "done")
  <2>1. Told(r, s) /\ Phy(p) /\ (p # <<>> => Phy(p \o p))
    BY <1>s, <1>2
  <2>0. \/ \E x \in {<<>>, <<<<>>>>, <<s, s>>, <<<<>>, s>>, <<<<Odd>>>>} :
             o = Outcome(x, p, good, FALSE)
        \/ o = Outcome(<<s>>, p, OtherResult, FALSE)
        \/ p # <<>> /\ \E x \in {<<<<>>>>, p \o p} : o = Outcome(<<s>>, x, good, FALSE)
    BY <1>7, Zenon DEF Strays
  <2> HIDE DEF s, p, good
  <2>2. ASSUME NEW x \in {<<>>, <<<<>>>>, <<s, s>>, <<<<>>, s>>, <<<<Odd>>>>, <<s>>}
        PROVE Sem(x)
    BY <2>1
  <2>3. ASSUME NEW x, NEW y, NEW res, o = Outcome(x, y, res, FALSE)
        PROVE  o.semantic = x /\ o.physical = y
    BY <2>3 DEF Outcome
  <2> HIDE DEF Sem, Phy
  <2>4. CASE \E x \in {<<>>, <<<<>>>>, <<s, s>>, <<<<>>, s>>, <<<<Odd>>>>} :
               o = Outcome(x, p, good, FALSE)
    BY <2>1, <2>2, <2>3, <2>4
  <2>5. CASE o = Outcome(<<s>>, p, OtherResult, FALSE)
    BY <2>1, <2>2, <2>3, <2>5
  <2>6. CASE p # <<>> /\ \E x \in {<<<<>>>>, p \o p} : o = Outcome(<<s>>, x, good, FALSE)
    <3>1. PICK x \in {<<<<>>>>, p \o p} : o = Outcome(<<s>>, x, good, FALSE)
      BY <2>6
    <3>2. Phy(x)
      BY <1>3, <2>1, <2>6
    <3> QED BY <2>2, <2>3, <3>1, <3>2
  <2> QED BY <2>0, <2>4, <2>5, <2>6
<1> QED BY <1>5, <1>6, <1>7, ExecutionCases

(* ... and one that is not empty is kept.                                  *)
LEMMA RetainedAll ==
  ASSUME NEW s, Few(s), NEW i \in DOMAIN s, s[i] # <<>>
  PROVE  \E k \in DOMAIN Retained(s) : Retained(s)[k] = s[i]
<1>1. PICK n \in 0..2 : DOMAIN s = 1..n
  BY DEF Few
<1>2. n \in 1..2
  BY <1>1
<1>3. CASE \A j \in 1..n : j # i => s[j] = <<>>
  <2>1. DOMAIN Retained(s) = 1..1 /\ Retained(s)[1] = s[i]
    BY <1>1, <1>2, <1>3, RetainedOne
  <2> QED BY <2>1
<1>4. CASE ~ \A j \in 1..n : j # i => s[j] = <<>>
  <2>1. n = 2 /\ s[1] # <<>> /\ s[2] # <<>>
    BY <1>1, <1>2, <1>4
  <2>2. DOMAIN Retained(s) = 1..2 /\ Retained(s)[1] = s[1] /\ Retained(s)[2] = s[2]
    BY <1>1, <2>1, RetainedBoth
  <2>3. i = 1 \/ i = 2
    BY <1>1, <2>1
  <2> QED BY <2>2, <2>3
<1> QED BY <1>3, <1>4

-----------------------------------------------------------------------------
(* Which documents can be written down *)

(* A chain carries the events it was made of.                              *)
LEMMA ChainOf ==
  ASSUME NEW events
  PROVE  /\ DOMAIN Chain(events) = DOMAIN events
         /\ \A i \in DOMAIN events : Chain(events)[i].payload = events[i]
         /\ [i \in DOMAIN Chain(events) |-> Chain(events)[i].payload]
              = [i \in DOMAIN events |-> events[i]]
<1>1. /\ DOMAIN Chain(events) = DOMAIN events
      /\ \A i \in DOMAIN events : Chain(events)[i].payload = events[i]
  BY DEF Chain
<1> QED BY <1>1

(* A stream can be written down unless it holds what JSON cannot express.  *)
LEMMA StreamWritable ==
  ASSUME NEW p, NEW events, NEW item, item.body = StreamDoc(p, events).body
  PROVE  Writable(item) <=> Odd \notin ToSet(events)
<1>1. item.body.kind = "stream" /\ item.body.records = Chain(events)
  BY DEF StreamDoc, Document
<1> DEFINE x == [i \in DOMAIN item.body.records |-> item.body.records[i].payload]
<1>2. x = [i \in DOMAIN events |-> events[i]]
  BY <1>1, ChainOf
<1>3. ToSet(x) = ToSet(events)
  BY <1>2 DEF ToSet
<1> HIDE DEF x
<1>4. Encodable(<<x>>) <=> Odd \notin ToSet(x)
  BY DEF Encodable
<1> QED BY <1>1, <1>3, <1>4 DEF Writable, x

(* Of a run whose trace can be encoded every document can be written, ...  *)
LEMMA WritableDocs ==
  ASSUME NEW r, NEW c, NEW o \in Executions(r, c), Encodable(o.semantic),
         NEW item \in Items(ToSet(Documents(r, o)))
  PROVE  Writable(item)
<1> DEFINE d == Documents(r, o)
           Fine(doc) == \A it : it.body = doc.body => Writable(it)
<1>s. Streamed(o)
  BY ExecutionStreams
<1>1. PICK doc \in ToSet(d) : item.body = doc.body
  BY ItemOf
<1>2. PICK i \in DOMAIN d : doc = d[i]
  BY DEF ToSet
<1>3. ASSUME NEW b, b.body.kind # "stream" PROVE Fine(b)
  BY <1>3 DEF Writable
<1>4. ASSUME NEW p, NEW events, Odd \notin ToSet(events) PROVE Fine(StreamDoc(p, events))
  BY <1>4, StreamWritable
<1>5. Fine(ConfigDoc(input[r])) /\ Fine(ManifestOf(r, o))
  <2>1. ConfigDoc(input[r]).body.kind = "config" /\ ManifestOf(r, o).body.kind = "manifest"
    BY DEF ConfigDoc, ManifestOf, Manifest, Document
  <2> HIDE DEF Fine
  <2> QED BY <1>3, <2>1
<1>6. \A j \in DOMAIN o.semantic : Odd \notin ToSet(o.semantic[j])
  BY DEF Encodable
<1>7. \A j \in DOMAIN o.physical : Odd \notin ToSet(o.physical[j])
  <2> TAKE j \in DOMAIN o.physical
  <2>1. CASE o.physical[j] = <<>>
    BY <2>1 DEF ToSet
  <2>2. CASE Observed(r, c, o.physical[j])
    <3>1. PICK w \in {0, 1}, x \in {0, 1}, k \in 0..2 : o.physical[j] = Physical(r, w, x, k)
      BY <2>2 DEF Observed
    <3> QED BY <3>1, PhysicalTold
  <2> QED BY <2>1, <2>2, Emitted
<1> HIDE DEF Fine
<1>8. CASE Presentable(o)
  <2> DEFINE k == Len(o.physical)
  <2>1. /\ k \in 0..1 /\ DOMAIN o.physical = 1..k /\ DOMAIN d = 1..(k + 4)
        /\ d[1] = ConfigDoc(input[r]) /\ d[2] = StreamDoc("events", o.semantic[1])
        /\ d[3] = Document("result", o.result)
        /\ (k = 1 => d[4] = StreamDoc("physical", o.physical[1]))
        /\ d[k + 4] = ManifestOf(r, o)
    BY <1>8, <1>s, RawLayout
  <2>2. Fine(Document("result", o.result))
    <3>1. Document("result", o.result).body.kind = "result"
      BY <1>8 DEF Presentable, Document
    <3> QED BY <1>3, <3>1
  <2>3. Fine(StreamDoc("events", o.semantic[1]))
    <3>1. 1 \in DOMAIN o.semantic
      BY <1>8, <1>s DEF Presentable, Streamed, Few
    <3> QED BY <1>4, <1>6, <3>1
  <2>4. k = 1 => Fine(StreamDoc("physical", o.physical[1]))
    BY <1>4, <1>7, <2>1
  <2> HIDE DEF d, k
  <2>5. Fine(d[i])
    BY <1>5, <2>1, <2>2, <2>3, <2>4
  <2> QED BY <1>1, <1>2, <2>5 DEF Fine
<1>9. CASE ~Presentable(o)
  <2> DEFINE s == Retained(o.semantic)
             p == Retained(o.physical)
             m == Len(s)
             n == Len(p)
             F == Document("failure", [kind |-> "failure", run |-> r,
                                       semantic |-> m, physical |-> n])
  <2>1. /\ m \in 0..2 /\ n \in 0..2 /\ DOMAIN d = 1..(m + n + 3)
        /\ DOMAIN s = 1..m /\ DOMAIN p = 1..n
        /\ d[1] = ConfigDoc(input[r]) /\ d[2] = F
        /\ \A k \in 1..m : d[2 + k] = StreamDoc(NameOf("events", m, k), s[k])
        /\ \A k \in 1..n : d[2 + m + k] = StreamDoc(NameOf("physical", n, k), p[k])
        /\ d[m + n + 3] = ManifestOf(r, o)
    <3>1. m \in 0..2 /\ n \in 0..2 /\ DOMAIN d = 1..(m + n + 3)
      BY <1>9, <1>s, FailureLayout
    <3>2. DOMAIN s = 1..m /\ DOMAIN p = 1..n
      BY <1>9, <1>s, FailureLayout
    <3>3. d[1] = ConfigDoc(input[r]) /\ d[2] = F
      BY <1>9, <1>s, FailureLayout
    <3>4. \A k \in 1..m : d[2 + k] = StreamDoc(NameOf("events", m, k), s[k])
      BY <1>9, <1>s, FailureLayout
    <3>5. \A k \in 1..n : d[2 + m + k] = StreamDoc(NameOf("physical", n, k), p[k])
      BY <1>9, <1>s, FailureLayout
    <3>6. d[m + n + 3] = ManifestOf(r, o)
      BY <1>9, <1>s, FailureLayout
    <3> QED BY <3>1, <3>2, <3>3, <3>4, <3>5, <3>6
  <2>2. Fine(F)
    <3>1. F.body.kind = "failure"
      BY DEF Document
    <3> HIDE DEF F
    <3> QED BY <1>3, <3>1
  <2>3. \A k \in 1..m : Odd \notin ToSet(s[k])
    BY <1>s, <1>6, <2>1, RetainedFrom DEF Streamed
  <2>4. \A k \in 1..n : Odd \notin ToSet(p[k])
    BY <1>s, <1>7, <2>1, RetainedFrom DEF Streamed
  <2> HIDE DEF d, s, p, m, n, F
  <2>5. \/ i = 1 \/ i = 2 \/ i = m + n + 3
        \/ i - 2 \in 1..m \/ i - 2 - m \in 1..n
    BY <1>2, <2>1
  <2>6. i = 2 + (i - 2) /\ i = 2 + m + (i - 2 - m)
    BY <1>2, <2>1
  <2>7. /\ \A k \in 1..m : Fine(d[2 + k])
        /\ \A k \in 1..n : Fine(d[2 + m + k])
    BY <1>4, <2>1, <2>3, <2>4
  <2>8. Fine(d[i])
    BY <1>5, <2>1, <2>2, <2>5, <2>6, <2>7
  <2> QED BY <1>1, <1>2, <2>8 DEF Fine
<1> QED BY <1>8, <1>9

(* ... and that one that cannot is among those of a trace that cannot.     *)
LEMMA UnwritableDoc ==
  ASSUME NEW r, NEW o, Streamed(o), ~Encodable(o.semantic)
  PROVE  \E item \in Items(ToSet(Documents(r, o))) : ~Writable(item)
<1> DEFINE d == Documents(r, o)
           s == Retained(o.semantic)
           m == Len(s)
           n == Len(Retained(o.physical))
<1>1. PICK i \in DOMAIN o.semantic : Odd \in ToSet(o.semantic[i])
  BY DEF Encodable
<1>2. o.semantic[i] # <<>>
  BY <1>1 DEF ToSet
<1>3. PICK k \in DOMAIN s : s[k] = o.semantic[i]
  BY <1>2, RetainedAll DEF Streamed
<1>4. ~Presentable(o)
  BY DEF Presentable
<1>5. /\ m \in 0..2 /\ n \in 0..2 /\ DOMAIN d = 1..(m + n + 3) /\ DOMAIN s = 1..m
      /\ \A j \in 1..m : d[2 + j] = StreamDoc(NameOf("events", m, j), s[j])
  BY <1>4, FailureLayout
<1> HIDE DEF d, s, m, n
<1>6. 2 + k \in DOMAIN d /\ d[2 + k] = StreamDoc(NameOf("events", m, k), s[k])
  BY <1>5
<1> DEFINE item == Item(d[2 + k], "data")
<1>7. d[2 + k] \in ToSet(d)
  BY <1>6 DEF ToSet
<1>8. item \in Items(ToSet(d))
  BY <1>7, ItemIn
<1>9. item.body = StreamDoc(NameOf("events", m, k), s[k]).body
  BY <1>6 DEF Item
<1>10. ~Writable(item)
  BY <1>1, <1>3, <1>9, StreamWritable
<1> QED BY <1>8, <1>10 DEF d

-----------------------------------------------------------------------------
(* The files of documents with names of their own are files of their own,  *)
(* two to a document.                                                      *)
LEMMA FilesOfAll ==
  ASSUME NEW S, NEW d \in Seq(S),
         \A i, j \in DOMAIN d : d[i].path = d[j].path => i = j
  PROVE  LET f == FilesOf(d)
         IN  /\ \A k \in DOMAIN d : \A kind \in {"data", "sidecar"} :
                  \E i \in DOMAIN f : f[i] = Item(d[k], kind)
             /\ \A i \in DOMAIN f : \E k \in DOMAIN d : \E kind \in {"data", "sidecar"} :
                  f[i] = Item(d[k], kind)
             /\ \A i, j \in DOMAIN f : f[i].file = f[j].file => i = j
<1> DEFINE n == Len(d)
           f == FilesOf(d)
           At(i) == (i + 1) \div 2
           Kind(i) == IF i % 2 = 1 THEN "data" ELSE "sidecar"
<1>1. n \in Nat /\ DOMAIN d = 1..n
  OBVIOUS
<1>2. DOMAIN f = 1..(2 * n) /\ \A i \in 1..(2 * n) : f[i] = Item(d[At(i)], Kind(i))
  BY DEF FilesOf, Item
<1> HIDE DEF f, n
<1>3. ASSUME NEW i \in 1..(2 * n) PROVE At(i) \in 1..n /\ Kind(i) \in {"data", "sidecar"}
  BY <1>1
<1>4. ASSUME NEW k \in 1..n
      PROVE  /\ 2 * k - 1 \in 1..(2 * n) /\ At(2 * k - 1) = k /\ Kind(2 * k - 1) = "data"
             /\ 2 * k \in 1..(2 * n) /\ At(2 * k) = k /\ Kind(2 * k) = "sidecar"
  BY <1>1
<1>5. ASSUME NEW i \in 1..(2 * n), NEW j \in 1..(2 * n), At(i) = At(j), Kind(i) = Kind(j)
      PROVE  i = j
  BY <1>1, <1>5
<1> HIDE DEF At, Kind
<1>6. ASSUME NEW k \in DOMAIN d, NEW kind \in {"data", "sidecar"}
      PROVE  \E i \in DOMAIN f : f[i] = Item(d[k], kind)
  <2>1. k \in 1..n
    BY <1>1
  <2>2. CASE kind = "data"
    <3>1. 2 * k - 1 \in DOMAIN f /\ f[2 * k - 1] = Item(d[k], "data")
      BY <1>2, <1>4, <2>1
    <3> QED BY <2>2, <3>1
  <2>3. CASE kind = "sidecar"
    <3>1. 2 * k \in DOMAIN f /\ f[2 * k] = Item(d[k], "sidecar")
      BY <1>2, <1>4, <2>1
    <3> QED BY <2>3, <3>1
  <2> QED BY <2>2, <2>3
<1>7. ASSUME NEW i \in DOMAIN f
      PROVE  \E k \in DOMAIN d : \E kind \in {"data", "sidecar"} : f[i] = Item(d[k], kind)
  BY <1>1, <1>2, <1>3
<1>8. ASSUME NEW i \in DOMAIN f, NEW j \in DOMAIN f, f[i].file = f[j].file
      PROVE  i = j
  <2>1. /\ f[i].file = <<d[At(i)].path, Kind(i)>>
        /\ f[j].file = <<d[At(j)].path, Kind(j)>>
    BY <1>2 DEF Item
  <2>2. d[At(i)].path = d[At(j)].path /\ Kind(i) = Kind(j)
    <3> DEFINE a == d[At(i)].path
               b == d[At(j)].path
    <3>1. <<a, Kind(i)>> = <<b, Kind(j)>>
      BY <1>8, <2>1
    <3> HIDE DEF a, b
    <3>2. a = b /\ Kind(i) = Kind(j)
      BY <3>1
    <3> QED BY <3>2 DEF a, b
  <2>3. At(i) = At(j)
    BY <1>1, <1>2, <1>3, <2>2
  <2> QED BY <1>2, <1>5, <2>2, <2>3
<1> QED BY <1>6, <1>7, <1>8 DEF f

-----------------------------------------------------------------------------
(* How far a runner has come with its files *)

(* How far the owner has come with the documents it is to write: each of   *)
(* their files is on disk or still to be written, no file is there before  *)
(* its turn, and the one at hand is empty while the pen is on it.          *)
Filled(rest, open, files, docs) ==
  /\ rest \in Seq(Items(docs))
  /\ \A item \in Items(docs) :
       \/ \E i \in DOMAIN rest : rest[i] = item
       \/ files[item.file] = item.body /\ Writable(item)
  /\ \A f \in Files : files[f] # Absent => \E item \in Items(docs) : item.file = f
  /\ \A i \in DOMAIN rest :
       files[rest[i].file] = IF open /\ i = 1 THEN Torn ELSE Absent
  /\ \A i, j \in DOMAIN rest : rest[i].file = rest[j].file => i = j
  /\ open => rest # <<>> /\ Writable(Head(rest))

Lasting(docs) == \A item \in Items(docs) : item.file \in Files /\ Whole(item.body)

(* Creating the next file ...                                              *)
LEMMA CreateFills ==
  ASSUME NEW D, NEW t, NEW files, DOMAIN files = Files, Lasting(D),
         Filled(t, FALSE, files, D), t # <<>>, Writable(Head(t))
  PROVE  Filled(t, TRUE, [files EXCEPT ![Head(t).file] = Torn], D)
<1> DEFINE g == [files EXCEPT ![Head(t).file] = Torn]
           I == Items(D)
<1>1. /\ t \in Seq(I) /\ 1 \in DOMAIN t /\ Head(t) = t[1]
      /\ \A i \in DOMAIN t : t[i] \in I /\ t[i].file \in Files
  BY DEF Filled, Lasting
<1>2. /\ \A item \in I : (\E i \in DOMAIN t : t[i] = item)
                         \/ (files[item.file] = item.body /\ Writable(item))
      /\ \A f \in Files : files[f] # Absent => \E item \in I : item.file = f
      /\ \A i \in DOMAIN t : files[t[i].file] = Absent
      /\ \A i, j \in DOMAIN t : t[i].file = t[j].file => i = j
  BY DEF Filled
<1>3. \A item \in I : item.file \in Files /\ Whole(item.body)
  BY DEF Lasting
<1> HIDE DEF I
<1>4. \A f \in Files : g[f] = IF f = t[1].file THEN Torn ELSE files[f]
  BY <1>1
<1> HIDE DEF g
<1>5. ASSUME NEW item \in I
      PROVE  (\E i \in DOMAIN t : t[i] = item) \/ (g[item.file] = item.body /\ Writable(item))
  <2>1. CASE item.file = t[1].file
    <3>1. files[item.file] = Absent
      BY <1>1, <1>2, <2>1
    <3> QED BY <1>2, <1>3, <3>1 DEF Whole
  <2>2. CASE item.file # t[1].file
    BY <1>2, <1>3, <1>4, <2>2
  <2> QED BY <2>1, <2>2
<1>6. ASSUME NEW f \in Files, g[f] # Absent PROVE \E item \in I : item.file = f
  BY <1>1, <1>2, <1>4, <1>6
<1>7. ASSUME NEW i \in DOMAIN t
      PROVE  g[t[i].file] = IF TRUE /\ i = 1 THEN Torn ELSE Absent
  BY <1>1, <1>2, <1>4
<1> QED BY <1>1, <1>2, <1>5, <1>6, <1>7 DEF Filled, I, g

(* ... and filling it bring the owner one file further.                    *)
LEMMA FillFills ==
  ASSUME NEW D, NEW t, NEW files, DOMAIN files = Files, Lasting(D),
         Filled(t, TRUE, files, D)
  PROVE  Filled(Tail(t), FALSE, [files EXCEPT ![Head(t).file] = Head(t).body], D)
<1> DEFINE g == [files EXCEPT ![Head(t).file] = Head(t).body]
           I == Items(D)
           u == Tail(t)
<1>1. /\ t \in Seq(I) /\ t # <<>> /\ 1 \in DOMAIN t /\ Head(t) = t[1] /\ Writable(t[1])
      /\ \A i \in DOMAIN t : t[i] \in I /\ t[i].file \in Files
  BY DEF Filled, Lasting
<1>2. /\ \A item \in I : (\E i \in DOMAIN t : t[i] = item)
                         \/ (files[item.file] = item.body /\ Writable(item))
      /\ \A f \in Files : files[f] # Absent => \E item \in I : item.file = f
      /\ \A i \in DOMAIN t : files[t[i].file] = IF i = 1 THEN Torn ELSE Absent
      /\ \A i, j \in DOMAIN t : t[i].file = t[j].file => i = j
  BY DEF Filled
<1>3. \A item \in I : item.file \in Files /\ Whole(item.body)
  BY DEF Lasting
<1> HIDE DEF I
<1>4. \A f \in Files : g[f] = IF f = t[1].file THEN t[1].body ELSE files[f]
  BY <1>1
<1>t. /\ u \in Seq(I) /\ Len(t) \in Nat \ {0} /\ DOMAIN t = 1..Len(t)
      /\ DOMAIN u = 1..(Len(t) - 1) /\ \A i \in DOMAIN u : u[i] = t[i + 1]
  BY <1>1
<1> HIDE DEF g, u
<1>i. /\ \A i \in DOMAIN u : i + 1 \in DOMAIN t /\ i + 1 # 1 /\ u[i] = t[i + 1]
      /\ \A i \in DOMAIN t : i # 1 => i - 1 \in DOMAIN u /\ u[i - 1] = t[i]
  BY <1>t
<1>5. ASSUME NEW item \in I
      PROVE  (\E i \in DOMAIN u : u[i] = item) \/ (g[item.file] = item.body /\ Writable(item))
  <2>1. CASE item = t[1]
    BY <1>1, <1>4, <2>1
  <2>2. CASE \E i \in DOMAIN t : i # 1 /\ t[i] = item
    BY <1>i, <2>2
  <2>3. CASE files[item.file] = item.body /\ Writable(item)
    <3>1. item.file # t[1].file
      BY <1>1, <1>2, <1>3, <2>3 DEF Whole
    <3> QED BY <1>3, <1>4, <2>3, <3>1
  <2> QED BY <1>2, <2>1, <2>2, <2>3
<1>6. ASSUME NEW f \in Files, g[f] # Absent PROVE \E item \in I : item.file = f
  BY <1>1, <1>2, <1>4, <1>6
<1>7. ASSUME NEW i \in DOMAIN u
      PROVE  g[u[i].file] = Absent
  <2>1. t[i + 1].file # t[1].file /\ files[t[i + 1].file] = Absent
    BY <1>1, <1>2, <1>i
  <2> QED BY <1>1, <1>4, <1>i, <2>1
<1>8. ASSUME NEW i \in DOMAIN u, NEW j \in DOMAIN u, u[i].file = u[j].file PROVE i = j
  <2>1. i + 1 = j + 1
    BY <1>2, <1>8, <1>i
  <2>2. i \in Int /\ j \in Int
    BY <1>t
  <2> QED BY <2>1, <2>2
<1>9. Filled(u, FALSE, g, D)
  BY <1>t, <1>5, <1>6, <1>7, <1>8 DEF Filled, I
<1> QED BY <1>9 DEF u, g

(* The config goes to files of its own, ...                                *)
LEMMA LastingConfig ==
  ASSUME NEW c
  PROVE  Lasting({ConfigDoc(c)})
<1> SUFFICES ASSUME NEW item \in Items({ConfigDoc(c)})
             PROVE  item.file \in Files /\ Whole(item.body)
  BY DEF Lasting
<1>1. item.file \in Files
  BY ConfigItem
<1>2. item.body = ConfigDoc(c).body
  BY ItemOf
<1>3. ConfigDoc(c).body.kind = "config" /\ Absent.kind = "absent" /\ Torn.kind = "torn"
  BY DEF ConfigDoc, Document, Absent, Torn
<1> QED BY <1>1, <1>2, <1>3 DEF Whole

(* ... and so do the documents of an outcome.                              *)
LEMMA LastingDocuments ==
  ASSUME NEW r, NEW o, Streamed(o)
  PROVE  Lasting(ToSet(Documents(r, o)))
<1> SUFFICES ASSUME NEW item \in Items(ToSet(Documents(r, o)))
             PROVE  item.file \in Files /\ Whole(item.body)
  BY DEF Lasting
<1>1. item.file \in Files
  BY OutputItem
<1>2. PICK doc \in ToSet(Documents(r, o)) : item.body = doc.body
  BY ItemOf
<1> QED BY <1>1, <1>2, DocumentsWhole

(* The owner starts with an empty directory and the config to write, ...   *)
LEMMA OpenFills ==
  ASSUME NEW c, NEW files, \A f \in Files : files[f] = Absent
  PROVE  Filled(FilesOf(<<ConfigDoc(c)>>), FALSE, files, {ConfigDoc(c)})
<1> DEFINE e == ConfigDoc(c)
           d == <<e>>
           D == {e}
           t == FilesOf(d)
<1>l. \A item \in Items(D) : item.file \in Files
  BY LastingConfig DEF Lasting
<1> HIDE DEF e
<1>1. d \in Seq(D) /\ DOMAIN d = {1} /\ d[1] = e
  OBVIOUS
<1> HIDE DEF d
<1>2. t \in Seq(Items(D))
  BY <1>1, FilesTyped
<1>3. /\ \A k \in DOMAIN d : \A kind \in {"data", "sidecar"} :
            \E i \in DOMAIN t : t[i] = Item(d[k], kind)
      /\ \A i, j \in DOMAIN t : t[i].file = t[j].file => i = j
  BY <1>1, FilesOfAll
<1> HIDE DEF t
<1>4. ASSUME NEW item \in Items(D) PROVE \E i \in DOMAIN t : t[i] = item
  <2>1. \E kind \in {"data", "sidecar"} : item = Item(e, kind)
    BY DEF Items, D
  <2> QED BY <1>1, <1>3, <2>1
<1>5. \A i \in DOMAIN t : t[i] \in Items(D)
  BY <1>2
<1> HIDE DEF D
<1>6. Filled(t, FALSE, files, D)
  BY <1>l, <1>2, <1>3, <1>4, <1>5 DEF Filled
<1> QED BY <1>6 DEF t, d, D, e

(* ... and goes on, with the config written, to the documents of its       *)
(* outcome.                                                                *)
LEMMA ExecuteFills ==
  ASSUME NEW r, NEW o, Streamed(o), NEW files,
         Filled(<<>>, FALSE, files, {ConfigDoc(input[r])})
  PROVE  Filled(FilesOf(Tail(Documents(r, o))), FALSE, files, ToSet(Documents(r, o)))
<1> DEFINE d == Documents(r, o)
           D == ToSet(d)
           C == {ConfigDoc(input[r])}
           u == Tail(d)
           t == FilesOf(u)
<1>1. /\ d \in Seq(D) /\ Len(d) \in Nat \ {0} /\ DOMAIN d = 1..Len(d)
      /\ d[1] = ConfigDoc(input[r])
  <2>1. /\ Len(Outputs(r, o)) \in Nat \ {0} /\ Len(d) = Len(Outputs(r, o)) + 1
        /\ DOMAIN d = 1..(Len(Outputs(r, o)) + 1)
        /\ d \in Seq(D) /\ d[1] = ConfigDoc(input[r])
    BY DocumentsShape
  <2> HIDE DEF d
  <2> QED BY <2>1
<1>2. \A i, j \in DOMAIN d : d[i].path = d[j].path => i = j
  BY NamesDiffer
<1>3. \A item \in Items(C) : files[item.file] = item.body /\ Writable(item)
  BY DEF Filled
<1>4. \A f \in Files : files[f] # Absent => \E item \in Items(C) : item.file = f
  BY DEF Filled
<1>5. \A item \in Items(D) : item.file \in Files
  BY LastingDocuments DEF Lasting
<1>6. \A k \in DOMAIN d : d[k] \in D
  BY DEF ToSet
<1>7. \A doc \in D : \E k \in DOMAIN d : doc = d[k]
  BY DEF ToSet
<1> HIDE DEF d, D
<1>8. /\ u \in Seq(D) /\ DOMAIN u = 1..(Len(d) - 1)
      /\ \A i \in DOMAIN u : i + 1 \in DOMAIN d /\ u[i] = d[i + 1]
      /\ \A i \in DOMAIN d : i # 1 => i - 1 \in DOMAIN u /\ u[i - 1] = d[i]
  <2>1. d # <<>>
    BY <1>1
  <2>2. u \in Seq(D) /\ Len(u) = Len(d) - 1 /\ \A i \in 1..(Len(d) - 1) : u[i] = d[i + 1]
    BY <1>1, <2>1
  <2>3. DOMAIN u = 1..(Len(d) - 1)
    BY <1>1, <2>2
  <2> HIDE DEF u
  <2> QED BY <1>1, <2>2, <2>3
<1> HIDE DEF u
<1>9. \A i, j \in DOMAIN u : u[i].path = u[j].path => i = j
  <2> TAKE i, j \in DOMAIN u
  <2> HAVE u[i].path = u[j].path
  <2>1. i + 1 = j + 1 /\ i \in Int /\ j \in Int
    BY <1>1, <1>2, <1>8
  <2> QED BY <2>1
<1>10. /\ \A k \in DOMAIN u : \A kind \in {"data", "sidecar"} :
             \E i \in DOMAIN t : t[i] = Item(u[k], kind)
       /\ \A i \in DOMAIN t : \E k \in DOMAIN u : \E kind \in {"data", "sidecar"} :
             t[i] = Item(u[k], kind)
       /\ \A i, j \in DOMAIN t : t[i].file = t[j].file => i = j
  <2> DEFINE S == D
  <2>1. u \in Seq(S)
    BY <1>8
  <2> HIDE DEF S
  <2> QED BY <1>9, <2>1, FilesOfAll
<1>11. t \in Seq(Items(D))
  BY <1>8, FilesTyped
<1> HIDE DEF t
<1>12. ASSUME NEW item \in Items(D)
       PROVE  (\E i \in DOMAIN t : t[i] = item)
              \/ (files[item.file] = item.body /\ Writable(item))
  <2>1. PICK doc \in D : \E kind \in {"data", "sidecar"} : item = Item(doc, kind)
    BY DEF Items
  <2>2. PICK kind \in {"data", "sidecar"} : item = Item(doc, kind)
    BY <2>1
  <2>3. PICK k \in DOMAIN d : doc = d[k]
    BY <1>7
  <2>4. CASE k = 1
    <3>1. item \in Items(C)
      BY <1>1, <2>2, <2>3, <2>4, ItemIn
    <3> QED BY <1>3, <3>1
  <2>5. CASE k # 1
    <3>1. k - 1 \in DOMAIN u /\ u[k - 1] = d[k]
      BY <1>8, <2>5
    <3> QED BY <1>10, <2>2, <2>3, <3>1
  <2> QED BY <2>4, <2>5
<1>13. ASSUME NEW f \in Files, files[f] # Absent
       PROVE  \E item \in Items(D) : item.file = f
  <2>1. PICK item \in Items(C) : item.file = f
    BY <1>4, <1>13
  <2>2. PICK kind \in {"data", "sidecar"} : item = Item(d[1], kind)
    BY <1>1 DEF Items
  <2>3. d[1] \in D
    BY <1>1, <1>6
  <2>4. item \in Items(D)
    BY <2>2, <2>3, ItemIn
  <2> QED BY <2>1, <2>4
<1>14. ASSUME NEW i \in DOMAIN t PROVE files[t[i].file] = Absent
  <2>1. PICK k \in DOMAIN u, kind \in {"data", "sidecar"} : t[i] = Item(u[k], kind)
    BY <1>10
  <2>2. u[k] = d[k + 1] /\ k + 1 \in DOMAIN d /\ k + 1 # 1 /\ 1 \in DOMAIN d
    BY <1>1, <1>8
  <2>3. u[k].path # ConfigDoc(input[r]).path
    BY <1>1, <1>2, <2>2
  <2>4. t[i].file = <<u[k].path, kind>>
    BY <2>1 DEF Item
  <2>5. ASSUME NEW item \in Items(C) PROVE item.file # t[i].file
    <3>1. PICK kk \in {"data", "sidecar"} : item.file = <<ConfigDoc(input[r]).path, kk>>
      BY ItemOf
    <3> DEFINE a == ConfigDoc(input[r]).path
               b == u[k].path
    <3>2. a # b /\ item.file = <<a, kk>> /\ t[i].file = <<b, kind>>
      BY <2>3, <2>4, <3>1
    <3> HIDE DEF a, b
    <3> QED BY <3>2
  <2>6. t[i].file \in Files
    BY <1>5, <1>11
  <2> QED BY <1>4, <2>5, <2>6
<1>15. Filled(t, FALSE, files, D)
  BY <1>10, <1>11, <1>12, <1>13, <1>14 DEF Filled
<1> QED BY <1>15 DEF t, u, D, d

OwnDocs(r) ==
  IF pc[r] = "opening" THEN {ConfigDoc(input[r])} ELSE ToSet(Documents(r, outcome[r]))

Active == {"opening", "sealing"}

(* What holds of a runner by where it is.                                  *)
Progress(r) ==
  /\ pc[r] \in Active \cup {"sealed"} => owner = r
  /\ pc[r] \in Active \cup {"prepared", "absent", "sealed"} => ProducerBound(r)
  /\ pc[r] \in Active \/ (pc[r] = "sealed" /\ ~crashed)
       => Filled(todo[r], pen[r], disk, OwnDocs(r))
  /\ pc[r] \in {"sealing", "sealed"} => outcome[r] \in Executions(r, input[r])
  /\ pc[r] = "sealed" => todo[r] = <<>>
  /\ pc[r] = "failed" => ~Encodable(outcome[r].semantic)
  /\ pc[r] \notin Active => pen[r] = FALSE

ProgressInv ==
  /\ planned \in Plans
  /\ pen \in [Runners -> BOOLEAN]
  /\ \A r \in Runners : Progress(r)
  /\ owner = NoRunner => \A f \in Files : disk[f] = Absent

(* At first nothing has been written.                                      *)
LEMMA InitProgress == Init => ProgressInv
<1> SUFFICES ASSUME Init PROVE ProgressInv
  OBVIOUS
<1>1. pen \in [Runners -> BOOLEAN]
  BY DEF Init
<1>2. \A r \in Runners : pc[r] = "fresh" /\ pen[r] = FALSE
  BY DEF Init
<1>3. \A f \in Files : disk[f] = Absent
  BY DEF Init
<1>4. planned \in Plans
  BY DEF Init
<1> QED BY <1>1, <1>2, <1>3, <1>4 DEF ProgressInv, Progress, Active

(* A runner that is where it was, and whose files are as they were.        *)
LEMMA StillProgress ==
  ASSUME UNCHANGED <<input, installed>>, NEW r \in Runners, Progress(r),
         pc'[r] = pc[r], todo'[r] = todo[r], outcome'[r] = outcome[r],
         pen'[r] = pen[r],
         owner' = owner \/ pc[r] \notin Active \cup {"sealed"},
         disk' = disk \/ pc[r] \notin Active \cup {"sealed"},
         crashed' = crashed
  PROVE  Progress(r)'
<1>1. OwnDocs(r)' = OwnDocs(r)
  BY SameDocuments DEF OwnDocs
<1>2. ProducerBound(r)' = ProducerBound(r)
  BY DEF ProducerBound
<1>3. pc'[r] \in Active \/ (pc'[r] = "sealed" /\ ~crashed')
        => Filled(todo'[r], pen'[r], disk', OwnDocs(r)')
  <2> SUFFICES ASSUME pc[r] \in Active \/ (pc[r] = "sealed" /\ ~crashed)
               PROVE  Filled(todo'[r], pen'[r], disk', OwnDocs(r)')
    OBVIOUS
  <2>1. Filled(todo[r], pen[r], disk, OwnDocs(r))
    BY DEF Progress
  <2>2. disk' = disk
    OBVIOUS
  <2> QED BY <1>1, <2>1, <2>2
<1> QED BY <1>2, <1>3, Zenon DEF Progress

(* What the documents of an active runner are worth.                       *)
LEMMA OwnLasting ==
  ASSUME NEW r \in Runners, Progress(r), pc[r] \in Active
  PROVE  Lasting(OwnDocs(r))
<1>1. CASE pc[r] = "opening"
  BY <1>1, LastingConfig DEF OwnDocs
<1>2. CASE pc[r] = "sealing"
  <2>1. Streamed(outcome[r])
    BY <1>2, ExecutionStreams DEF Progress
  <2> QED BY <1>2, <2>1, LastingDocuments DEF OwnDocs
<1> QED BY <1>1, <1>2 DEF Active

(* Every step keeps a runner's own state in line with the disk, ...        *)
LEMMA StepProgress ==
  ASSUME Types, ProgressInv, [Next]_vars, NEW r \in Runners
  PROVE  Progress(r)'
<1> USE DEF runVars, reviewVars
<1>0. UNCHANGED <<input, installed>> /\ Progress(r)
  BY Fixed DEF ProgressInv
<1>t. /\ pc \in [Runners -> Stages] /\ owner \in Runners \cup {NoRunner}
      /\ DOMAIN outcome = Runners /\ DOMAIN todo = Runners /\ DOMAIN disk = Files
      /\ pen \in [Runners -> BOOLEAN] /\ NoRunner \notin Runners
  BY BundleAssumption DEF Types, ProgressInv
<1>b. ProducerBound(r)' = ProducerBound(r)
  BY <1>0 DEF ProducerBound
<1>1. ASSUME NEW s \in Runners, RunnerStep(s) PROVE Progress(r)'
  <2>1. CASE Prepare(s) \/ CheckAbsent(s) \/ MakeDirectoryRefused(s)
    <3>1. /\ UNCHANGED <<todo, outcome, owner, pen, disk, crashed>>
          /\ s # r => pc'[r] = pc[r]
          /\ s = r => /\ pc'[r] \in {"prepared", "absent", "refused"} /\ pc[r] \notin Active
                      /\ pc'[r] # "refused" => ProducerBound(r)
      BY <1>0, <1>t, <2>1 DEF Prepare, CheckAbsent, MakeDirectoryRefused, Move, Active,
         Progress
    <3>2. CASE s # r
      BY <1>0, <3>1, <3>2, StillProgress
    <3>3. CASE s = r
      <4>1. pc'[r] \in {"prepared", "absent", "refused"} /\ pen'[r] = FALSE
        BY <1>0, <3>1, <3>3 DEF Progress
      <4>2. pc'[r] # "refused" => ProducerBound(r)'
        BY <1>b, <3>1, <3>3
      <4> QED BY <4>1, <4>2 DEF Progress, Active
    <3> QED BY <3>2, <3>3
  <2>2. CASE MakeDirectory(s)
    <3>1. /\ owner = NoRunner /\ owner' = s /\ UNCHANGED <<outcome, pen, disk, crashed>>
          /\ pc[s] = "absent" /\ pc' = [pc EXCEPT ![s] = "opening"]
          /\ todo' = [todo EXCEPT ![s] = FilesOf(<<ConfigDoc(input[s])>>)]
      BY <2>2 DEF MakeDirectory, Move
    <3>2. CASE s # r
      <4>1. pc[r] \notin Active \cup {"sealed"}
        BY <1>0, <1>t, <3>1 DEF Progress
      <4>2. pc'[r] = pc[r] /\ todo'[r] = todo[r]
        BY <1>t, <3>1, <3>2
      <4> QED BY <1>0, <3>1, <4>1, <4>2, StillProgress
    <3>3. CASE s = r
      <4>1. pc'[r] = "opening" /\ todo'[r] = FilesOf(<<ConfigDoc(input[r])>>) /\ owner' = r
        BY <1>t, <3>1, <3>3
      <4>2. pen'[r] = FALSE
        BY <1>0, <3>1, <3>3 DEF Progress, Active
      <4>3. \A f \in Files : disk[f] = Absent
        BY <3>1 DEF ProgressInv
      <4>4. OwnDocs(r)' = {ConfigDoc(input[r])}
        BY <1>0, <4>1 DEF OwnDocs
      <4>5. Filled(todo'[r], pen'[r], disk', OwnDocs(r)')
        BY <3>1, <4>1, <4>2, <4>3, <4>4, OpenFills
      <4>6. ProducerBound(r)'
        BY <1>0, <1>b, <3>1, <3>3 DEF Progress
      <4> QED BY <4>1, <4>5, <4>6 DEF Progress, Active
    <3> QED BY <3>2, <3>3
  <2>3. CASE Execute(s)
    <3>1. PICK o \in Executions(s, input[s]) :
            /\ todo[s] = <<>> /\ pc[s] = "opening" /\ pc' = [pc EXCEPT ![s] = "sealing"]
            /\ outcome' = [outcome EXCEPT ![s] = o]
            /\ todo' = [todo EXCEPT ![s] = FilesOf(Tail(Documents(s, o)))]
            /\ UNCHANGED <<pen, owner, disk, crashed>>
      BY <2>3 DEF Execute, Move
    <3>2. CASE s # r
      <4>1. pc'[r] = pc[r] /\ todo'[r] = todo[r] /\ outcome'[r] = outcome[r]
        BY <1>t, <3>1, <3>2
      <4> QED BY <1>0, <3>1, <4>1, StillProgress
    <3>3. CASE s = r
      <4>1. /\ pc'[r] = "sealing" /\ outcome'[r] = o
            /\ todo'[r] = FilesOf(Tail(Documents(r, o)))
        BY <1>t, <3>1, <3>3
      <4>2. owner = r /\ ProducerBound(r) /\ Filled(todo[r], pen[r], disk, {ConfigDoc(input[r])})
        BY <1>0, <3>1, <3>3 DEF Progress, Active, OwnDocs
      <4>3. pen[r] = FALSE /\ Filled(<<>>, FALSE, disk, {ConfigDoc(input[r])})
        <5>1. pen[r] = FALSE
          BY <1>t, <3>1, <3>3, <4>2 DEF Filled
        <5> QED BY <3>1, <3>3, <4>2, <5>1
      <4>4. Streamed(o)
        BY <3>3, ExecutionStreams
      <4>5. Filled(FilesOf(Tail(Documents(r, o))), FALSE, disk, ToSet(Documents(r, o)))
        BY <4>3, <4>4, ExecuteFills
      <4>6. OwnDocs(r)' = ToSet(Documents(r, o))
        <5>1. Documents(r, o)' = Documents(r, o)
          BY <1>0, SameDocuments
        <5>2. OwnDocs(r)' = ToSet(Documents(r, o)')
          BY <4>1 DEF OwnDocs
        <5> QED BY <5>1, <5>2
      <4>7. Filled(todo'[r], pen'[r], disk', OwnDocs(r)')
        BY <3>1, <4>1, <4>3, <4>5, <4>6
      <4>8. outcome'[r] \in Executions(r, input'[r])
        BY <1>0, <3>1, <3>3, <4>1
      <4> QED BY <1>b, <3>1, <4>1, <4>2, <4>7, <4>8 DEF Progress, Active
    <3> QED BY <3>2, <3>3
  <2>4. CASE Create(s)
    <3>1. /\ Busy(s) /\ ~pen[s] /\ disk[Head(todo[s]).file] = Absent /\ Writable(Head(todo[s]))
          /\ disk' = [disk EXCEPT ![Head(todo[s]).file] = Torn]
          /\ pen' = [pen EXCEPT ![s] = TRUE]
          /\ UNCHANGED <<pc, outcome, todo, owner, crashed>>
      BY <2>4 DEF Create
    <3>2. pc[s] \in Active /\ todo[s] # <<>> /\ owner = s
      BY <3>1 DEF Busy, Active, ProgressInv, Progress
    <3>3. CASE s # r
      <4>1. pc[r] \notin Active \cup {"sealed"}
        BY <1>0, <3>2, <3>3 DEF Progress
      <4>2. pen'[r] = pen[r]
        BY <1>t, <3>1, <3>3
      <4> QED BY <1>0, <3>1, <4>1, <4>2, StillProgress
    <3>4. CASE s = r
      <4>1. pen[r] = FALSE /\ pen'[r] = TRUE
        BY <1>t, <3>1, <3>4
      <4>2. Filled(todo[r], FALSE, disk, OwnDocs(r)) /\ Lasting(OwnDocs(r))
        BY <1>0, <3>2, <3>4, <4>1, OwnLasting DEF Progress
      <4>3. Filled(todo[r], TRUE, disk', OwnDocs(r))
        BY <1>t, <3>1, <3>2, <3>4, <4>2, CreateFills
      <4>4. OwnDocs(r)' = OwnDocs(r)
        BY <1>0, <3>1, SameDocuments DEF OwnDocs
      <4>5. Filled(todo'[r], pen'[r], disk', OwnDocs(r)')
        BY <3>1, <4>1, <4>3, <4>4
      <4> QED BY <1>0, <1>b, <3>1, <3>2, <3>4, <4>5 DEF Progress, Active
    <3> QED BY <3>3, <3>4
  <2>5. CASE Fill(s)
    <3>1. /\ Busy(s) /\ pen[s]
          /\ disk' = [disk EXCEPT ![Head(todo[s]).file] = Head(todo[s]).body]
          /\ pen' = [pen EXCEPT ![s] = FALSE]
          /\ todo' = [todo EXCEPT ![s] = Tail(todo[s])]
          /\ UNCHANGED <<pc, outcome, owner, crashed>>
      BY <2>5 DEF Fill
    <3>2. pc[s] \in Active /\ todo[s] # <<>> /\ owner = s
      BY <3>1 DEF Busy, Active, ProgressInv, Progress
    <3>3. CASE s # r
      <4>1. pc[r] \notin Active \cup {"sealed"}
        BY <1>0, <3>2, <3>3 DEF Progress
      <4>2. pen'[r] = pen[r] /\ todo'[r] = todo[r]
        BY <1>t, <3>1, <3>3
      <4> QED BY <1>0, <3>1, <4>1, <4>2, StillProgress
    <3>4. CASE s = r
      <4>1. pen[r] = TRUE /\ pen'[r] = FALSE /\ todo'[r] = Tail(todo[r])
        BY <1>t, <3>1, <3>4
      <4>2. Filled(todo[r], TRUE, disk, OwnDocs(r)) /\ Lasting(OwnDocs(r))
        BY <1>0, <3>2, <3>4, <4>1, OwnLasting DEF Progress
      <4>3. Filled(Tail(todo[r]), FALSE, disk', OwnDocs(r))
        BY <1>t, <3>1, <3>4, <4>2, FillFills
      <4>4. OwnDocs(r)' = OwnDocs(r)
        BY <1>0, <3>1, SameDocuments DEF OwnDocs
      <4>5. Filled(todo'[r], pen'[r], disk', OwnDocs(r)')
        BY <4>1, <4>3, <4>4
      <4> QED BY <1>0, <1>b, <3>1, <3>2, <3>4, <4>5 DEF Progress, Active
    <3> QED BY <3>3, <3>4
  <2>6. CASE Abandon(s)
    <3>1. /\ Busy(s) /\ ~pen[s] /\ pc' = [pc EXCEPT ![s] = "failed"]
          /\ disk[Head(todo[s]).file] # Absent \/ ~Writable(Head(todo[s]))
          /\ UNCHANGED <<outcome, todo, pen, owner, disk, crashed>>
      BY <2>6 DEF Abandon
    <3>2. CASE s # r
      <4>1. pc'[r] = pc[r]
        BY <1>t, <3>1, <3>2
      <4> QED BY <1>0, <3>1, <4>1, StillProgress
    <3>3. CASE s = r
      <4>1. pc[r] \in Active /\ todo[r] # <<>> /\ pen[r] = FALSE /\ pc'[r] = "failed"
        BY <1>t, <3>1, <3>3 DEF Busy, Active
      <4>2. Filled(todo[r], FALSE, disk, OwnDocs(r))
        BY <1>0, <4>1 DEF Progress
      <4>3. 1 \in DOMAIN todo[r] /\ Head(todo[r]) = todo[r][1] /\ todo[r][1] \in Items(OwnDocs(r))
            /\ disk[todo[r][1].file] = Absent
        BY <4>1, <4>2 DEF Filled
      <4>4. ~Writable(Head(todo[r]))
        BY <3>1, <3>3, <4>3
      <4>5. pc[r] # "opening"
        <5> SUFFICES ASSUME pc[r] = "opening" PROVE FALSE
          OBVIOUS
        <5>1. Head(todo[r]).body = ConfigDoc(input[r]).body
          BY <4>3, ItemOf DEF OwnDocs
        <5> QED BY <4>4, <5>1 DEF Writable, ConfigDoc, Document
      <4>6. pc[r] = "sealing" /\ outcome[r] \in Executions(r, input[r])
        BY <1>0, <4>1, <4>5 DEF Active, Progress
      <4>7. ~Encodable(outcome[r].semantic)
        BY <4>3, <4>4, <4>6, WritableDocs DEF OwnDocs
      <4> QED BY <3>1, <4>1, <4>7 DEF Progress, Active
    <3> QED BY <3>2, <3>3
  <2>7. CASE Finish(s)
    <3>1. /\ todo[s] = <<>> /\ pc[s] = "sealing" /\ pc' = [pc EXCEPT ![s] = "sealed"]
          /\ UNCHANGED <<outcome, todo, pen, owner, disk, crashed>>
      BY <2>7 DEF Finish, Move
    <3>2. CASE s # r
      <4>1. pc'[r] = pc[r]
        BY <1>t, <3>1, <3>2
      <4> QED BY <1>0, <3>1, <4>1, StillProgress
    <3>3. CASE s = r
      <4>1. pc'[r] = "sealed" /\ pc[r] = "sealing" /\ todo[r] = <<>>
        BY <1>t, <3>1, <3>3
      <4>2. Filled(todo[r], pen[r], disk, OwnDocs(r))
        BY <1>0, <4>1 DEF Progress, Active
      <4>3. pen[r] = FALSE
        BY <1>t, <4>1, <4>2 DEF Filled
      <4>4. OwnDocs(r)' = OwnDocs(r)
        BY <1>0, <3>1, <4>1, SameDocuments DEF OwnDocs
      <4>5. Filled(todo'[r], pen'[r], disk', OwnDocs(r)')
        BY <3>1, <4>2, <4>4
      <4>6. owner = r /\ ProducerBound(r) /\ outcome[r] \in Executions(r, input[r])
        BY <1>0, <4>1 DEF Progress, Active
      <4> QED BY <1>0, <1>b, <3>1, <4>1, <4>3, <4>5, <4>6 DEF Progress, Active
    <3> QED BY <3>2, <3>3
  <2>8. CASE Stop(s)
    <3>1. /\ pc[s] \in Active /\ pc' = [pc EXCEPT ![s] = "stopped"]
          /\ pen' = [pen EXCEPT ![s] = FALSE]
          /\ UNCHANGED <<outcome, todo, owner, disk, crashed>>
      BY <2>8 DEF Stop, Active
    <3>2. CASE s # r
      <4>1. pc'[r] = pc[r] /\ pen'[r] = pen[r]
        BY <1>t, <3>1, <3>2
      <4> QED BY <1>0, <3>1, <4>1, StillProgress
    <3>3. CASE s = r
      <4>1. pc'[r] = "stopped" /\ pen'[r] = FALSE
        BY <1>t, <3>1, <3>3
      <4> QED BY <4>1 DEF Progress, Active
    <3> QED BY <3>2, <3>3
  <2> QED BY <1>1, <2>1, <2>2, <2>3, <2>4, <2>5, <2>6, <2>7, <2>8 DEF RunnerStep
<1>2. CASE ReviewStep \/ UNCHANGED vars
  <2>1. UNCHANGED <<pc, outcome, todo, pen, owner, disk, crashed>>
    BY <1>2 DEF ReviewStep, ReviewMove, VerifyRaw, Replay, MakeReviewDirectory,
       WriteReview, SignReview, ReviewerKilled, vars
  <2> QED BY <1>0, <2>1, StillProgress
<1>3. CASE HostCrash
  <2>1. /\ crashed' = TRUE /\ UNCHANGED <<outcome, todo, owner>>
        /\ pc'[r] = IF pc[r] \in Ended \cup {"fresh"} THEN pc[r] ELSE "stopped"
        /\ pen'[r] = FALSE
    BY <1>3 DEF HostCrash
  <2>2. /\ pc'[r] \notin Active \cup {"prepared", "absent", "sealing"}
        /\ pc'[r] \in {"sealed", "failed"} => pc'[r] = pc[r]
    BY <2>1 DEF Ended, Active
  <2>3. pc'[r] = "sealed" => /\ owner' = r /\ ProducerBound(r)' /\ todo'[r] = <<>>
                             /\ outcome'[r] \in Executions(r, input'[r])
    <3> SUFFICES ASSUME pc'[r] = "sealed"
                 PROVE  /\ owner' = r /\ ProducerBound(r)' /\ todo'[r] = <<>>
                        /\ outcome'[r] \in Executions(r, input'[r])
      OBVIOUS
    <3>1. pc[r] = "sealed"
      BY <2>2
    <3>2. /\ owner = r /\ ProducerBound(r) /\ todo[r] = <<>>
          /\ outcome[r] \in Executions(r, input[r])
      BY <1>0, <3>1 DEF Progress, Active
    <3> QED BY <1>0, <1>b, <2>1, <3>2
  <2>4. pc'[r] = "failed" => ~Encodable(outcome'[r].semantic)
    BY <1>0, <2>1, <2>2 DEF Progress
  <2> QED BY <2>1, <2>2, <2>3, <2>4 DEF Progress, Active
<1> QED BY <1>1, <1>2, <1>3 DEF Next

(* ... and leaves the disk empty while nobody owns the directory.          *)
LEMMA StepProgressInv ==
  ASSUME Types, ProgressInv, [Next]_vars
  PROVE  ProgressInv'
<1> USE DEF runVars, reviewVars
<1>1. \A r \in Runners : Progress(r)'
  BY StepProgress
<1>2. pen' \in [Runners -> BOOLEAN]
  BY DEF ProgressInv, Next, vars, RunnerStep, ReviewStep, HostCrash, ReviewMove,
     Prepare, CheckAbsent, MakeDirectory, MakeDirectoryRefused, Execute, Move,
     Create, Abandon, Fill, Finish, Stop, VerifyRaw, Replay, MakeReviewDirectory,
     WriteReview, SignReview, ReviewerKilled
<1>3. ASSUME owner' = NoRunner PROVE \A f \in Files : disk'[f] = Absent
  <2>1. owner = NoRunner /\ ~HostCrash
    BY <1>3, BundleAssumption DEF Next, vars, RunnerStep, ReviewStep, HostCrash, ReviewMove,
     Prepare, CheckAbsent, MakeDirectory, MakeDirectoryRefused, Execute, Move,
     Create, Abandon, Fill, Finish, Stop, VerifyRaw, Replay, MakeReviewDirectory,
     WriteReview, SignReview, ReviewerKilled
  <2>2. \A s \in Runners : ~Busy(s)
    BY <2>1, BundleAssumption DEF ProgressInv, Progress, Busy, Active
  <2>3. disk' = disk
    <3>1. ASSUME NEW s \in Runners, RunnerStep(s) PROVE disk' = disk
      <4>1. ~Create(s) /\ ~Fill(s)
        BY <2>2 DEF Create, Fill
      <4> QED BY <3>1, <4>1 DEF RunnerStep, Prepare, CheckAbsent, MakeDirectory,
            MakeDirectoryRefused, Execute, Abandon, Finish, Stop
    <3>2. CASE ReviewStep
      BY <3>2 DEF ReviewStep, ReviewMove, VerifyRaw, Replay, MakeReviewDirectory,
         WriteReview, SignReview, ReviewerKilled
    <3> QED BY <2>1, <3>1, <3>2 DEF Next, vars
  <2> QED BY <2>1, <2>3 DEF ProgressInv
<1>4. planned' \in Plans
  BY Fixed DEF ProgressInv
<1> QED BY <1>1, <1>2, <1>3, <1>4 DEF ProgressInv

-----------------------------------------------------------------------------
(* The disk a sealed run leaves *)

(* All that a runner seals is on disk as long as the host does not crash,  *)
(* each document beside its sidecar, and nothing else is.                  *)
Complete(r, o) ==
  /\ \A doc \in ToSet(Documents(r, o)) :
       disk[<<doc.path, "data">>] = doc.body /\ disk[<<doc.path, "sidecar">>] = doc.body
  /\ \A p \in Paths :
       disk[<<p, "data">>] # Absent => \E doc \in ToSet(Documents(r, o)) : doc.path = p

LEMMA SealedDisk ==
  ASSUME ProgressInv, NEW r \in Runners, pc[r] = "sealed", ~crashed
  PROVE  /\ outcome[r] \in Executions(r, input[r]) /\ ProducerBound(r)
         /\ Encodable(outcome[r].semantic)
         /\ Complete(r, outcome[r])
<1> DEFINE o == outcome[r]
           D == ToSet(Documents(r, o))
<1>1. /\ Filled(todo[r], pen[r], disk, D) /\ todo[r] = <<>>
      /\ o \in Executions(r, input[r]) /\ ProducerBound(r)
  BY DEF ProgressInv, Progress, OwnDocs
<1>2. Streamed(o)
  BY <1>1, ExecutionStreams
<1>3. /\ \A item \in Items(D) : disk[item.file] = item.body /\ Writable(item)
      /\ \A f \in Files : disk[f] # Absent => \E item \in Items(D) : item.file = f
  BY <1>1 DEF Filled
<1>4. Encodable(o.semantic)
  BY <1>2, <1>3, UnwritableDoc
<1> HIDE DEF o, D
<1>5. ASSUME NEW doc \in D
      PROVE  disk[<<doc.path, "data">>] = doc.body /\ disk[<<doc.path, "sidecar">>] = doc.body
  <2>1. Item(doc, "data") \in Items(D) /\ Item(doc, "sidecar") \in Items(D)
    BY ItemIn
  <2>2. /\ Item(doc, "data").file = <<doc.path, "data">> /\ Item(doc, "data").body = doc.body
        /\ Item(doc, "sidecar").file = <<doc.path, "sidecar">> /\ Item(doc, "sidecar").body = doc.body
    BY DEF Item
  <2> QED BY <1>3, <2>1, <2>2
<1>6. ASSUME NEW p \in Paths, disk[<<p, "data">>] # Absent PROVE \E doc \in D : doc.path = p
  <2>1. <<p, "data">> \in Files
    BY DEF Files
  <2>2. PICK item \in Items(D) : item.file = <<p, "data">>
    BY <1>3, <1>6, <2>1
  <2>3. PICK doc \in D, kind \in {"data", "sidecar"} : item.file = <<doc.path, kind>>
    BY ItemOf
  <2> DEFINE a == doc.path
  <2>4. <<a, kind>> = <<p, "data">>
    BY <2>2, <2>3
  <2> HIDE DEF a
  <2>5. a = p
    BY <2>4
  <2> QED BY <2>5 DEF a
<1> QED BY <1>1, <1>4, <1>5, <1>6 DEF Complete, o, D

(* A document of a complete bundle passes verify_sidecar.                  *)
LEMMA CompleteSigned ==
  ASSUME NEW r, NEW o, Streamed(o), Complete(r, o), NEW doc \in ToSet(Documents(r, o))
  PROVE  Body(doc.path) = doc.body /\ Signed(doc.path)
<1>1. Whole(doc.body)
  BY DocumentsWhole
<1>2. disk[<<doc.path, "data">>] = doc.body /\ disk[<<doc.path, "sidecar">>] = doc.body
  BY DEF Complete
<1> QED BY <1>1, <1>2 DEF Body, Signed

(* The history of a manifest, event by event.                              *)
LEMMA ManifestLifecycle ==
  ASSUME NEW r, NEW o, Body("manifest") = ManifestOf(r, o).body
  PROVE  SealedLifecycle
<1> DEFINE m == ManifestOf(r, o).body
           h == m.lifecycle
           g == Running(r)
           a == Start(ConfigDoc(input[r]).body)
           e == LifecycleEvent(<<>>, "PLANNED", ConfigDoc(input[r]).body)
           x == Artifacts(Entries(Outputs(r, o)))
           f == LifecycleEvent(a, "RUNNING", Identity(installed[r]))
           z == LifecycleEvent(g, "SEALED", x)
<1>1. /\ m.input = ConfigDoc(input[r]).body /\ m.identity = Identity(installed[r])
      /\ m.artifacts = Entries(Outputs(r, o)) /\ h = Append(g, z)
  BY DEF ManifestOf, Manifest, Document, Advance
<1>2. g = Append(a, f) /\ a = <<e>>
  BY DEF Running, Advance, Start
<1>3. /\ e.evidence = ConfigDoc(input[r]).body /\ f.evidence = Identity(installed[r])
      /\ z.evidence = x /\ z.state = "SEALED"
  BY DEF LifecycleEvent
<1>4. Replays(h)
  BY ManifestHistory
<1>5. x = Artifacts(m.artifacts)
  BY <1>1
<1> HIDE DEF m, h, g, a, e, f, z, x
<1>6. a \in Seq({e}) /\ Len(a) = 1 /\ a[1] = e
  BY <1>2
<1>7. /\ g \in Seq({e} \cup {f}) /\ Len(g) = 1 + 1 /\ g[1] = e /\ g[1 + 1] = f
  <2>1. a \in Seq({e})
    BY <1>6
  <2>2. /\ Append(a, f) \in Seq({e} \cup {f}) /\ Len(Append(a, f)) = Len(a) + 1
        /\ \A i \in 1..Len(a) : Append(a, f)[i] = a[i]
        /\ Append(a, f)[Len(a) + 1] = f
    BY <2>1, AppendAt
  <2> QED BY <1>2, <1>6, <2>2
<1>8. Len(h) = 3 /\ h[1] = e /\ h[2] = f /\ h[3] = z
  <2> DEFINE S == {e} \cup {f}
  <2>1. g \in Seq(S) /\ Len(g) = 2 /\ g[1] = e /\ g[2] = f
    BY <1>7
  <2> HIDE DEF S
  <2>3. g \in Seq(S)
    BY <2>1
  <2>2. /\ Len(Append(g, z)) = Len(g) + 1
        /\ \A i \in 1..Len(g) : Append(g, z)[i] = g[i]
        /\ Append(g, z)[Len(g) + 1] = z
    BY <2>3, AppendAt
  <2> QED BY <1>1, <2>1, <2>2
<1>9. StateOf(h) = "SEALED"
  BY <1>3, <1>8 DEF StateOf
<1>10. Body("manifest") = m /\ m.lifecycle = h
  BY DEF m, h
<1> QED BY <1>1, <1>3, <1>4, <1>5, <1>8, <1>9, <1>10 DEF SealedLifecycle

(* What verify_raw_manifest and verify_failure_manifest have in common.    *)
LEMMA ManifestMatches ==
  ASSUME NEW r, NEW o, Streamed(o), Complete(r, o),
         input[r] = planned, ProducerBound(r)
  PROVE  LET d == Documents(r, o)
             n == Len(Outputs(r, o))
         IN  /\ Signed("manifest") /\ Body("manifest").decision = Decision(o)
             /\ IdentityExpected /\ EntriesMatch /\ SealedLifecycle
             /\ DOMAIN Bound = 1..n /\ DOMAIN d = 1..(n + 1) /\ n \in Nat
             /\ \A i \in 1..n : Bound[i] = Entry(d[i])
             /\ BoundPaths = {d[i].path : i \in 1..n}
             /\ \A i \in DOMAIN d : Body(d[i].path) = d[i].body /\ Signed(d[i].path)
<1> DEFINE d == Documents(r, o)
           x == Outputs(r, o)
           n == Len(x)
           m == ManifestOf(r, o)
<1>1. /\ n \in Nat \ {0} /\ DOMAIN x = 1..n /\ DOMAIN d = 1..(n + 1)
      /\ d[1] = ConfigDoc(input[r])
      /\ \A i \in 1..n : d[i] = x[i]
      /\ d[n + 1] = m
  BY DocumentsShape
<1>2. ASSUME NEW i \in DOMAIN d
      PROVE  Body(d[i].path) = d[i].body /\ Signed(d[i].path)
  <2>1. d[i] \in ToSet(d)
    BY DEF ToSet
  <2> QED BY <2>1, CompleteSigned
<1>3. \A i, j \in DOMAIN d : d[i].path = d[j].path => i = j
  BY NamesDiffer
<1>4. /\ m.path = "manifest" /\ m.body.artifacts = Entries(x) /\ m.body.decision = Decision(o)
      /\ m.body.input = ConfigDoc(input[r]).body /\ m.body.identity = Identity(installed[r])
  BY DEF ManifestOf, Manifest, Document
<1> HIDE DEF d, x, n, m
<1>5. Body("manifest") = m.body /\ Signed("manifest")
  <2>1. n + 1 \in DOMAIN d
    BY <1>1
  <2> QED BY <1>1, <1>2, <1>4, <2>1
<1>6. SealedLifecycle
  BY <1>5, ManifestLifecycle DEF m
<1>7. Bound = Entries(x)
  BY <1>4, <1>5 DEF Bound
<1>8. DOMAIN Bound = 1..n /\ \A i \in 1..n : Bound[i] = Entry(d[i])
  BY <1>1, <1>7 DEF Entries
<1>9. \A i \in 1..n : Bound[i].path = d[i].path /\ Bound[i].sha256 = d[i].body
  BY <1>8 DEF Entry
<1>10. EntriesMatch
  <2> DEFINE f == [i \in DOMAIN Bound |-> Bound[i].path]
  <2>1. DOMAIN f = 1..n /\ \A i \in 1..n : f[i] = d[i].path
    BY <1>8, <1>9
  <2> HIDE DEF f
  <2>2. \A i, j \in DOMAIN f : f[i] = f[j] => i = j
    BY <1>1, <1>3, <2>1
  <2>3. IsInjective(f)
    BY <2>2 DEF IsInjective
  <2>4. \A i \in DOMAIN Bound : Body(Bound[i].path) = Bound[i].sha256 /\ Signed(Bound[i].path)
    BY <1>1, <1>2, <1>8, <1>9
  <2> QED BY <2>3, <2>4 DEF EntriesMatch, f
<1>11. IdentityExpected
  <2>1. ConfigDoc(input[r]).path = "config" /\ ConfigDoc(input[r]).body = Expected.config
    BY DEF ConfigDoc, Document, Expected
  <2>2. 1 \in DOMAIN d /\ 1 \in DOMAIN Bound
    BY <1>1, <1>8
  <2>3. Signed("config") /\ Body("config") = Expected.config
    BY <1>1, <1>2, <2>1, <2>2
  <2>4. Bound[1].path = "config" /\ Bound[1].sha256 = Expected.config
    BY <1>1, <1>9, <2>1
  <2>5. Identity(installed[r]) = Expected.producer
    BY DEF ProducerBound, Expected
  <2> QED BY <1>4, <1>5, <2>1, <2>2, <2>3, <2>4, <2>5 DEF IdentityExpected
<1>12. BoundPaths = {d[i].path : i \in 1..n}
  BY <1>8, <1>9 DEF BoundPaths
<1> QED BY <1>1, <1>2, <1>4, <1>5, <1>6, <1>8, <1>10, <1>11, <1>12 DEF d, n, x

-----------------------------------------------------------------------------
(* What the reviewer makes of it *)

(* read_event_stream reads back the stream that was written.               *)
LEMMA StreamReadable ==
  ASSUME NEW p, NEW events, events # <<>>, \E S : events \in Seq(S),
         Body(p) = StreamDoc(p, events).body, Signed(p)
  PROVE  Payloads(p) = events /\ Readable(p)
<1>0. events = [i \in DOMAIN events |-> events[i]] /\ 1 \in DOMAIN events
  OBVIOUS
<1>1. Body(p).records = Chain(events)
  BY DEF StreamDoc, Document
<1>2. Payloads(p) = events
  BY <1>0, <1>1, ChainOf DEF Payloads
<1>3. Chain(events) # <<>>
  BY <1>0, ChainOf
<1> QED BY <1>1, <1>2, <1>3 DEF Readable

(* The terminal the manifest keeps of a stream is the stream.              *)
LEMMA TerminalOf ==
  ASSUME NEW p \in Streams, NEW events, \E S : events \in Seq(S)
  PROVE  Entry(StreamDoc(p, events)).terminal = events
<1>1. StreamDoc(p, events).path = p /\ StreamDoc(p, events).body.records = Chain(events)
  BY DEF StreamDoc, Document
<1>2. events = [i \in DOMAIN events |-> events[i]]
  OBVIOUS
<1> QED BY <1>1, <1>2, ChainOf DEF Entry

(* Only a run that completes is presentable, ...                           *)
LEMMA PresentableCompletes ==
  ASSUME NEW r, NEW c, NEW o \in Executions(r, c), Presentable(o)
  PROVE  Completes(r, c, o)
<1>p. /\ ~o.raised /\ Len(o.semantic) = 1 /\ o.semantic[1] # <<>>
      /\ Len(o.physical) <= 1 /\ \A i \in DOMAIN o.physical : o.physical[i] # <<>>
      /\ o.result.kind = "result" /\ Encodable(o.semantic)
  BY DEF Presentable
<1>1. CASE Raises(r, c, o)
  <2>1. \E x, y : o = Outcome(x, y, NoResult, TRUE)
    BY <1>1, Zenon DEF Raises
  <2>2. o.raised = TRUE
    BY <2>1 DEF Outcome
  <2> QED BY <1>p, <2>2
<1>2. CASE Strays(r, c, o)
  <2> DEFINE s == Semantic(r, 0, "done")
             p == PhysicalStreams(r, c, 0, 0, FALSE)
             good == Result(c, s, 0, "done")
             q == Physical(r, 0, 0, Receipts(c, 0, 0, FALSE))
  <2>0. p = <<>> \/ p = <<q>>
    BY PhysicalAre
  <2>1. \/ \E x \in {<<>>, <<<<>>>>, <<s, s>>, <<<<>>, s>>, <<<<Odd>>>>} :
             o = Outcome(x, p, good, FALSE)
        \/ o = Outcome(<<s>>, p, OtherResult, FALSE)
        \/ p # <<>> /\ \E x \in {<<<<>>>>, p \o p} : o = Outcome(<<s>>, x, good, FALSE)
    BY <1>2, Zenon DEF Strays
  <2> HIDE DEF s, p, good, q
  <2>2. ASSUME NEW x, o = Outcome(x, p, good, FALSE)
        PROVE  x \notin {<<>>, <<<<>>>>, <<s, s>>, <<<<>>, s>>, <<<<Odd>>>>}
    <3>1. o.semantic = x
      BY <2>2 DEF Outcome
    <3>2. Len(<<>>) # 1 /\ Len(<<s, s>>) # 1 /\ Len(<<<<>>, s>>) # 1
      OBVIOUS
    <3>3. <<<<>>>>[1] = <<>>
      OBVIOUS
    <3>4. ~Encodable(<<<<Odd>>>>)
      <4>1. 1 \in DOMAIN <<<<Odd>>>> /\ <<<<Odd>>>>[1] = <<Odd>>
        OBVIOUS
      <4>2. Odd \in ToSet(<<Odd>>)
        BY DEF ToSet
      <4> QED BY <4>1, <4>2 DEF Encodable
    <3> QED BY <1>p, <3>1, <3>2, <3>3, <3>4
  <2>3. ASSUME o = Outcome(<<s>>, p, OtherResult, FALSE) PROVE FALSE
    <3>1. o.result = OtherResult
      BY <2>3 DEF Outcome
    <3>2. OtherResult.kind # "result"
      BY DEF OtherResult
    <3>3. o.result.kind = "result"
      BY DEF Presentable
    <3> HIDE DEF OtherResult
    <3> QED BY <3>1, <3>2, <3>3
  <2>4. ASSUME NEW x \in {<<<<>>>>, p \o p}, p # <<>>, o = Outcome(<<s>>, x, good, FALSE)
        PROVE FALSE
    <3>1. o.physical = x
      BY <2>4 DEF Outcome
    <3>2. 1 \in DOMAIN <<<<>>>> /\ <<<<>>>>[1] = <<>>
      OBVIOUS
    <3>3. x = p \o p
      BY <1>p, <2>4, <3>1, <3>2
    <3>4. p = <<q>>
      BY <2>0, <2>4
    <3>5. DOMAIN x = 1..2
      BY <3>3, <3>4, Twice
    <3>6. Few(o.physical)
      BY ExecutionStreams DEF Streamed
    <3>7. Len(o.physical) = 2
      BY <3>1, <3>5, <3>6 DEF Few
    <3> QED BY <1>p, <3>7
  <2> QED BY <2>1, <2>2, <2>3, <2>4
<1> QED BY <1>1, <1>2, ExecutionCases

PlannedOutput(r, o) ==
  /\ planned \in Plans /\ input[r] = planned /\ ProducerBound(r)
  /\ o \in Executions(r, planned) /\ Complete(r, o)

(* What the plan fixes of its config.                                      *)
LEMMA PlannedFields ==
  ASSUME planned \in Plans
  PROVE  /\ planned.backend \in Backends /\ planned.policy \in Policies
         /\ NeedsReceipts <=> planned.backend # "python"
<1>1. planned \in [id : Nat, backend : Backends, policy : Policies, build : Builds]
  BY BundleAssumption
<1>2. planned.backend \in Backends /\ planned.policy \in Policies
  BY <1>1
<1> QED BY <1>2 DEF NeedsReceipts, Backends

(* A presentable execution passes verify_raw_manifest and the replay.      *)
LEMMA PresentableAccepted ==
  ASSUME NEW r, NEW o, PlannedOutput(r, o), Presentable(o)
  PROVE  RawVerified /\ Replayable
<1>0. /\ o \in Executions(r, planned) /\ Complete(r, o) /\ input[r] = planned
      /\ ProducerBound(r) /\ Streamed(o)
  BY ExecutionStreams DEF PlannedOutput
<1>p. /\ planned.backend \in Backends /\ planned.policy \in Policies
      /\ NeedsReceipts <=> planned.backend # "python"
  BY PlannedFields DEF PlannedOutput
<1>1. PICK w \in {0, 1}, x \in {0, 1} :
        o = Outcome(<<Semantic(r, w, "done")>>, PhysicalStreams(r, planned, w, x, FALSE),
              Result(planned, Semantic(r, w, "done"), w, "done"), FALSE)
  BY <1>0, PresentableCompletes DEF Completes
<1> DEFINE s == Semantic(r, w, "done")
           z == Receipts(planned, w, x, FALSE)
           q == Physical(r, w, x, z)
           k == Len(o.physical)
           d == Documents(r, o)
           both == planned.policy = "semantic_and_physical"
<1>2. /\ o.semantic = <<s>> /\ o.result = Result(planned, s, w, "done")
      /\ o.physical = PhysicalStreams(r, planned, w, x, FALSE)
  BY <1>1 DEF Outcome
<1>3. /\ z \in 0..2 /\ (z # 0 => planned.backend # "python")
      /\ planned.backend # "python" => z = w + x
      /\ o.physical = IF both THEN <<q>> ELSE <<>>
  <2>1. /\ PhysicalStreams(r, planned, w, x, FALSE) = <<>> \/ PhysicalStreams(r, planned, w, x, FALSE) = <<q>>
        /\ PhysicalStreams(r, planned, w, x, FALSE) = <<>> <=> planned.policy = "semantic"
    BY PhysicalAre
  <2>2. /\ z \in 0..2 /\ (z # 0 => planned.backend # "python")
        /\ planned.backend # "python" => z = w + x
    BY DEF Receipts
  <2>3. planned.policy = "semantic" <=> ~both
    BY <1>p DEF Policies
  <2> QED BY <1>2, <2>1, <2>2, <2>3
<1>4. /\ s # <<>> /\ SemanticWork(s) = w /\ StreamValid(s, "done", w)
      /\ \E S : s \in Seq(S)
  BY SemanticTold
<1>5. /\ q # <<>> /\ (\E S : q \in Seq(S)) /\ PhysicalValid(q, w)
  <2>0. w \in 0..w
    OBVIOUS
  <2>3. z \in 0..2 /\ (z # 0 => NeedsReceipts) /\ (NeedsReceipts => z = w + x)
    BY <1>p, <1>3
  <2> HIDE DEF z
  <2>1. z # 0 => NeedsReceipts
    BY <2>3
  <2>2. NeedsReceipts => z >= w /\ z >= x
    BY <2>3
  <2> QED BY <2>0, <2>1, <2>2, <2>3, PhysicalTold
<1>6. /\ k \in 0..1 /\ (k = 1 <=> both) /\ DOMAIN d = 1..(k + 4)
      /\ Len(Outputs(r, o)) = k + 3
      /\ d[1] = ConfigDoc(planned) /\ d[2] = StreamDoc("events", s)
      /\ d[3] = Document("result", o.result)
      /\ k = 1 => d[4] = StreamDoc("physical", q)
      /\ d[k + 4] = ManifestOf(r, o)
  <2>1. /\ k \in 0..1 /\ DOMAIN d = 1..(k + 4) /\ Len(Outputs(r, o)) = k + 3
        /\ d[1] = ConfigDoc(input[r]) /\ d[2] = StreamDoc("events", o.semantic[1])
        /\ d[3] = Document("result", o.result)
        /\ k = 1 => d[4] = StreamDoc("physical", o.physical[1])
        /\ d[k + 4] = ManifestOf(r, o)
    BY <1>0, RawLayout
  <2> HIDE DEF d, s, q
  <2>2. o.semantic[1] = s
    BY <1>2
  <2>3. (k = 1 <=> both) /\ (both => o.physical[1] = q)
    BY <1>3
  <2> QED BY <1>0, <2>1, <2>2, <2>3
<1>7. /\ Signed("manifest") /\ Body("manifest").decision = Decision(o)
      /\ IdentityExpected /\ EntriesMatch /\ SealedLifecycle
      /\ DOMAIN Bound = 1..(k + 3)
      /\ \A i \in 1..(k + 3) : Bound[i] = Entry(d[i])
      /\ BoundPaths = {d[i].path : i \in 1..(k + 3)}
      /\ \A i \in DOMAIN d : Body(d[i].path) = d[i].body /\ Signed(d[i].path)
  BY <1>0, <1>6, ManifestMatches
<1>8. /\ d[1].path = "config" /\ d[2].path = "events" /\ d[3].path = "result"
      /\ d[3].body = o.result /\ d[2].body = StreamDoc("events", s).body
      /\ k = 1 => d[4].path = "physical" /\ d[4].body = StreamDoc("physical", q).body
      /\ d[k + 4].path = "manifest"
  <2>1. /\ ConfigDoc(planned).path = "config" /\ ManifestOf(r, o).path = "manifest"
        /\ \A p, b : /\ Document(p, b).path = p /\ Document(p, b).body = b
                     /\ StreamDoc(p, b).path = p
    BY DEF ConfigDoc, Document, StreamDoc, ManifestOf, Manifest
  <2> HIDE DEF d, s, q, k
  <2> QED BY <1>6, <2>1
<1> DEFINE res == o.result
<1>9. /\ res.kind = "result" /\ res.config = planned /\ res.semantic = s
      /\ res.state = w /\ res.reason = "done" /\ (res.physical <=> both)
  <2> HIDE DEF s, both
  <2> DEFINE u == Result(planned, s, w, "done")
  <2>1. /\ u.kind = "result" /\ u.config = planned /\ u.semantic = s
        /\ u.state = w /\ u.reason = "done"
    BY DEF Result
  <2>2. u.physical = both
    BY DEF Result, both
  <2> HIDE DEF u
  <2>3. res = u
    BY <1>2 DEF u
  <2> HIDE DEF res
  <2> QED BY <2>1, <2>2, <2>3
<1> HIDE DEF d, s, q, k, res
<1>10. /\ Body("events") = StreamDoc("events", s).body /\ Signed("events")
       /\ Body("result") = res /\ Signed("result")
       /\ k = 1 => Body("physical") = StreamDoc("physical", q).body /\ Signed("physical")
  <2>1. 2 \in DOMAIN d /\ 3 \in DOMAIN d /\ (k = 1 => 4 \in DOMAIN d)
    BY <1>6
  <2> QED BY <1>7, <1>8, <2>1 DEF res
<1>11. BoundPaths = IF both THEN {"config", "events", "result", "physical"}
                    ELSE {"config", "events", "result"}
  <2>1. CASE k = 0
    <3>1. 1..(k + 3) = {1, 2, 3}
      BY <2>1
    <3> QED BY <1>6, <1>7, <1>8, <2>1, <3>1
  <2>2. CASE k = 1
    <3>1. 1..(k + 3) = {1, 2, 3, 4}
      BY <2>2
    <3> QED BY <1>6, <1>7, <1>8, <2>2, <3>1
  <2> QED BY <1>6, <2>1, <2>2
<1>12. RawVerified
  <2>1. Decision(o) = "none"
    BY DEF Decision
  <2>2. ResultExpected
    BY <1>9, <1>10 DEF ResultExpected
  <2>3. "physical" \in BoundPaths <=> both
    BY <1>11
  <2> QED BY <1>7, <1>9, <1>10, <1>11, <2>1, <2>2, <2>3 DEF RawVerified
<1>13. Payloads("events") = s /\ Readable("events")
  BY <1>4, <1>10, StreamReadable
<1>14. both => Payloads("physical") = q /\ Readable("physical")
  BY <1>5, <1>6, <1>10, StreamReadable
<1> DEFINE entry(p) == CHOOSE i \in DOMAIN Bound : Bound[i].path = p
<1>15. ASSUME NEW i \in DOMAIN Bound PROVE entry(Bound[i].path) = i
  <2> DEFINE f == [j \in DOMAIN Bound |-> Bound[j].path]
  <2>1. IsInjective(f)
    BY <1>7 DEF EntriesMatch
  <2>2. \A a, b \in DOMAIN f : f[a] = f[b] => a = b
    BY <2>1 DEF IsInjective
  <2> QED BY <2>2
<1>16. Bound[entry("events")].terminal = s
  <2>1. 2 \in DOMAIN Bound /\ Bound[2].path = "events" /\ Bound[2].terminal = s
    <3>1. 2 \in 1..(k + 3)
      BY <1>6
    <3>2. Entry(StreamDoc("events", s)).path = "events"
      BY DEF Entry, StreamDoc, Document
    <3>3. Entry(StreamDoc("events", s)).terminal = s
      BY <1>4, TerminalOf DEF Streams
    <3> QED BY <1>6, <1>7, <3>1, <3>2, <3>3
  <2> DEFINE e == entry("events")
  <2>2. e = 2
    BY <1>15, <2>1
  <2> HIDE DEF e
  <2>3. Bound[e].terminal = s
    BY <2>1, <2>2
  <2> QED BY <2>3 DEF e
<1>17. both => Bound[entry("physical")].terminal = q
  <2> SUFFICES ASSUME both PROVE Bound[entry("physical")].terminal = q
    OBVIOUS
  <2>1. 4 \in DOMAIN Bound /\ Bound[4].path = "physical" /\ Bound[4].terminal = q
    <3>1. 4 \in 1..(k + 3)
      BY <1>6
    <3>2. Entry(StreamDoc("physical", q)).path = "physical"
      BY DEF Entry, StreamDoc, Document
    <3>3. Entry(StreamDoc("physical", q)).terminal = q
      BY <1>5, TerminalOf DEF Streams
    <3> QED BY <1>6, <1>7, <3>1, <3>2, <3>3
  <2> DEFINE e == entry("physical")
  <2>2. e = 4
    BY <1>15, <2>1
  <2> HIDE DEF e
  <2>3. Bound[e].terminal = q
    BY <2>1, <2>2
  <2> QED BY <2>3 DEF e
<1>18. Whole(disk["physical", "data"]) <=> both
  <2>1. CASE both
    BY <1>6, <1>10, <2>1 DEF Signed
  <2>2. CASE ~both
    <3>1. k = 0
      BY <1>6, <2>2
    <3>2. ASSUME NEW i \in DOMAIN d PROVE d[i].path # "physical"
      <4>1. i = 1 \/ i = 2 \/ i = 3 \/ i = k + 4
        BY <1>6, <3>1
      <4> QED BY <1>8, <4>1
    <3>3. \A doc \in ToSet(Documents(r, o)) : doc.path # "physical"
      BY <3>2 DEF ToSet, d
    <3>4. disk[<<"physical", "data">>] = Absent
      <4>1. "physical" \in Paths
        BY DEF Paths, Streams
      <4> QED BY <1>0, <3>3, <4>1 DEF Complete
    <3> QED BY <2>2, <3>4 DEF Whole
  <2> QED BY <2>1, <2>2
<1>19. Signed("config")
  BY <1>7 DEF IdentityExpected
<1>20. PhysicalValid(q, SemanticWork(s))
  BY <1>4, <1>5
<1> HIDE DEF entry
<1>21. Replayable
  <2>1. /\ Body("result").semantic = s /\ StreamValid(s, Body("result").reason, Body("result").state)
        /\ Body("result").physical <=> both
    BY <1>4, <1>9, <1>10
  <2> QED BY <1>7, <1>10, <1>13, <1>14, <1>16, <1>17, <1>18, <1>19, <1>20, <2>1 DEF Replayable, entry
<1> QED BY <1>12, <1>21

(* The file names of the streams a failure keeps.                          *)
NamesOf(stem, m) == {NameOf(stem, m, i) : i \in 1..m}

(* The names are distinct, and the stem stands alone when there is one     *)
(* stream.                                                                 *)
LEMMA NamesAre ==
  ASSUME NEW m \in 0..2, NEW stem \in {"events", "physical"}
  PROVE  /\ Cardinality(NamesOf(stem, m)) = m
         /\ NamesOf(stem, m) = CASE m = 0 -> {}
                                 [] m = 1 -> {stem}
                                 [] m = 2 -> {Numbered[stem][1], Numbered[stem][2]}
<1>f. /\ IsFiniteSet({}) /\ Cardinality({}) = 0
      /\ \A x : IsFiniteSet({x}) /\ Cardinality({x}) = 1
  BY FS_EmptySet, FS_Singleton
<1>1. CASE m = 0
  <2>1. NamesOf(stem, m) = {}
    BY <1>1 DEF NamesOf
  <2> QED BY <1>1, <1>f, <2>1
<1>2. CASE m = 1
  <2>1. 1..m = {1}
    BY <1>2
  <2>2. NamesOf(stem, m) = {stem}
    BY <1>2, <2>1 DEF NamesOf, NameOf
  <2>3. Cardinality(NamesOf(stem, m)) = 1
    BY <1>f, <2>2, Zenon
  <2> QED BY <1>2, <2>2, <2>3
<1>3. CASE m = 2
  <2> DEFINE a == Numbered[stem][1]
             b == Numbered[stem][2]
  <2>1. 1..m = {1, 2}
    BY <1>3
  <2>2. NamesOf(stem, m) = {a, b}
    BY <1>3, <2>1 DEF NamesOf, NameOf
  <2>3. a # b
    BY DEF Numbered
  <2> HIDE DEF a, b
  <2>4. Cardinality({a} \cup {b}) = Cardinality({a}) + 1
    <3>1. b \notin {a}
      BY <2>3
    <3> QED BY <1>f, <3>1, FS_AddElement, Zenon
  <2>5. {a} \cup {b} = {a, b}
    OBVIOUS
  <2>6. Cardinality({a, b}) = 2
    <3>1. Cardinality({a}) = 1
      BY <1>f, Zenon
    <3>2. Cardinality({a, b}) = 1 + 1
      BY <2>4, <2>5, <3>1, Zenon
    <3> QED BY <3>2
  <2> QED BY <1>3, <2>2, <2>6 DEF a, b
<1> QED BY <1>1, <1>2, <1>3

(* The stream names the failure review knows.                              *)
LEMMA PathsAre ==
  /\ ToSet(SemanticPaths) = {"events", "events-0000", "events-0001"}
  /\ ToSet(PhysicalPaths) = {"physical", "physical-0000", "physical-0001"}
  /\ \A i \in 1..3 : SemanticPaths[i] \in ToSet(SemanticPaths)
  /\ \A i \in 1..3 : PhysicalPaths[i] \in ToSet(PhysicalPaths)
  /\ SemanticPaths[1] = "events" /\ PhysicalPaths[1] = "physical"
  /\ \A i \in 2..3 : SemanticPaths[i] # "events" /\ PhysicalPaths[i] # "physical"
<1>1. ASSUME NEW a, NEW b, NEW c
      PROVE  LET s == <<a, b, c>>
             IN  /\ ToSet(s) = {a, b, c} /\ s[1] = a /\ s[2] = b /\ s[3] = c
                 /\ \A i \in 1..3 : s[i] \in {a, b, c}
  <2> DEFINE s == <<a, b, c>>
  <2>1. DOMAIN s = {1, 2, 3} /\ s[1] = a /\ s[2] = b /\ s[3] = c /\ 1..3 = {1, 2, 3}
    OBVIOUS
  <2> HIDE DEF s
  <2>2. ToSet(s) = {a, b, c}
    BY <2>1 DEF ToSet
  <2> QED BY <2>1, <2>2 DEF s
<1>2. /\ ToSet(SemanticPaths) = {"events", "events-0000", "events-0001"}
      /\ \A i \in 1..3 : SemanticPaths[i] \in ToSet(SemanticPaths)
      /\ SemanticPaths[1] = "events" /\ SemanticPaths[2] = "events-0000"
      /\ SemanticPaths[3] = "events-0001"
  BY <1>1 DEF SemanticPaths
<1>3. /\ ToSet(PhysicalPaths) = {"physical", "physical-0000", "physical-0001"}
      /\ \A i \in 1..3 : PhysicalPaths[i] \in ToSet(PhysicalPaths)
      /\ PhysicalPaths[1] = "physical" /\ PhysicalPaths[2] = "physical-0000"
      /\ PhysicalPaths[3] = "physical-0001"
  BY <1>1 DEF PhysicalPaths
<1>4. 2..3 = {2, 3}
  OBVIOUS
<1> QED BY <1>2, <1>3, <1>4

(* The documents of a failure are its config, its receipt and its streams. *)
LEMMA FailurePaths ==
  ASSUME NEW r, NEW o, PlannedOutput(r, o), ~Presentable(o)
  PROVE  LET s == Retained(o.semantic)
             p == Retained(o.physical)
             m == Len(s)
             n == Len(p)
         IN  /\ m \in 0..2 /\ DOMAIN s = 1..m /\ n \in 0..2 /\ DOMAIN p = 1..n
             /\ BoundPaths = {"config", "failure"} \cup NamesOf("events", m)
                                                   \cup NamesOf("physical", n)
             /\ BoundPaths \cap ToSet(SemanticPaths) = NamesOf("events", m)
             /\ BoundPaths \cap ToSet(PhysicalPaths) = NamesOf("physical", n)
             /\ Body("failure") = [kind |-> "failure", run |-> r,
                                   semantic |-> m, physical |-> n]
             /\ \A i \in 1..m : LET a == NameOf("events", m, i)
                                IN  Body(a) = StreamDoc(a, s[i]).body /\ Signed(a)
             /\ \A i \in 1..n : LET a == NameOf("physical", n, i)
                                IN  Body(a) = StreamDoc(a, p[i]).body /\ Signed(a)
             /\ Signed("manifest") /\ Body("manifest").decision = Decision(o)
             /\ IdentityExpected /\ EntriesMatch /\ SealedLifecycle
<1> DEFINE s == Retained(o.semantic)
           p == Retained(o.physical)
           m == Len(s)
           n == Len(p)
           d == Documents(r, o)
           F == [kind |-> "failure", run |-> r, semantic |-> m, physical |-> n]
<1>0. /\ o \in Executions(r, planned) /\ Complete(r, o) /\ input[r] = planned
      /\ ProducerBound(r) /\ Streamed(o)
  BY ExecutionStreams DEF PlannedOutput
<1>1. /\ m \in 0..2 /\ DOMAIN s = 1..m /\ n \in 0..2 /\ DOMAIN p = 1..n
      /\ DOMAIN d = 1..(m + n + 3) /\ Len(Outputs(r, o)) = m + n + 2
      /\ d[1] = ConfigDoc(input[r]) /\ d[2] = Document("failure", F)
      /\ \A i \in 1..m : d[2 + i] = StreamDoc(NameOf("events", m, i), s[i])
      /\ \A i \in 1..n : d[2 + m + i] = StreamDoc(NameOf("physical", n, i), p[i])
  BY <1>0, FailureLayout
<1>2. /\ Signed("manifest") /\ Body("manifest").decision = Decision(o)
      /\ IdentityExpected /\ EntriesMatch /\ SealedLifecycle
      /\ BoundPaths = {d[i].path : i \in 1..Len(Outputs(r, o))}
      /\ \A i \in DOMAIN d : Body(d[i].path) = d[i].body /\ Signed(d[i].path)
  BY <1>0, ManifestMatches
<1>3. /\ \A c : ConfigDoc(c).path = "config"
      /\ \A a, b : /\ Document(a, b).path = a /\ Document(a, b).body = b
                   /\ StreamDoc(a, b).path = a
  BY DEF ConfigDoc, Document, StreamDoc
<1> HIDE DEF d, s, p, m, n, F
<1>4. /\ d[1].path = "config" /\ d[2].path = "failure" /\ d[2].body = F
      /\ \A i \in 1..m : /\ d[2 + i].path = NameOf("events", m, i)
                         /\ d[2 + i].body = StreamDoc(NameOf("events", m, i), s[i]).body
      /\ \A i \in 1..n : /\ d[2 + m + i].path = NameOf("physical", n, i)
                         /\ d[2 + m + i].body = StreamDoc(NameOf("physical", n, i), p[i]).body
  BY <1>1, <1>3
<1>5. /\ \A i \in 1..m : 2 + i \in DOMAIN d /\ 2 + i \in 1..(m + n + 2)
      /\ \A i \in 1..n : 2 + m + i \in DOMAIN d /\ 2 + m + i \in 1..(m + n + 2)
      /\ 1 \in 1..(m + n + 2) /\ 2 \in 1..(m + n + 2) /\ 2 \in DOMAIN d
  BY <1>1
<1>6. /\ Body("failure") = F
      /\ \A i \in 1..m : LET a == NameOf("events", m, i)
                         IN  Body(a) = StreamDoc(a, s[i]).body /\ Signed(a)
      /\ \A i \in 1..n : LET a == NameOf("physical", n, i)
                         IN  Body(a) = StreamDoc(a, p[i]).body /\ Signed(a)
  BY <1>2, <1>4, <1>5
<1> DEFINE B == {"config", "failure"} \cup NamesOf("events", m) \cup NamesOf("physical", n)
<1>7. BoundPaths = B
  <2>1. ASSUME NEW i \in 1..(m + n + 2) PROVE d[i].path \in B
    <3>1. i = 1 \/ i = 2 \/ i - 2 \in 1..m \/ i - 2 - m \in 1..n
      BY <1>1
    <3>2. i = 2 + (i - 2) /\ i = 2 + m + (i - 2 - m)
      BY <1>1
    <3>3. CASE i - 2 \in 1..m
      BY <1>4, <3>2, <3>3 DEF NamesOf
    <3>4. CASE i - 2 - m \in 1..n
      BY <1>4, <3>2, <3>4 DEF NamesOf
    <3> QED BY <1>4, <3>1, <3>3, <3>4
  <2>2. ASSUME NEW a \in B PROVE \E i \in 1..(m + n + 2) : d[i].path = a
    <3>1. CASE a \in {"config", "failure"}
      BY <1>4, <1>5, <3>1
    <3>2. CASE a \in NamesOf("events", m)
      BY <1>4, <1>5, <3>2 DEF NamesOf
    <3>3. CASE a \in NamesOf("physical", n)
      BY <1>4, <1>5, <3>3 DEF NamesOf
    <3> QED BY <3>1, <3>2, <3>3
  <2> HIDE DEF B
  <2> QED BY <1>1, <1>2, <2>1, <2>2
<1>8. /\ BoundPaths \cap ToSet(SemanticPaths) = NamesOf("events", m)
      /\ BoundPaths \cap ToSet(PhysicalPaths) = NamesOf("physical", n)
  <2>1. /\ NamesOf("events", m) \subseteq {"events", "events-0000", "events-0001"}
        /\ NamesOf("physical", n) \subseteq {"physical", "physical-0000", "physical-0001"}
    BY <1>1, NamesAre DEF Numbered
  <2>2. \A a \in NamesOf("events", m) : a \notin ToSet(PhysicalPaths)
    BY <2>1, PathsAre
  <2>3. \A a \in NamesOf("physical", n) : a \notin ToSet(SemanticPaths)
    BY <2>1, PathsAre
  <2>4. \A a \in {"config", "failure"} : a \notin ToSet(SemanticPaths) /\ a \notin ToSet(PhysicalPaths)
    BY PathsAre
  <2> QED BY <1>7, <2>1, <2>2, <2>3, <2>4, PathsAre
<1> QED BY <1>1, <1>2, <1>6, <1>7, <1>8 DEF s, p, m, n, F

(* What the reviewer checks of the streams a failure keeps.                *)
Covered(r, o) ==
  LET s == Retained(o.semantic)
      p == Retained(o.physical)
  IN  /\ \A i \in DOMAIN s : Told(r, s[i])
      /\ \A i \in DOMAIN p :
           /\ p[i] # <<>> /\ (\E S : p[i] \in Seq(S))
           /\ PhysicalValid(p[i], 0) /\ NativeWork(p[i]) \in Nat
      /\ NeedsReceipts =>
           \/ \A i \in DOMAIN s : SemanticWork(s[i]) = 0
           \/ /\ Len(s) = 1 /\ Len(p) = 1
              /\ NativeWork(p[1]) >= SemanticWork(s[1])

(* A trace of a run passes _validate_semantic_trace by itself.             *)
LEMMA ToldFacts ==
  ASSUME NEW r, NEW s, Told(r, s)
  PROVE  /\ s # <<>> /\ (\E S : s \in Seq(S)) /\ SemanticWork(s) \in Nat
         /\ StreamValid(s, Last(s).reason, LastState(s))
<1>1. PICK w \in {0, 1}, reason \in {"done", "error"} : s = Semantic(r, w, reason)
  BY DEF Told
<1>2. /\ s # <<>> /\ (\E S : s \in Seq(S)) /\ SemanticWork(s) = w
      /\ Last(s).reason = reason /\ LastState(s) = w /\ StreamValid(s, reason, w)
  BY <1>1, SemanticTold
<1> QED BY <1>2

(* A sum over three names of which at most the first counts.               *)
LEMMA FirstOnly ==
  ASSUME NEW c, DOMAIN c = 1..3, c = [i \in DOMAIN c |-> c[i]], c[1] \in Nat,
         \A i \in 2..3 : c[i] = 0
  PROVE  Total(c) = c[1]
<1>1. c[2] = 0 /\ c[3] = 0
  OBVIOUS
<1>2. \A i \in 1..3 : c[i] \in Nat
  BY <1>1
<1>3. c \in [1..3 -> Nat]
  BY <1>2
<1>4. Total(c) = (IF 3 >= 1 THEN c[1] ELSE 0) + (IF 3 >= 2 THEN c[2] ELSE 0)
                   + (IF 3 >= 3 THEN c[3] ELSE 0)
  BY <1>3, TotalSmall
<1> QED BY <1>1, <1>4

(* A failure whose streams are covered passes verify_failure_manifest.     *)
LEMMA FailureAccepted ==
  ASSUME NEW r, NEW o, PlannedOutput(r, o), ~Presentable(o), Covered(r, o)
  PROVE  FailureVerified
<1> DEFINE s == Retained(o.semantic)
           p == Retained(o.physical)
           m == Len(s)
           n == Len(p)
           X == BoundPaths \cap ToSet(SemanticPaths)
           Y == BoundPaths \cap ToSet(PhysicalPaths)
<1>1. /\ m \in 0..2 /\ DOMAIN s = 1..m /\ n \in 0..2 /\ DOMAIN p = 1..n
      /\ BoundPaths = {"config", "failure"} \cup NamesOf("events", m)
                                            \cup NamesOf("physical", n)
      /\ X = NamesOf("events", m) /\ Y = NamesOf("physical", n)
      /\ Body("failure") = [kind |-> "failure", run |-> r,
                            semantic |-> m, physical |-> n]
      /\ \A i \in 1..m : LET a == NameOf("events", m, i)
                         IN  Body(a) = StreamDoc(a, s[i]).body /\ Signed(a)
      /\ \A i \in 1..n : LET a == NameOf("physical", n, i)
                         IN  Body(a) = StreamDoc(a, p[i]).body /\ Signed(a)
      /\ Signed("manifest") /\ Body("manifest").decision = Decision(o)
      /\ IdentityExpected /\ EntriesMatch /\ SealedLifecycle
  BY FailurePaths
<1>2. /\ \A i \in DOMAIN s : Told(r, s[i])
      /\ \A i \in DOMAIN p :
           /\ p[i] # <<>> /\ (\E S : p[i] \in Seq(S))
           /\ PhysicalValid(p[i], 0) /\ NativeWork(p[i]) \in Nat
      /\ NeedsReceipts =>
           \/ \A i \in DOMAIN s : SemanticWork(s[i]) = 0
           \/ m = 1 /\ n = 1 /\ NativeWork(p[1]) >= SemanticWork(s[1])
  BY DEF Covered
<1>3. Decision(o) = "FAILED"
  BY DEF Decision
<1> HIDE DEF s, p, m, n, X, Y
<1>4. /\ Cardinality(X) = m /\ Cardinality(Y) = n
      /\ X = CASE m = 0 -> {} [] m = 1 -> {"events"} [] m = 2 -> {"events-0000", "events-0001"}
      /\ Y = CASE n = 0 -> {} [] n = 1 -> {"physical"}
               [] n = 2 -> {"physical-0000", "physical-0001"}
  <2>1. /\ Numbered["events"][1] = "events-0000" /\ Numbered["events"][2] = "events-0001"
        /\ Numbered["physical"][1] = "physical-0000" /\ Numbered["physical"][2] = "physical-0001"
    BY DEF Numbered
  <2>2. /\ Cardinality(NamesOf("events", m)) = m
        /\ NamesOf("events", m) = CASE m = 0 -> {} [] m = 1 -> {"events"}
                 [] m = 2 -> {Numbered["events"][1], Numbered["events"][2]}
    BY <1>1, NamesAre
  <2>3. /\ Cardinality(NamesOf("physical", n)) = n
        /\ NamesOf("physical", n) = CASE n = 0 -> {} [] n = 1 -> {"physical"}
                 [] n = 2 -> {Numbered["physical"][1], Numbered["physical"][2]}
    BY <1>1, NamesAre
  <2> QED BY <1>1, <2>1, <2>2, <2>3
<1>5. ASSUME NEW i \in 1..m
      PROVE  Payloads(NameOf("events", m, i)) = s[i] /\ Readable(NameOf("events", m, i))
  <2>1. s[i] # <<>> /\ \E S : s[i] \in Seq(S)
    BY <1>1, <1>2, ToldFacts
  <2> QED BY <1>1, <2>1, StreamReadable
<1>6. ASSUME NEW i \in 1..n
      PROVE  Payloads(NameOf("physical", n, i)) = p[i] /\ Readable(NameOf("physical", n, i))
  <2>1. p[i] # <<>> /\ \E S : p[i] \in Seq(S)
    BY <1>1, <1>2
  <2> QED BY <1>1, <2>1, StreamReadable
<1>7. \A a \in X : \E i \in 1..m : a = NameOf("events", m, i)
  BY <1>1 DEF NamesOf
<1>8. \A a \in Y : \E i \in 1..n : a = NameOf("physical", n, i)
  BY <1>1 DEF NamesOf
<1>9. ASSUME NEW a \in X
      PROVE  /\ Readable(a) /\ SemanticWork(Payloads(a)) \in Nat
             /\ StreamValid(Payloads(a), Last(Payloads(a)).reason, LastState(Payloads(a)))
  <2>1. PICK i \in 1..m : a = NameOf("events", m, i)
    BY <1>7
  <2>2. Payloads(a) = s[i] /\ Readable(a)
    BY <1>5, <2>1
  <2>3. Told(r, s[i])
    BY <1>1, <1>2
  <2> QED BY <2>2, <2>3, ToldFacts
<1>10. ASSUME NEW a \in Y
       PROVE  Readable(a) /\ PhysicalValid(Payloads(a), 0) /\ NativeWork(Payloads(a)) \in Nat
  <2>1. PICK i \in 1..n : a = NameOf("physical", n, i)
    BY <1>8
  <2>2. Payloads(a) = p[i] /\ Readable(a)
    BY <1>6, <2>1
  <2> QED BY <1>1, <1>2, <2>2
<1>11. NeedsReceipts /\ FailureWork(X) > 0 => ReceiptedWork(Y) >= FailureWork(X)
  <2> SUFFICES ASSUME NeedsReceipts
               PROVE  FailureWork(X) > 0 => ReceiptedWork(Y) >= FailureWork(X)
    OBVIOUS
  <2> DEFINE c == [i \in 1..3 |-> IF SemanticPaths[i] \in X
                        THEN SemanticWork(Payloads(SemanticPaths[i])) ELSE 0]
             e == [i \in 1..3 |-> IF PhysicalPaths[i] \in Y
                        THEN NativeWork(Payloads(PhysicalPaths[i])) ELSE 0]
  <2>0. FailureWork(X) = Total(c) /\ ReceiptedWork(Y) = Total(e)
    BY DEF FailureWork, ReceiptedWork
  <2>a. /\ DOMAIN c = 1..3 /\ c = [i \in DOMAIN c |-> c[i]]
        /\ DOMAIN e = 1..3 /\ e = [i \in DOMAIN e |-> e[i]]
        /\ \A i \in 1..3 : c[i] = IF SemanticPaths[i] \in X
                             THEN SemanticWork(Payloads(SemanticPaths[i])) ELSE 0
        /\ \A i \in 1..3 : e[i] = IF PhysicalPaths[i] \in Y
                             THEN NativeWork(Payloads(PhysicalPaths[i])) ELSE 0
    OBVIOUS
  <2> HIDE DEF c, e
  <2>1. CASE \A i \in DOMAIN s : SemanticWork(s[i]) = 0
    <3>1. ASSUME NEW a \in X PROVE SemanticWork(Payloads(a)) = 0
      <4>1. PICK i \in 1..m : a = NameOf("events", m, i)
        BY <1>7
      <4> QED BY <1>1, <1>5, <2>1, <4>1
    <3>2. \A i \in 1..3 : c[i] = 0
      BY <2>a, <3>1
    <3>3. c[1] = 0 /\ c[1] \in Nat /\ \A i \in 2..3 : c[i] = 0
      BY <3>2
    <3>4. Total(c) = 0
      BY <2>a, <3>3, FirstOnly
    <3> QED BY <2>0, <3>4
  <2>2. CASE m = 1 /\ n = 1 /\ NativeWork(p[1]) >= SemanticWork(s[1])
    <3>1. X = {"events"} /\ Y = {"physical"}
      BY <1>4, <2>2
    <3>2. /\ NameOf("events", m, 1) = "events" /\ NameOf("physical", n, 1) = "physical"
          /\ 1 \in 1..m /\ 1 \in 1..n
      BY <2>2 DEF NameOf
    <3>3. Payloads("events") = s[1] /\ Payloads("physical") = p[1]
      BY <1>5, <1>6, <3>2
    <3>4. c[1] = SemanticWork(s[1]) /\ c[1] \in Nat /\ \A i \in 2..3 : c[i] = 0
      BY <1>9, <2>a, <3>1, <3>3, PathsAre
    <3>5. e[1] = NativeWork(p[1]) /\ e[1] \in Nat /\ \A i \in 2..3 : e[i] = 0
      BY <1>10, <2>a, <3>1, <3>3, PathsAre
    <3>6. Total(c) = c[1] /\ Total(e) = e[1]
      BY <2>a, <3>4, <3>5, FirstOnly
    <3> QED BY <2>0, <2>2, <3>4, <3>5, <3>6
  <2> QED BY <1>2, <2>1, <2>2
<1>12. FailureReceiptMatches(X, Y)
  BY <1>1, <1>4 DEF FailureReceiptMatches
<1>13. {"config", "failure"} \subseteq BoundPaths /\ "result" \notin BoundPaths
  <2>1. BoundPaths = {"config", "failure"} \cup X \cup Y
    BY <1>1
  <2>2. "result" \notin X /\ "result" \notin Y
    BY PathsAre DEF X, Y
  <2> QED BY <2>1, <2>2
<1> QED BY <1>1, <1>3, <1>9, <1>10, <1>11, <1>12, <1>13 DEF FailureVerified, X, Y

(* What is kept of an encodable trace is a trace of the run.               *)
LEMMA KeptTold ==
  ASSUME NEW r, NEW o \in Executions(r, planned), Encodable(o.semantic),
         NEW i \in DOMAIN Retained(o.semantic)
  PROVE  Told(r, Retained(o.semantic)[i])
<1>1. Streamed(o)
  BY ExecutionStreams
<1>2. PICK j \in DOMAIN o.semantic :
        Retained(o.semantic)[i] = o.semantic[j] /\ o.semantic[j] # <<>>
  BY <1>1, RetainedFrom DEF Streamed
<1>3. Odd \notin ToSet(o.semantic[j])
  BY DEF Encodable
<1>4. Odd \in ToSet(<<Odd>>)
  BY DEF ToSet
<1>5. o.semantic[j] = <<>> \/ o.semantic[j] = <<Odd>> \/ Told(r, o.semantic[j])
  BY Emitted
<1> QED BY <1>2, <1>3, <1>4, <1>5

(* A single stream is kept, ...                                            *)
LEMMA OneKept ==
  ASSUME NEW a, a # <<>>
  PROVE  /\ Len(Retained(<<a>>)) = 1 /\ DOMAIN Retained(<<a>>) = 1..1
         /\ Retained(<<a>>)[1] = a
<1> DEFINE s == <<a>>
<1>1. DOMAIN s = 1..1 /\ s[1] = a /\ 1 \in 1..1 /\ 1 \in 1..2 /\ \A i \in 1..1 : i = 1
  OBVIOUS
<1> HIDE DEF s
<1>2. Len(Retained(s)) = 1 /\ DOMAIN Retained(s) = 1..1 /\ Retained(s)[1] = s[1]
  BY <1>1, RetainedOne
<1> QED BY <1>1, <1>2 DEF s

(* ... and of none nothing is.                                             *)
LEMMA NoneKept == Len(Retained(<<>>)) = 0 /\ DOMAIN Retained(<<>>) = {}
<1> DEFINE s == <<>>
<1>1. DOMAIN s = {}
  OBVIOUS
<1> HIDE DEF s
<1>2. Retained(s) = <<>>
  BY <1>1, RetainedNone
<1> QED BY <1>2 DEF s

(* A run that completes is presentable.                                    *)
LEMMA CompletesPresentable ==
  ASSUME NEW r, NEW c, NEW o, Completes(r, c, o)
  PROVE  Presentable(o)
<1>1. PICK w \in {0, 1}, x \in {0, 1} :
        o = Outcome(<<Semantic(r, w, "done")>>, PhysicalStreams(r, c, w, x, FALSE),
              Result(c, Semantic(r, w, "done"), w, "done"), FALSE)
  BY DEF Completes
<1> DEFINE s == Semantic(r, w, "done")
           k == Receipts(c, w, x, FALSE)
           q == Physical(r, w, x, k)
           p == PhysicalStreams(r, c, w, x, FALSE)
           u == Result(c, s, w, "done")
<1>2. o.semantic = <<s>> /\ o.physical = p /\ o.result = u /\ ~o.raised
  BY <1>1 DEF Outcome
<1>3. k \in 0..2 /\ (p = <<>> \/ p = <<q>>)
  BY PhysicalAre
<1>4. s # <<>> /\ Odd \notin ToSet(s)
  BY SemanticTold
<1>5. q # <<>> /\ Odd \notin ToSet(q)
  <2>1. k \in 0..2
    BY <1>3
  <2> HIDE DEF k
  <2> QED BY <2>1, PhysicalTold
<1>6. u.kind = "result"
  BY DEF Result
<1> HIDE DEF s, q, p, u
<1>7. ASSUME NEW a, a # <<>>, Odd \notin ToSet(a)
      PROVE  /\ Len(<<a>>) = 1 /\ <<a>>[1] # <<>> /\ Encodable(<<a>>)
             /\ \A i \in DOMAIN <<a>> : <<a>>[i] # <<>>
  <2>1. Len(<<a>>) = 1 /\ \A i \in DOMAIN <<a>> : <<a>>[i] = a
    OBVIOUS
  <2>2. <<a>>[1] = a
    OBVIOUS
  <2> QED BY <1>7, <2>1, <2>2 DEF Encodable
<1>8. Len(o.semantic) = 1 /\ o.semantic[1] # <<>> /\ Encodable(o.semantic)
  BY <1>2, <1>4, <1>7
<1>9. /\ Len(o.physical) <= 1 /\ \A i \in DOMAIN o.physical : o.physical[i] # <<>>
      /\ Encodable(o.physical)
  <2>1. CASE p = <<>>
    <3>1. Len(<<>>) = 0 /\ DOMAIN <<>> = {}
      OBVIOUS
    <3> QED BY <1>2, <2>1, <3>1 DEF Encodable
  <2>2. CASE p = <<q>>
    BY <1>2, <1>5, <1>7, <2>2
  <2> QED BY <1>3, <2>1, <2>2
<1> QED BY <1>2, <1>6, <1>8, <1>9 DEF Presentable

(* What an execution that failed has traced passes the failure review,     *)
(* unless it did native work that left no receipt.                         *)
LEMMA FailureCovered ==
  ASSUME NEW r, planned \in Plans, NEW o \in Executions(r, planned),
         ~Presentable(o), Encodable(o.semantic),
         ~(NeedsReceipts /\ o.raised /\ Unreceipted(o))
  PROVE  Covered(r, o)
<1> DEFINE S == Retained(o.semantic)
           P == Retained(o.physical)
<1>0. /\ Streamed(o) /\ (NeedsReceipts <=> planned.backend # "python")
      /\ \A i \in DOMAIN S : Told(r, S[i])
  BY ExecutionStreams, PlannedFields, KeptTold
<1>c. ~Completes(r, planned, o)
  BY CompletesPresentable
<1>1. ASSUME NEW w \in {0, 1}, NEW x \in {0, 1}, NEW k \in 0..2,
             k # 0 => NeedsReceipts, NeedsReceipts => k >= x
      PROVE  LET q == Physical(r, w, x, k)
             IN  /\ q # <<>> /\ (\E T : q \in Seq(T))
                 /\ PhysicalValid(q, 0) /\ NativeWork(q) \in Nat
  <2> DEFINE q == Physical(r, w, x, k)
  <2>1. 0 \in 0..w /\ (NeedsReceipts => k >= 0)
    OBVIOUS
  <2>2. q # <<>> /\ (\E T : q \in Seq(T)) /\ NativeWork(q) = k
    BY PhysicalTold
  <2>3. PhysicalValid(q, 0)
    BY <1>1, <2>1, PhysicalTold
  <2> HIDE DEF q
  <2>4. NativeWork(q) \in Nat
    BY <2>2
  <2> QED BY <2>2, <2>3, <2>4 DEF q
<1>2. CASE Strays(r, planned, o)
  <2> DEFINE s == Semantic(r, 0, "done")
             p == PhysicalStreams(r, planned, 0, 0, FALSE)
             good == Result(planned, s, 0, "done")
             q == Physical(r, 0, 0, 0)
  <2>0. p = <<>> \/ p = <<q>>
    <3>1. Receipts(planned, 0, 0, FALSE) = 0
      BY DEF Receipts
    <3> QED BY <3>1, PhysicalAre
  <2>1. \/ \E x \in {<<>>, <<<<>>>>, <<s, s>>, <<<<>>, s>>, <<<<Odd>>>>} :
             o = Outcome(x, p, good, FALSE)
        \/ o = Outcome(<<s>>, p, OtherResult, FALSE)
        \/ p # <<>> /\ \E x \in {<<<<>>>>, p \o p} : o = Outcome(<<s>>, x, good, FALSE)
    BY <1>2, Zenon DEF Strays
  <2>2. SemanticWork(s) = 0
    BY SemanticTold
  <2>3. /\ q # <<>> /\ (\E T : q \in Seq(T))
        /\ PhysicalValid(q, 0) /\ NativeWork(q) \in Nat
    BY <1>1
  <2> HIDE DEF s, p, good, q
  <2> DEFINE Sem(x) == \A i \in DOMAIN x : x[i] \in {<<>>, <<Odd>>, s}
             Phy(y) == \A i \in DOMAIN y : y[i] \in {<<>>, q}
  <2>4. Sem(o.semantic) /\ Phy(o.physical)
    <3>1. ASSUME NEW x \in {<<>>, <<<<>>>>, <<s, s>>, <<<<>>, s>>, <<<<Odd>>>>, <<s>>}
          PROVE  Sem(x)
      OBVIOUS
    <3>2. Phy(<<>>) /\ Phy(<<q>>) /\ Phy(<<<<>>>>)
      OBVIOUS
    <3>3. Phy(<<q>> \o <<q>>)
      <4> DEFINE z == <<q>> \o <<q>>
      <4>1. DOMAIN z = 1..2 /\ z[1] = q /\ z[2] = q
        BY Twice
      <4> HIDE DEF z
      <4>2. Phy(z)
        BY <4>1
      <4> QED BY <4>2 DEF z
    <3> HIDE DEF Sem, Phy
    <3>4. Phy(p) /\ (p # <<>> => Phy(p \o p))
      BY <2>0, <3>2, <3>3
    <3>5. \E x, y, res : /\ o = Outcome(x, y, res, FALSE)
                         /\ x \in {<<>>, <<<<>>>>, <<s, s>>, <<<<>>, s>>, <<<<Odd>>>>, <<s>>}
                         /\ y \in {p, <<<<>>>>} \/ (p # <<>> /\ y = p \o p)
      <4>1. CASE \E x \in {<<>>, <<<<>>>>, <<s, s>>, <<<<>>, s>>, <<<<Odd>>>>} :
                   o = Outcome(x, p, good, FALSE)
        BY <4>1
      <4>2. CASE o = Outcome(<<s>>, p, OtherResult, FALSE)
        BY <4>2
      <4>3. CASE p # <<>> /\ \E x \in {<<<<>>>>, p \o p} : o = Outcome(<<s>>, x, good, FALSE)
        BY <4>3
      <4> QED BY <2>1, <4>1, <4>2, <4>3
    <3>6. PICK x, y, res :
            /\ o = Outcome(x, y, res, FALSE)
            /\ x \in {<<>>, <<<<>>>>, <<s, s>>, <<<<>>, s>>, <<<<Odd>>>>, <<s>>}
            /\ y \in {p, <<<<>>>>} \/ (p # <<>> /\ y = p \o p)
      BY <3>5
    <3>7. o.semantic = x /\ o.physical = y
      BY <3>6 DEF Outcome
    <3>8. Sem(x) /\ Phy(y)
      BY <3>1, <3>2, <3>4, <3>6
    <3> QED BY <3>7, <3>8
  <2>5. ASSUME NEW i \in DOMAIN S PROVE SemanticWork(S[i]) = 0
    <3>1. PICK j \in DOMAIN o.semantic : S[i] = o.semantic[j] /\ o.semantic[j] # <<>>
      BY <1>0, RetainedFrom DEF Streamed
    <3>2. Odd \notin ToSet(o.semantic[j])
      BY DEF Encodable
    <3>3. Odd \in ToSet(<<Odd>>)
      BY DEF ToSet
    <3>4. S[i] = s
      BY <2>4, <3>1, <3>2, <3>3
    <3> QED BY <2>2, <3>4
  <2>6. ASSUME NEW i \in DOMAIN P PROVE P[i] = q
    <3>1. PICK j \in DOMAIN o.physical : P[i] = o.physical[j] /\ o.physical[j] # <<>>
      BY <1>0, RetainedFrom DEF Streamed
    <3> QED BY <2>4, <3>1
  <2> HIDE DEF S, P
  <2> QED BY <1>0, <2>3, <2>5, <2>6 DEF Covered, S, P
<1>3. CASE o = Outcome(<<>>, <<>>, NoResult, TRUE)
  <2>1. o.semantic = <<>> /\ o.physical = <<>>
    BY <1>3 DEF Outcome
  <2>2. DOMAIN S = {} /\ DOMAIN P = {}
    BY <2>1, NoneKept
  <2> HIDE DEF S, P
  <2> QED BY <2>2 DEF Covered, S, P
<1>4. CASE \E w \in {0, 1}, x \in {0, 1}, thrown \in BOOLEAN, reason \in {"done", "error"} :
             \E p \in {<<>>, PhysicalStreams(r, planned, w, x, thrown)} :
               o = Outcome(<<Semantic(r, w, reason)>>, p, NoResult, TRUE)
  <2>1. PICK w \in {0, 1}, x \in {0, 1}, thrown \in BOOLEAN, reason \in {"done", "error"} :
             \E p \in {<<>>, PhysicalStreams(r, planned, w, x, thrown)} :
               o = Outcome(<<Semantic(r, w, reason)>>, p, NoResult, TRUE)
    BY <1>4
  <2>2. PICK p \in {<<>>, PhysicalStreams(r, planned, w, x, thrown)} :
               o = Outcome(<<Semantic(r, w, reason)>>, p, NoResult, TRUE)
    BY <2>1
  <2> DEFINE s == Semantic(r, w, reason)
             k == Receipts(planned, w, x, thrown)
             q == Physical(r, w, x, k)
             waste == Having(q, "t4_waste_observation")
  <2>3. o.semantic = <<s>> /\ o.physical = p /\ o.raised = TRUE
    BY <2>2 DEF Outcome
  <2>4. k \in 0..2 /\ (k # 0 => NeedsReceipts) /\ (p = <<>> \/ p = <<q>>)
    BY <1>0, PhysicalAre
  <2>5. s # <<>> /\ SemanticWork(s) = w
    BY SemanticTold
  <2>6. /\ q # <<>> /\ NativeWork(q) = k
        /\ \A i \in waste : q[i].discarded = x
        /\ x # 0 => waste # {}
    <3>1. k \in 0..2
      BY <2>4
    <3> HIDE DEF k
    <3>2. q # <<>> /\ NativeWork(q) = k
      BY <3>1, PhysicalTold
    <3>3. \A i \in waste : q[i].discarded = x
      BY <3>1, WasteTold
    <3>4. x # 0 => waste # {}
      BY <3>1, WasteTold
    <3> QED BY <3>2, <3>3, <3>4
  <2>7. NeedsReceipts /\ k >= x => PhysicalValid(q, 0) /\ (\E T : q \in Seq(T)) /\ NativeWork(q) \in Nat
    BY <1>1, <2>4
  <2>8. ~NeedsReceipts => PhysicalValid(q, 0) /\ (\E T : q \in Seq(T)) /\ NativeWork(q) \in Nat
    BY <1>1, <2>4
  <2> HIDE DEF s, q, k
  <2>9. Len(S) = 1 /\ DOMAIN S = 1..1 /\ S[1] = s
    BY <2>3, <2>5, OneKept
  <2>10. NeedsReceipts => ~Unreceipted(o)
    BY <2>3
  <2> DEFINE a == [i \in DOMAIN o.semantic |-> SemanticWork(o.semantic[i])]
             b == [i \in DOMAIN o.physical |-> NativeWork(o.physical[i])]
  <2>11. NeedsReceipts => ~(Total(a) > Total(b))
    BY <2>10 DEF Unreceipted
  <2>12. Total(a) = w
    <3>1. a \in [1..1 -> Nat] /\ a[1] = w
      BY <2>3, <2>5
    <3> HIDE DEF a
    <3> QED BY <3>1, TotalSmall
  <2>13. CASE p = <<>>
    <3>1. Total(b) = 0
      <4>1. b \in [1..0 -> Nat]
        BY <2>3, <2>13
      <4>2. 0 \in 0..3 /\ ~(0 >= 1) /\ ~(0 >= 2) /\ ~(0 >= 3)
        OBVIOUS
      <4> HIDE DEF b
      <4>3. Total(b) = (IF 0 >= 1 THEN b[1] ELSE 0) + (IF 0 >= 2 THEN b[2] ELSE 0)
                         + (IF 0 >= 3 THEN b[3] ELSE 0)
        BY <4>1, <4>2, TotalSmall
      <4> QED BY <4>2, <4>3
    <3>2. DOMAIN P = {}
      BY <2>3, <2>13, NoneKept
    <3>3. NeedsReceipts => w = 0
      BY <2>11, <2>12, <3>1
    <3>4. NeedsReceipts => \A i \in DOMAIN S : SemanticWork(S[i]) = 0
      BY <2>5, <2>9, <3>3
    <3> HIDE DEF S, P
    <3> QED BY <1>0, <3>2, <3>4 DEF Covered, S, P
  <2>14. CASE p = <<q>>
    <3>1. Total(b) = k
      <4>1. b \in [1..1 -> Nat] /\ b[1] = k
        BY <2>3, <2>4, <2>6, <2>14
      <4> HIDE DEF b
      <4> QED BY <2>4, <4>1, TotalSmall
    <3>2. Len(P) = 1 /\ DOMAIN P = 1..1 /\ P[1] = q
      BY <2>3, <2>6, <2>14, OneKept
    <3>3. NeedsReceipts => k >= w
      BY <2>4, <2>11, <2>12, <3>1
    <3>4. NeedsReceipts => k >= x
      <4> SUFFICES ASSUME NeedsReceipts, x # 0 PROVE k >= x
        BY <2>4
      <4>1. PICK j \in waste : q[j].discarded = x
        BY <2>6
      <4>2. 1 \in DOMAIN o.physical /\ o.physical[1] = q
        BY <2>3, <2>14
      <4>3. ~(q[j].discarded > NativeWork(q))
        <5> HIDE DEF waste
        <5>1. ~ \E i \in DOMAIN o.physical :
                  \E l \in Having(o.physical[i], "t4_waste_observation") :
                    o.physical[i][l].discarded > NativeWork(o.physical[i])
          BY <2>10 DEF Unreceipted
        <5> QED BY <4>1, <4>2, <5>1 DEF waste
      <4> QED BY <2>4, <2>6, <4>1, <4>3
    <3>5. PhysicalValid(q, 0) /\ (\E T : q \in Seq(T)) /\ NativeWork(q) \in Nat
      BY <2>7, <2>8, <3>4
    <3>6. NeedsReceipts => NativeWork(P[1]) >= SemanticWork(S[1])
      BY <2>5, <2>6, <2>9, <3>2, <3>3
    <3> HIDE DEF S, P
    <3> QED BY <1>0, <2>6, <2>9, <3>2, <3>5, <3>6 DEF Covered, S, P
  <2> QED BY <2>4, <2>13, <2>14
<1> QED BY <1>2, <1>3, <1>4, <1>c, ExecutionCases DEF Raises

-----------------------------------------------------------------------------
(* What a runner has on disk when it seals is what the reviewer asks for.  *)
LEMMA SealedAccepted ==
  ASSUME ProgressInv PROVE SealedIsAccepted
<1> SUFFICES ASSUME NEW r \in Runners
             PROVE  /\ pc[r] = "sealed" /\ input[r] = planned /\ ~crashed =>
                         \/ Accepted
                         \/ NeedsReceipts /\ outcome[r].raised /\ Unreceipted(outcome[r])
                    /\ pc[r] = "failed" => ~Encodable(outcome[r].semantic)
  BY DEF SealedIsAccepted
<1>1. pc[r] = "failed" => ~Encodable(outcome[r].semantic)
  BY DEF ProgressInv, Progress
<1>2. ASSUME pc[r] = "sealed", input[r] = planned, ~crashed,
             ~(NeedsReceipts /\ outcome[r].raised /\ Unreceipted(outcome[r]))
      PROVE  Accepted
  <2> DEFINE o == outcome[r]
  <2>1. /\ o \in Executions(r, planned) /\ ProducerBound(r)
        /\ Encodable(o.semantic) /\ Complete(r, o)
    BY <1>2, SealedDisk
  <2>2. planned \in Plans
    BY DEF ProgressInv
  <2>3. PlannedOutput(r, o)
    BY <1>2, <2>1, <2>2 DEF PlannedOutput
  <2>4. CASE Presentable(o)
    BY <2>3, <2>4, PresentableAccepted DEF Accepted
  <2>5. CASE ~Presentable(o)
    <3>1. Covered(r, o)
      BY <1>2, <2>1, <2>2, <2>5, FailureCovered
    <3> QED BY <2>3, <2>5, <3>1, FailureAccepted DEF Accepted
  <2> QED BY <2>4, <2>5
<1> QED BY <1>1, <1>2

(* At every step the owner's files are on disk in the order it writes      *)
(* them, all of them once it has sealed, and a runner fails only over what *)
(* it cannot encode: of several started for a label, none writes into the  *)
(* directory of another, and write_exclusive never meets a file of its own.*)
THEOREM ProgressInvariant == Spec => []ProgressInv
<1>1. Init => ProgressInv
  BY InitProgress
<1>2. BundleInv /\ ProgressInv /\ [Next]_vars => ProgressInv'
  BY StepProgressInv DEF BundleInv
<1> QED BY <1>1, <1>2, BundleInvariant, PTL DEF Spec

(* Whatever a run of the plan seals is accepted by the reviewer, as a raw  *)
(* bundle or as a failure, unless it raised after native work that has no  *)
(* receipt; and a run that is not stopped fails to seal only if its        *)
(* semantic stream cannot be written down: runner.py and reviewer.py agree *)
(* on every execution, not only on those the tests hand over.              *)
THEOREM SealedTheorem == Spec => []SealedIsAccepted
<1>1. ProgressInv => SealedIsAccepted
  BY SealedAccepted
<1> QED BY <1>1, ProgressInvariant, PTL
=============================================================================
