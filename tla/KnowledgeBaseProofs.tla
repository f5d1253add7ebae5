------------------------- MODULE KnowledgeBaseProofs -------------------------
(***************************************************************************)
(* Proofs about KnowledgeBase: ingestions and activations that overlap     *)
(* read their rows without locks, and requests die in the middle, and      *)
(* still versions are numbered and chained, files follow their rows and a  *)
(* search shows one version of a document.                                 *)
(*                                                                         *)
(* The argument: the number an ingestion will write is at most one above   *)
(* the numbers in the table, so the unique key lets it commit only if it   *)
(* is exactly the next one; and an upload that was sent once has at most   *)
(* one request, which knows where its file is.                             *)
(*                                                                         *)
(* At the end, the windows that PolicyText cuts the text of a section      *)
(* into, for every text and every length of windows and their overlap.     *)
(***************************************************************************)
EXTENDS KnowledgeBase, PolicyText, FiniteSetTheorems, FunctionTheorems, SequenceTheorems,
        WellFoundedInduction, TLAPS

-----------------------------------------------------------------------------
(* The inductive invariant *)

Names == {Content[u].name : u \in Uploads}
Hashes == {Content[u].hash : u \in Uploads}
Label == Seq(Nat)
Status == {"draft", "active", "superseded"}

Document == [name : Names, current : Nat, latest : Nat]

Version ==
  [document : Nat, seq : Nat, label : Label, previous : Nat, status : Status,
   source : Uploads, hash : Hashes]

(* What a process knows at each point of its request.                      *)
UploadJob == [op : {"upload"}, pc : {"write"}, upload : Uploads]

FileJob ==
  [op : {"ingest"}, pc : {"mkdir", "move", "rmdir"}, upload : Uploads, target : Nat, label : Label]

PipelineJob ==
  [op : {"ingest", "retry"}, pc : {"pipeline", "document"}, upload : Uploads,
   target : Nat, label : Label]

ChosenJob ==
  [op : {"ingest", "retry"}, pc : {"versions"}, upload : Uploads, label : Label,
   document : Nat, previous : Nat]

SavingJob ==
  [op : {"ingest", "retry"}, pc : {"commit"}, upload : Uploads, document : Nat,
   previous : Nat, seq : Nat, label : Label]

PublishJob ==
  [op : {"publish"}, pc : {"activate"}, version : Nat, raced : BOOLEAN,
   status : Status, current : Nat]

SearchJob ==
  [op : {"search"}, pc : {"keywords"}, history : BOOLEAN, hits : SUBSET Nat, raced : BOOLEAN]

Job == {Idle} \cup UploadJob \cup FileJob \cup PipelineJob \cup ChosenJob \cup SavingJob
         \cup PublishJob \cup SearchJob

(* The highest number of a document is that of its latest version.         *)
Highest(D, V, d) == V[D[d].latest].seq

Linked(D, V) ==
  /\ \A v \in DOMAIN V : V[v].document \in DOMAIN D
  /\ \A d \in DOMAIN D :
       /\ D[d].latest \in DOMAIN V /\ V[D[d].latest].document = d
       /\ D[d].current # None => D[d].current \in DOMAIN V /\ V[D[d].current].document = d

Numbered(D, V) ==
  /\ \A v, w \in DOMAIN V : V[v].document = V[w].document /\ V[v].seq = V[w].seq => v = w
  /\ \A v \in DOMAIN V : V[v].seq \in 1..Highest(D, V, V[v].document)
  /\ \A d \in DOMAIN D : \A k \in 1..Highest(D, V, d) :
       \E v \in DOMAIN V : V[v].document = d /\ V[v].seq = k

Chained(V) ==
  \A v \in DOMAIN V :
    /\ V[v].previous = None <=> V[v].seq = 1
    /\ V[v].previous # None =>
         /\ V[v].previous \in DOMAIN V
         /\ V[V[v].previous].document = V[v].document
         /\ V[V[v].previous].seq < V[v].seq

RowsOK(D, V) ==
  /\ D \in Seq(Document) /\ V \in Seq(Version)
  /\ Linked(D, V) /\ Numbered(D, V) /\ Chained(V)

(* The choice of a document, of its previous version and of a number.      *)
Chooses(j, D, V) ==
  /\ j.document = None => j.previous = None
  /\ j.document # None =>
       /\ j.document \in DOMAIN D
       /\ j.previous \in DOMAIN V /\ V[j.previous].document = j.document

Numbers(j, D, V) ==
  /\ j.document = None => j.seq = 1
  /\ j.document # None => V[j.previous].seq < j.seq /\ j.seq <= Highest(D, V, j.document) + 1

(* An activation and a search that nothing raced know the rows as they are. *)
Publishes(j, D, V) ==
  /\ j.version \in DOMAIN V
  /\ j.current # None => j.current \in DOMAIN V /\ V[j.current].document = V[j.version].document
  /\ ~j.raced => j.status = V[j.version].status /\ j.current = D[V[j.version].document].current

Searches(j, D, V) ==
  ~j.raced /\ ~j.history =>
    \A v \in j.hits : v \in DOMAIN V /\ D[V[v].document].latest = v

JobOK(j, D, V) ==
  /\ j.op = "retry" => \E v \in DOMAIN V : V[v].source = j.upload
  /\ j.pc \in {"versions", "commit"} => Chooses(j, D, V)
  /\ j.pc = "commit" => Numbers(j, D, V)
  /\ j.pc = "activate" => Publishes(j, D, V)
  /\ j.pc = "keywords" => Searches(j, D, V)

ActiveIn(V, d) == {v \in DOMAIN V : V[v].document = d /\ V[v].status = "active"}

ActiveOK(D, V, except) ==
  \A d \in DOMAIN D \ except : ActiveIn(V, d) = {D[d].current} \ {None}

(* The request that uploads or ingests a file, and where the file then is. *)
Owns(j, u) == j.op \in {"upload", "ingest"} /\ j.upload = u

Handles(p, u) == Owns(job[p], u)

PlaceAt(pc) ==
  CASE pc \in {"write", "mkdir"} -> "none"
    [] pc = "move"               -> "dir"
    [] OTHER                     -> "file"

FileOK(u) ==
  /\ u \notin drawn =>
       /\ staged[u] = "none" /\ promoted[u] = "none" /\ answer[u] = "none"
       /\ \A p \in Processes : ~Handles(p, u)
  /\ \A p, q \in Processes : Handles(p, u) /\ Handles(q, u) => p = q
  /\ \A p \in Processes : Handles(p, u) =>
       /\ answer[u] = "none"
       /\ promoted[u] = PlaceAt(job[p].pc)
       /\ job[p].op = "upload" => u \notin offered
  /\ answer[u] = "none" /\ (\A p \in Processes : ~Handles(p, u)) => promoted[u] = "none"
  /\ answer[u] \in {"400", "503"} => staged[u] = "none" /\ promoted[u] = "none"
  /\ answer[u] = "ok" => promoted[u] = "file"
  /\ (\E v \in DOMAIN versions : versions[v].source = u) => answer[u] = "ok"

FileTypes ==
  /\ staged \in [Uploads -> {"none", "part", "file", "empty"}]
  /\ promoted \in [Uploads -> {"none", "dir", "file"}]
  /\ drawn \subseteq Uploads
  /\ expired \subseteq {u \in Uploads : staged[u] # "none"}
  /\ offered \subseteq drawn
  /\ answer \in [Uploads -> {"none", "ok", "stopped", "400", "500", "503"}]

Types ==
  /\ FileTypes
  /\ job \in [Processes -> Job]
  /\ \A p \in Processes : job[p].op \in {"upload", "ingest"} => job[p].upload \in drawn

JobsOK == \A p \in Processes : JobOK(job[p], documents, versions)

FilesOK == \A u \in Uploads \ resubmitted : FileOK(u)

IInv ==
  /\ Types
  /\ RowsOK(documents, versions)
  /\ JobsOK
  /\ ActiveOK(documents, versions, overlapped)
  /\ FilesOK

-----------------------------------------------------------------------------
(* Labels *)

\* A set of numbers has a least one.
LEMMA LeastOf ==
  ASSUME NEW T \in SUBSET Nat, T # {}
  PROVE  \E k \in T : \A j \in T : k <= j
<1> DEFINE R == OpToRel(<, Nat)
<1>1. IsWellFoundedOn(R, Nat)
  BY NatLessThanWellFounded
<1>2. PICK k \in T : \A j \in T : ~(<<j, k>> \in R)
  <2> HIDE DEF R
  <2>. QED  BY <1>1, WFMin
<1>3. \A j \in T : ~(j < k)
  BY <1>2 DEF OpToRel
<1>. QED  BY <1>3

\* The loop that looks for a free suffix ends, and ends in a new label
\* (_ensure_unique_version_label).
LEMMA UniqueLabelIsNew ==
  ASSUME NEW label \in Label, NEW existing, IsFiniteSet(existing)
  PROVE  UniqueLabel(label, existing) \in Label \ existing
<1> DEFINE c == Cardinality(existing)
           tries == 2 .. (c + 2)
           free == {k \in tries : Append(label, k) \notin existing}
<1>1. c \in Nat
  BY FS_CardinalityType
<1>2. tries \in SUBSET Nat /\ IsFiniteSet(tries) /\ Cardinality(tries) = c + 1
  <2> HIDE DEF c
  <2>1. 2 \in Int /\ c + 2 \in Int /\ ~(2 > c + 2) /\ (c + 2) - 2 + 1 = c + 1
    BY <1>1
  <2>2. IsFiniteSet(tries) /\ Cardinality(tries) = (c + 2) - 2 + 1
    BY <2>1, FS_Interval
  <2>. QED  BY <1>1, <2>1, <2>2
<1>3. free # {}
  <2>1. SUFFICES ASSUME free = {} PROVE FALSE
    OBVIOUS
  <2> DEFINE f == [k \in tries |-> Append(label, k)]
  <2>2. f \in [tries -> existing]
    BY <2>1
  <2>3. c < Cardinality(tries)
    BY <1>1, <1>2
  <2>4. \E j, k \in tries : j # k /\ f[j] = f[k]
    <3> HIDE DEF f, tries
    <3>. QED  BY <1>2, <2>2, <2>3, FS_PigeonHole
  <2>5. PICK j, k \in tries : j # k /\ Append(label, j) = Append(label, k)
    BY <2>4
  <2>6. label \in Seq(Nat) /\ j \in Nat /\ k \in Nat
    BY <1>2 DEF Label
  <2>7. Append(label, j)[Len(label) + 1] = j /\ Append(label, k)[Len(label) + 1] = k
    BY <2>6
  <2>. QED  BY <2>5, <2>7
<1>4. CASE label \notin existing
  BY <1>4 DEF UniqueLabel
<1>5. CASE label \in existing
  <2>1. free \in SUBSET Nat
    BY <1>2
  <2>2. PICK k \in free : \A j \in free : k <= j
    <3> HIDE DEF free
    <3>. QED  BY <1>3, <2>1, LeastOf
  <2> DEFINE least == CHOOSE i \in free : \A j \in free : i <= j
  <2>3. least \in free
    <3> HIDE DEF free
    <3>. QED  BY <2>2
  <2>4. UniqueLabel(label, existing) = Append(label, least)
    BY <1>5 DEF UniqueLabel
  <2>5. Append(label, least) \in Label \ existing
    BY <2>1, <2>3 DEF Label
  <2>. QED  BY <2>4, <2>5
<1>. QED  BY <1>4, <1>5

-----------------------------------------------------------------------------
(* Jobs *)

\* The place in a request tells what the process knows there.
LEMMA JobKinds ==
  ASSUME NEW j \in Job
  PROVE  /\ j.pc = "idle" => j = Idle
         /\ j.pc = "write" => j \in UploadJob
         /\ j.pc \in {"mkdir", "move", "rmdir"} => j \in FileJob
         /\ j.pc \in {"pipeline", "document"} => j \in PipelineJob
         /\ j.pc = "versions" => j \in ChosenJob
         /\ j.pc = "commit" => j \in SavingJob
         /\ j.pc = "activate" => j \in PublishJob
         /\ j.pc = "keywords" => j \in SearchJob
BY DEF Job, Idle, UploadJob, FileJob, PipelineJob, ChosenJob, SavingJob, PublishJob, SearchJob

\* The requests that know an upload, and the one that retries.
LEMMA JobUploads ==
  ASSUME NEW j \in Job
  PROVE  /\ j.op \in {"upload", "ingest", "retry"} => j.upload \in Uploads
         /\ j.op = "upload" <=> j.pc = "write"
         /\ j.op = "retry" => j.pc \in {"pipeline", "document", "versions", "commit"}
         /\ j.op = "ingest" =>
              j.pc \in {"mkdir", "move", "rmdir", "pipeline", "document", "versions", "commit"}
         /\ j.pc \in {"pipeline", "document", "versions", "commit"} => j.op \in {"ingest", "retry"}
         /\ j.pc \in {"mkdir", "move", "rmdir"} => j.op = "ingest"
         /\ j.op \in {"none", "upload", "ingest", "retry", "publish", "search"}
BY DEF Job, Idle, UploadJob, FileJob, PipelineJob, ChosenJob, SavingJob, PublishJob, SearchJob

-----------------------------------------------------------------------------
(* Rows *)

\* Rows are found by their place in the tables.
LEMMA RowFacts ==
  ASSUME NEW D \in Seq(Document), NEW V \in Seq(Version)
  PROVE  /\ DOMAIN D = 1..Len(D) /\ Len(D) \in Nat /\ \A d \in DOMAIN D : D[d] \in Document
         /\ DOMAIN V = 1..Len(V) /\ Len(V) \in Nat /\ \A v \in DOMAIN V : V[v] \in Version
BY LenProperties, ElementOfSeq

\* A version that the unique keys let in has the next number.
LEMMA NextNumber ==
  ASSUME NEW D, NEW V, RowsOK(D, V),
         NEW j \in SavingJob, Chooses(j, D, V), Numbers(j, D, V), j.document # None,
         \A v \in DOMAIN V : V[v].document = j.document => V[v].seq # j.seq
  PROVE  /\ j.seq = Highest(D, V, j.document) + 1
         /\ j.document \in DOMAIN D
         /\ Highest(D, V, j.document) \in Nat \ {0}
<1>1. D \in Seq(Document) /\ V \in Seq(Version)
  BY DEF RowsOK
<1>2. j.document \in DOMAIN D /\ j.previous \in DOMAIN V /\ V[j.previous].document = j.document
  BY DEF Chooses
<1> DEFINE h == Highest(D, V, j.document)
<1>3. D[j.document].latest \in DOMAIN V /\ V[D[j.document].latest].document = j.document
  BY <1>2 DEF RowsOK, Linked
<1>4. h \in Nat /\ h \in 1..h
  BY <1>1, <1>3, RowFacts DEF RowsOK, Numbered, Highest, Version
<1>5. V[j.previous].seq \in 1..h
  BY <1>2 DEF RowsOK, Numbered
<1>6. j.seq \in Nat /\ j.seq > V[j.previous].seq /\ j.seq <= h + 1
  BY DEF SavingJob, Numbers
<1>7. \A k \in 1..h : k # j.seq
  BY <1>2 DEF RowsOK, Numbered
<1>8. j.seq = h + 1
  <2> HIDE DEF h
  <2>. QED  BY <1>4, <1>5, <1>6, <1>7
<1>. QED  BY <1>2, <1>4, <1>8

(* What Save writes. *)
DocumentOf(D, j) == IF j.document = None THEN Len(D) + 1 ELSE j.document

SavedVersions(D, V, j) == Append(V, NewVersion(j, DocumentOf(D, j)))

SavedDocuments(D, V, j) ==
  IF j.document = None
  THEN Append(D, [name |-> Content[j.upload].name, current |-> None, latest |-> Len(V) + 1])
  ELSE [D EXCEPT ![DocumentOf(D, j)].latest = Len(V) + 1]

NumberIsFree(j, V) == \A v \in DOMAIN V : V[v].document = j.document => V[v].seq # j.seq

(* What an ingestion that may commit knows. *)
MaySave(j, D, V) ==
  /\ RowsOK(D, V)
  /\ j \in SavingJob
  /\ Chooses(j, D, V)
  /\ Numbers(j, D, V)
  /\ NumberIsFree(j, V)

(* One row is added, and the other rows are as they were. *)
OneRowAdded(D, V, j, D2, V2, d) ==
  /\ D2 \in Seq(Document) /\ V2 \in Seq(Version)
  /\ DOMAIN V2 = DOMAIN V \cup {Len(V) + 1} /\ Len(V) + 1 \notin DOMAIN V
  /\ \A v \in DOMAIN V : V2[v] = V[v]
  /\ V2[Len(V) + 1] = NewVersion(j, d)
  /\ DOMAIN D2 = DOMAIN D \cup {d}
  /\ d \in DOMAIN D <=> j.document # None
  /\ D2[d].latest = Len(V) + 1
  /\ j.document = None => D2[d].current = None
  /\ \A e \in DOMAIN D : D2[e].current = D[e].current
  /\ \A e \in DOMAIN D : e # d => D2[e].latest = D[e].latest

\* Save adds one version, to a document that may be new.
LEMMA SavedRows ==
  ASSUME NEW D, NEW V, NEW j, MaySave(j, D, V),
         NEW D2, D2 = SavedDocuments(D, V, j), NEW V2, V2 = SavedVersions(D, V, j),
         NEW d, d = DocumentOf(D, j)
  PROVE  OneRowAdded(D, V, j, D2, V2, d)
<1>1. D \in Seq(Document) /\ V \in Seq(Version) /\ j \in SavingJob
  BY DEF MaySave, RowsOK
<1>2. /\ DOMAIN D = 1..Len(D) /\ Len(D) \in Nat /\ \A e \in DOMAIN D : D[e] \in Document
      /\ DOMAIN V = 1..Len(V) /\ Len(V) \in Nat
  BY <1>1, RowFacts
<1>3. j.document # None => j.document \in DOMAIN D
  BY DEF MaySave, Chooses
<1>4. d \in Nat /\ (d \in DOMAIN D <=> j.document # None)
  BY <1>1, <1>2, <1>3 DEF DocumentOf, SavingJob, None
<1>5. NewVersion(j, d) \in Version
  BY <1>1, <1>4 DEF NewVersion, Version, SavingJob, Status, Hashes, Label
<1>6. V2 = Append(V, NewVersion(j, d))
  BY DEF SavedVersions
<1>7. /\ V2 \in Seq(Version) /\ Len(V2) = Len(V) + 1
      /\ \A v \in DOMAIN V : V2[v] = V[v]
      /\ V2[Len(V) + 1] = NewVersion(j, d)
  BY <1>1, <1>2, <1>5, <1>6, AppendProperties
<1>8. DOMAIN V2 = DOMAIN V \cup {Len(V) + 1} /\ Len(V) + 1 \notin DOMAIN V
  BY <1>2, <1>7
<1>9. CASE j.document = None
  <2> DEFINE new == [name |-> Content[j.upload].name, current |-> None, latest |-> Len(V) + 1]
  <2>1. new \in Document
    BY <1>1, <1>2 DEF Document, SavingJob, Names, None
  <2>2. D2 = Append(D, new) /\ d = Len(D) + 1
    BY <1>9 DEF SavedDocuments, DocumentOf
  <2> HIDE DEF new
  <2>3. /\ D2 \in Seq(Document) /\ Len(D2) = Len(D) + 1
        /\ \A e \in DOMAIN D : D2[e] = D[e]
        /\ D2[Len(D) + 1] = new
    BY <1>1, <1>2, <2>1, <2>2, AppendProperties
  <2>4. DOMAIN D2 = DOMAIN D \cup {d}
    BY <1>2, <2>2, <2>3
  <2>5. new.latest = Len(V) + 1 /\ new.current = None
    BY DEF new
  <2>. QED  BY <1>4, <1>7, <1>8, <1>9, <2>2, <2>3, <2>4, <2>5 DEF OneRowAdded
<1>10. CASE j.document # None
  <2>1. D2 = [D EXCEPT ![d].latest = Len(V) + 1] /\ d = j.document /\ d \in DOMAIN D
    BY <1>3, <1>10 DEF SavedDocuments, DocumentOf
  <2>2. [D[d] EXCEPT !.latest = Len(V) + 1] \in Document
    BY <1>2, <2>1 DEF Document
  <2>3. DOMAIN D2 = DOMAIN D
    BY <2>1
  <2>4. /\ D2[d] = [D[d] EXCEPT !.latest = Len(V) + 1]
        /\ \A e \in DOMAIN D : e # d => D2[e] = D[e]
    BY <2>1
  <2>5. D2[d].latest = Len(V) + 1 /\ D2[d].current = D[d].current
    BY <1>2, <2>1, <2>4 DEF Document
  <2>6. D2 \in Seq(Document)
    <3>1. \A e \in 1..Len(D) : D2[e] \in Document
      BY <1>2, <2>2, <2>4
    <3>2. D2 = [e \in 1..Len(D) |-> D2[e]]
      BY <1>2, <2>1
    <3>. QED  BY <1>2, <3>1, <3>2, IsASeq
  <2>. QED  BY <1>4, <1>7, <1>8, <1>10, <2>1, <2>3, <2>4, <2>5, <2>6 DEF OneRowAdded
<1>. QED  BY <1>9, <1>10

\* A commit keeps the numbers and the chain: the new version is the next one
\* of its document (_create_version).
LEMMA RowsSaved ==
  ASSUME NEW D, NEW V, NEW j, MaySave(j, D, V),
         NEW D2, D2 = SavedDocuments(D, V, j), NEW V2, V2 = SavedVersions(D, V, j)
  PROVE  RowsOK(D2, V2)
<1> DEFINE d == DocumentOf(D, j)
           n == Len(V) + 1
<1>1. /\ RowsOK(D, V) /\ j \in SavingJob /\ Chooses(j, D, V) /\ Numbers(j, D, V)
      /\ NumberIsFree(j, V)
  BY DEF MaySave
<1>2. /\ D2 \in Seq(Document) /\ V2 \in Seq(Version)
      /\ DOMAIN V2 = DOMAIN V \cup {n} /\ n \notin DOMAIN V
      /\ \A v \in DOMAIN V : V2[v] = V[v]
      /\ V2[n] = NewVersion(j, d)
      /\ DOMAIN D2 = DOMAIN D \cup {d}
      /\ d \in DOMAIN D <=> j.document # None
      /\ D2[d].latest = n
      /\ j.document = None => D2[d].current = None
      /\ \A e \in DOMAIN D : D2[e].current = D[e].current
      /\ \A e \in DOMAIN D : e # d => D2[e].latest = D[e].latest
  <2>1. d = DocumentOf(D, j)
    OBVIOUS
  <2> HIDE DEF d
  <2>2. OneRowAdded(D, V, j, D2, V2, d)
    BY <2>1, SavedRows
  <2>. QED  BY <2>2 DEF OneRowAdded
<1>3. /\ V2[n].document = d /\ V2[n].seq = j.seq /\ V2[n].previous = j.previous
      /\ n \in DOMAIN V2
  BY <1>2 DEF NewVersion
<1>4. j.document # None => d = j.document /\ j.seq = Highest(D, V, d) + 1 /\ Highest(D, V, d) \in Nat
  BY <1>1, NextNumber DEF DocumentOf, NumberIsFree
<1>5. j.document = None => j.seq = 1 /\ j.previous = None
  BY <1>1 DEF Numbers, Chooses
<1>6. j.document # None => j.previous \in DOMAIN V /\ V[j.previous].document = d /\ V[j.previous].seq < j.seq
  BY <1>1, <1>4 DEF Numbers, Chooses
<1>7. j.seq \in Nat
  BY <1>1 DEF SavingJob
<1>8. /\ \A v \in DOMAIN V : V[v] \in Version /\ v \in Nat \ {0}
      /\ n \in Nat \ {0}
  BY <1>1, RowFacts DEF RowsOK
<1> HIDE DEF d, n
<1>9. Linked(D2, V2)
  <2>1. ASSUME NEW v \in DOMAIN V2 PROVE V2[v].document \in DOMAIN D2
    BY <1>1, <1>2, <1>3 DEF RowsOK, Linked
  <2>2. \A e \in DOMAIN D :
          /\ D[e].latest \in DOMAIN V /\ V[D[e].latest].document = e
          /\ D[e].current # None => D[e].current \in DOMAIN V /\ V[D[e].current].document = e
    BY <1>1 DEF RowsOK, Linked
  <2>3. ASSUME NEW e \in DOMAIN D2
        PROVE  D2[e].latest \in DOMAIN V2 /\ V2[D2[e].latest].document = e
    <3>1. CASE e = d
      BY <1>2, <1>3, <3>1
    <3>2. CASE e # d
      BY <1>2, <2>2, <3>2
    <3>. QED  BY <3>1, <3>2
  <2>4. ASSUME NEW e \in DOMAIN D2, D2[e].current # None
        PROVE  D2[e].current \in DOMAIN V2 /\ V2[D2[e].current].document = e
    <3>1. e \in DOMAIN D
      BY <1>2, <2>4
    <3>2. \A c \in DOMAIN D : D2[c].current = D[c].current
      BY <1>2
    <3>3. D2[e].current = D[e].current
      BY <3>1, <3>2
    <3>. QED  BY <1>2, <2>2, <2>4, <3>1, <3>3
  <2>. QED  BY <2>1, <2>3, <2>4 DEF Linked
<1>10. /\ Highest(D2, V2, d) = j.seq
       /\ \A e \in DOMAIN D : e # d => Highest(D2, V2, e) = Highest(D, V, e)
  <2>1. Highest(D2, V2, d) = j.seq
    BY <1>2, <1>3 DEF Highest
  <2>2. ASSUME NEW e \in DOMAIN D, e # d PROVE Highest(D2, V2, e) = Highest(D, V, e)
    <3>1. D[e].latest \in DOMAIN V
      BY <1>1 DEF RowsOK, Linked
    <3>2. D2[e].latest = D[e].latest
      BY <1>2, <2>2
    <3>. QED  BY <1>2, <3>1, <3>2 DEF Highest
  <2>. QED  BY <2>1, <2>2
<1>11. /\ \A v \in DOMAIN V : V[v].document \in DOMAIN D
       /\ \A v, w \in DOMAIN V : V[v].document = V[w].document /\ V[v].seq = V[w].seq => v = w
       /\ \A v \in DOMAIN V : V[v].seq \in 1..Highest(D, V, V[v].document)
       /\ \A e \in DOMAIN D : \A k \in 1..Highest(D, V, e) :
            \E v \in DOMAIN V : V[v].document = e /\ V[v].seq = k
  BY <1>1 DEF RowsOK, Numbered, Linked
<1>12. Numbered(D2, V2)
  <2>1. \A v \in DOMAIN V : V[v].document = d => V[v].seq < j.seq /\ V[v].seq # j.seq
    <3>1. CASE j.document = None
      BY <1>2, <1>11, <3>1
    <3>2. CASE j.document # None
      BY <1>4, <1>8, <1>11, <3>2 DEF Version
    <3>. QED  BY <3>1, <3>2
  <2>2. ASSUME NEW v \in DOMAIN V2, NEW w \in DOMAIN V2,
               V2[v].document = V2[w].document, V2[v].seq = V2[w].seq
        PROVE  v = w
    BY <1>2, <1>3, <1>11, <2>1, <2>2
  <2>3. ASSUME NEW v \in DOMAIN V2 PROVE V2[v].seq \in 1..Highest(D2, V2, V2[v].document)
    <3>1. CASE v = n
      <4>1. j.seq \in 1..j.seq
        BY <1>4, <1>5, <1>7
      <4>. QED  BY <1>3, <1>10, <3>1, <4>1
    <3>2. CASE v \in DOMAIN V /\ V[v].document = d
      <4>1. V[v].seq \in 1..j.seq
        <5>1. V[v].seq \in 1..Highest(D, V, d) /\ V[v].seq < j.seq
          BY <1>11, <2>1, <3>2
        <5>2. V[v].seq \in Nat
          BY <1>8, <3>2 DEF Version
        <5>3. V[v].seq >= 1
          <6>1. j.document # None
            BY <1>2, <1>11, <3>2
          <6>. QED  BY <1>4, <5>1, <6>1
        <5>. QED  BY <1>7, <5>1, <5>2, <5>3
      <4>. QED  BY <1>2, <1>10, <3>2, <4>1
    <3>3. CASE v \in DOMAIN V /\ V[v].document # d
      BY <1>2, <1>10, <1>11, <3>3
    <3>. QED  BY <1>2, <3>1, <3>2, <3>3
  <2>4. ASSUME NEW e \in DOMAIN D2, NEW k \in 1..Highest(D2, V2, e)
        PROVE  \E v \in DOMAIN V2 : V2[v].document = e /\ V2[v].seq = k
    <3>1. CASE e = d
      <4>1. k \in 1..j.seq
        BY <1>10, <3>1
      <4>2. CASE k = j.seq
        BY <1>3, <3>1, <4>2
      <4>3. CASE k # j.seq
        <5>1. j.document # None /\ k \in 1..Highest(D, V, d)
          BY <1>4, <1>5, <1>7, <4>1, <4>3
        <5>2. PICK v \in DOMAIN V : V[v].document = d /\ V[v].seq = k
          BY <1>2, <1>11, <5>1
        <5>. QED  BY <1>2, <3>1, <5>2
      <4>. QED  BY <4>2, <4>3
    <3>2. CASE e # d
      <4>1. e \in DOMAIN D /\ k \in 1..Highest(D, V, e)
        BY <1>2, <1>10, <3>2
      <4>2. PICK v \in DOMAIN V : V[v].document = e /\ V[v].seq = k
        BY <1>11, <4>1
      <4>. QED  BY <1>2, <4>2
    <3>. QED  BY <3>1, <3>2
  <2>. QED  BY <2>2, <2>3, <2>4 DEF Numbered
<1>13. Chained(V2)
  <2>1. ASSUME NEW v \in DOMAIN V
        PROVE  /\ V2[v].previous = None <=> V2[v].seq = 1
               /\ V2[v].previous # None =>
                    /\ V2[v].previous \in DOMAIN V2
                    /\ V2[V2[v].previous].document = V2[v].document
                    /\ V2[V2[v].previous].seq < V2[v].seq
    BY <1>1, <1>2 DEF RowsOK, Chained
  <2>2. /\ j.previous = None <=> j.seq = 1
        /\ j.previous # None =>
             /\ j.previous \in DOMAIN V
             /\ V[j.previous].document = d
             /\ V[j.previous].seq < j.seq
    <3>1. CASE j.document = None
      BY <1>5, <3>1
    <3>2. CASE j.document # None
      <4>1. V[j.previous].seq \in 1..Highest(D, V, d) /\ V[j.previous].seq < j.seq
        BY <1>6, <1>11, <3>2
      <4>2. Highest(D, V, d) \in Nat
        BY <1>4, <3>2
      <4>3. j.seq # 1
        <5> DEFINE s == V[j.previous].seq
                   h == Highest(D, V, d)
        <5>1. s \in 1..h /\ s < j.seq /\ h \in Nat
          BY <4>1, <4>2
        <5> HIDE DEF s, h
        <5>. QED  BY <1>7, <5>1
      <4>. QED  BY <1>6, <1>8, <3>2, <4>3 DEF None
    <3>. QED  BY <3>1, <3>2
  <2>. QED  BY <1>2, <1>3, <2>1, <2>2 DEF Chained
<1>. QED  BY <1>2, <1>9, <1>12, <1>13 DEF RowsOK

(* A search that is between its queries when something is committed.       *)
Noticed(k) == IF k.pc = "keywords" THEN [k EXCEPT !.raced = TRUE] ELSE k

LEMMA NoticedJob ==
  ASSUME NEW k \in Job
  PROVE  /\ Noticed(k) \in Job
         /\ Noticed(k).op = k.op /\ Noticed(k).pc = k.pc
         /\ k.pc # "keywords" => Noticed(k) = k
         /\ k.pc = "keywords" => Noticed(k).raced
<1>1. CASE k.pc = "keywords"
  <2>1. k \in SearchJob
    BY <1>1, JobKinds
  <2>2. Noticed(k) = [k EXCEPT !.raced = TRUE]
    BY <1>1 DEF Noticed
  <2>3. [k EXCEPT !.raced = TRUE] \in SearchJob
    BY <2>1 DEF SearchJob
  <2>4. [k EXCEPT !.raced = TRUE].raced /\ [k EXCEPT !.raced = TRUE].op = k.op
        /\ [k EXCEPT !.raced = TRUE].pc = k.pc
    BY <2>1 DEF SearchJob
  <2>. QED  BY <1>1, <2>2, <2>3, <2>4 DEF Job
<1>2. CASE k.pc # "keywords"
  BY <1>2 DEF Noticed
<1>. QED  BY <1>1, <1>2

\* What the other requests know stays true when a version is saved.
LEMMA JobSaved ==
  ASSUME NEW D, NEW V, NEW j, MaySave(j, D, V),
         NEW D2, D2 = SavedDocuments(D, V, j), NEW V2, V2 = SavedVersions(D, V, j),
         NEW k \in Job, JobOK(k, D, V)
  PROVE  JobOK(Noticed(k), D2, V2)
<1> DEFINE d == DocumentOf(D, j)
           n == Len(V) + 1
           r == Noticed(k)
<1>1. RowsOK(D, V) /\ j \in SavingJob
  BY DEF MaySave
<1>2. /\ DOMAIN V2 = DOMAIN V \cup {n} /\ n \notin DOMAIN V
      /\ \A v \in DOMAIN V : V2[v] = V[v]
      /\ V2[n] = NewVersion(j, d)
      /\ DOMAIN D2 = DOMAIN D \cup {d}
      /\ d \in DOMAIN D <=> j.document # None
      /\ D2[d].latest = n
      /\ \A e \in DOMAIN D : D2[e].current = D[e].current
      /\ \A e \in DOMAIN D : e # d => D2[e].latest = D[e].latest
  <2>1. d = DocumentOf(D, j)
    OBVIOUS
  <2> HIDE DEF d
  <2>2. OneRowAdded(D, V, j, D2, V2, d)
    BY <2>1, SavedRows
  <2>. QED  BY <2>2 DEF OneRowAdded
<1>3. r.op = k.op /\ r.pc = k.pc /\ (k.pc # "keywords" => r = k) /\ (k.pc = "keywords" => r.raced)
  BY NoticedJob
<1>4. /\ \A e \in DOMAIN D : D[e].latest \in DOMAIN V /\ V[D[e].latest].document = e
      /\ \A v \in DOMAIN V : V[v].document \in DOMAIN D
      /\ \A v \in DOMAIN V : V[v] \in Version
  BY <1>1, RowFacts DEF RowsOK, Linked
<1>5. j.document # None => d = j.document /\ j.seq = Highest(D, V, d) + 1 /\ Highest(D, V, d) \in Nat
  <2>1. j.document # None => d = j.document
    BY DEF DocumentOf
  <2> HIDE DEF d
  <2>. QED  BY <1>1, <2>1, NextNumber DEF NumberIsFree, MaySave
<1>6. V2[n].seq = j.seq
  BY <1>2 DEF NewVersion
<1> HIDE DEF d, n, r
<1>7. \A e \in DOMAIN D : \/ Highest(D2, V2, e) = Highest(D, V, e)
                          \/ Highest(D2, V2, e) = Highest(D, V, e) + 1
  BY <1>2, <1>4, <1>5, <1>6 DEF Highest
<1>8. r.op = "retry" => \E v \in DOMAIN V2 : V2[v].source = r.upload
  <2>1. r.op = "retry" => r = k
    BY <1>3, JobUploads
  <2>. QED  BY <1>2, <1>3, <2>1 DEF JobOK
<1>9. r.pc \in {"versions", "commit"} => Chooses(r, D2, V2)
  BY <1>2, <1>3 DEF JobOK, Chooses
<1>10. r.pc = "commit" => Numbers(r, D2, V2)
  <2>1. SUFFICES ASSUME r.pc = "commit" PROVE Numbers(k, D2, V2)
    BY <1>3
  <2>2. k.pc = "commit" /\ k \in SavingJob /\ Chooses(k, D, V) /\ Numbers(k, D, V)
    BY <1>3, <2>1, JobKinds DEF JobOK
  <2>3. CASE k.document = None
    BY <2>2, <2>3 DEF Numbers
  <2>4. CASE k.document # None
    <3>1. k.document \in DOMAIN D /\ k.previous \in DOMAIN V
      BY <2>2, <2>4 DEF Chooses
    <3> DEFINE h == Highest(D, V, k.document)
               h2 == Highest(D2, V2, k.document)
    <3>2. k.seq <= h + 1 /\ V[k.previous].seq < k.seq
      BY <2>2, <2>4 DEF Numbers
    <3>3. h \in Nat /\ k.seq \in Nat
      BY <1>4, <2>2, <3>1 DEF Highest, Version, SavingJob
    <3>4. h2 = h \/ h2 = h + 1
      BY <1>7, <3>1
    <3>5. k.seq <= h2 + 1
      <4> HIDE DEF h, h2
      <4>. QED  BY <3>2, <3>3, <3>4
    <3>. QED  BY <1>2, <2>4, <3>1, <3>2, <3>5 DEF Numbers
  <2>. QED  BY <2>3, <2>4
<1>11. r.pc = "activate" => Publishes(r, D2, V2)
  <2>1. SUFFICES ASSUME r.pc = "activate" PROVE Publishes(k, D2, V2)
    BY <1>3
  <2>2. Publishes(k, D, V)
    BY <1>3, <2>1 DEF JobOK
  <2>3. V[k.version].document \in DOMAIN D
    BY <1>4, <2>2 DEF Publishes
  <2>. QED  BY <1>2, <2>2, <2>3 DEF Publishes
<1>12. r.pc = "keywords" => Searches(r, D2, V2)
  BY <1>3 DEF Searches
<1>13. JobOK(r, D2, V2)
  BY <1>8, <1>9, <1>10, <1>11, <1>12 DEF JobOK
<1>. QED  BY <1>13 DEF r

\* A draft is saved and the others keep their status.
LEMMA ActiveSaved ==
  ASSUME NEW D, NEW V, NEW j, MaySave(j, D, V),
         NEW D2, D2 = SavedDocuments(D, V, j), NEW V2, V2 = SavedVersions(D, V, j),
         NEW except, ActiveOK(D, V, except)
  PROVE  ActiveOK(D2, V2, except)
<1> DEFINE d == DocumentOf(D, j)
           n == Len(V) + 1
<1>1. RowsOK(D, V) /\ j \in SavingJob
  BY DEF MaySave
<1>2. /\ DOMAIN V2 = DOMAIN V \cup {n} /\ n \notin DOMAIN V
      /\ \A v \in DOMAIN V : V2[v] = V[v]
      /\ V2[n] = NewVersion(j, d)
      /\ DOMAIN D2 = DOMAIN D \cup {d}
      /\ d \in DOMAIN D <=> j.document # None
      /\ j.document = None => D2[d].current = None
      /\ \A e \in DOMAIN D : D2[e].current = D[e].current
  <2>1. d = DocumentOf(D, j)
    OBVIOUS
  <2> HIDE DEF d
  <2>2. OneRowAdded(D, V, j, D2, V2, d)
    BY <2>1, SavedRows
  <2>. QED  BY <2>2 DEF OneRowAdded
<1>3. V2[n].status = "draft"
  BY <1>2 DEF NewVersion
<1>4. \A v \in DOMAIN V : V[v].document \in DOMAIN D
  BY <1>1 DEF RowsOK, Linked
<1> HIDE DEF d, n
<1>5. \A e : ActiveIn(V2, e) = ActiveIn(V, e)
  BY <1>2, <1>3 DEF ActiveIn
<1>6. ASSUME NEW e \in DOMAIN D2 \ except PROVE ActiveIn(V2, e) = {D2[e].current} \ {None}
  <2>1. CASE e \in DOMAIN D
    BY <1>2, <1>5, <1>6, <2>1 DEF ActiveOK
  <2>2. CASE e \notin DOMAIN D
    <3>1. e = d /\ D2[e].current = None
      BY <1>2, <1>6, <2>2
    <3>2. ActiveIn(V, e) = {}
      BY <1>4, <2>2 DEF ActiveIn
    <3>. QED  BY <1>5, <3>1, <3>2
  <2>. QED  BY <2>1, <2>2
<1>. QED  BY <1>6 DEF ActiveOK

-----------------------------------------------------------------------------
(* Activations *)

(* What PublishCommit writes. *)
StatusAfter(V, j, v) ==
  CASE v = j.version -> IF j.status = "active" THEN V[v].status ELSE "active"
    [] v # j.version /\ v = j.current -> "superseded"
    [] OTHER -> V[v].status

PublishedVersions(V, j) == [v \in DOMAIN V |-> [V[v] EXCEPT !.status = StatusAfter(V, j, v)]]

PublishedDocuments(D, V, j) ==
  IF j.current = j.version THEN D
  ELSE [D EXCEPT ![V[j.version].document].current = j.version]

(* An activation of the same document, or a search, notices the commit.    *)
Alerted(k, d, V) ==
  IF k.op = "publish" /\ V[k.version].document = d
  THEN [k EXCEPT !.raced = TRUE] ELSE Noticed(k)

MayPublish(j, D, V) ==
  /\ RowsOK(D, V)
  /\ j \in PublishJob
  /\ Publishes(j, D, V)

(* Nothing but the status of versions and a current version changes. *)
StatusWritten(D, V, j, D2, V2, d) ==
  /\ D2 \in Seq(Document) /\ V2 \in Seq(Version)
  /\ DOMAIN D2 = DOMAIN D /\ DOMAIN V2 = DOMAIN V
  /\ \A v \in DOMAIN V :
       /\ V2[v].document = V[v].document /\ V2[v].seq = V[v].seq
       /\ V2[v].previous = V[v].previous /\ V2[v].source = V[v].source
       /\ V2[v].status = StatusAfter(V, j, v)
  /\ d \in DOMAIN D
  /\ \A e \in DOMAIN D :
       /\ D2[e].latest = D[e].latest
       /\ e # d => D2[e].current = D[e].current
  /\ D2[d].current = IF j.current = j.version THEN D[d].current ELSE j.version

LEMMA PublishedRows ==
  ASSUME NEW D, NEW V, NEW j, MayPublish(j, D, V),
         NEW D2, D2 = PublishedDocuments(D, V, j), NEW V2, V2 = PublishedVersions(V, j),
         NEW d, d = V[j.version].document
  PROVE  StatusWritten(D, V, j, D2, V2, d)
<1>1. D \in Seq(Document) /\ V \in Seq(Version) /\ j \in PublishJob
  BY DEF MayPublish, RowsOK
<1>2. /\ DOMAIN D = 1..Len(D) /\ Len(D) \in Nat /\ \A e \in DOMAIN D : D[e] \in Document
      /\ DOMAIN V = 1..Len(V) /\ Len(V) \in Nat /\ \A v \in DOMAIN V : V[v] \in Version
  BY <1>1, RowFacts
<1>3. j.version \in DOMAIN V /\ d \in DOMAIN D
  BY DEF MayPublish, Publishes, RowsOK, Linked
<1>4. \A v \in DOMAIN V : StatusAfter(V, j, v) \in Status
  <2> TAKE v \in DOMAIN V
  <2>1. V[v].status \in Status /\ "active" \in Status /\ "superseded" \in Status
    BY <1>2 DEF Version, Status
  <2>2. CASE v = j.version
    BY <2>1, <2>2 DEF StatusAfter
  <2>3. CASE v # j.version /\ v = j.current
    BY <2>1, <2>3 DEF StatusAfter
  <2>4. CASE v # j.version /\ v # j.current
    BY <2>1, <2>4 DEF StatusAfter
  <2>. QED  BY <2>2, <2>3, <2>4
<1>5. DOMAIN V2 = DOMAIN V /\ \A v \in DOMAIN V : V2[v] = [V[v] EXCEPT !.status = StatusAfter(V, j, v)]
  BY DEF PublishedVersions
<1>6. ASSUME NEW v \in DOMAIN V
      PROVE  /\ V2[v] \in Version
             /\ V2[v].document = V[v].document /\ V2[v].seq = V[v].seq
             /\ V2[v].previous = V[v].previous /\ V2[v].source = V[v].source
             /\ V2[v].status = StatusAfter(V, j, v)
  <2> DEFINE s == StatusAfter(V, j, v)
  <2>1. V2[v] = [V[v] EXCEPT !.status = s] /\ s \in Status /\ V[v] \in Version
    BY <1>2, <1>4, <1>5
  <2> HIDE DEF s
  <2>2. /\ V2[v] \in Version
        /\ V2[v].document = V[v].document /\ V2[v].seq = V[v].seq
        /\ V2[v].previous = V[v].previous /\ V2[v].source = V[v].source
        /\ V2[v].status = s
    BY <2>1 DEF Version
  <2>. QED  BY <2>2 DEF s
<1>7. V2 \in Seq(Version)
  <2>1. V2 = [v \in 1..Len(V) |-> V2[v]]
    BY <1>2, <1>5 DEF PublishedVersions
  <2>. QED  BY <1>2, <1>6, <2>1, IsASeq
<1>8. CASE j.current = j.version
  <2>1. D2 = D
    BY <1>8 DEF PublishedDocuments
  <2>. QED  BY <1>1, <1>3, <1>5, <1>6, <1>7, <1>8, <2>1 DEF StatusWritten
<1>9. CASE j.current # j.version
  <2>1. D2 = [D EXCEPT ![d].current = j.version]
    BY <1>9 DEF PublishedDocuments
  <2>2. DOMAIN D2 = DOMAIN D /\ D2[d] = [D[d] EXCEPT !.current = j.version]
        /\ \A e \in DOMAIN D : e # d => D2[e] = D[e]
    BY <1>3, <2>1
  <2>3. D2[d] \in Document /\ D2[d].current = j.version /\ D2[d].latest = D[d].latest
    BY <1>1, <1>2, <1>3, <2>2 DEF Document, PublishJob
  <2>4. D2 \in Seq(Document)
    <3>1. \A e \in 1..Len(D) : D2[e] \in Document
      BY <1>2, <2>2, <2>3
    <3>2. D2 = [e \in 1..Len(D) |-> D2[e]]
      BY <1>2, <2>1
    <3>. QED  BY <1>2, <3>1, <3>2, IsASeq
  <2>. QED  BY <1>3, <1>5, <1>6, <1>7, <1>9, <2>2, <2>3, <2>4 DEF StatusWritten
<1>. QED  BY <1>8, <1>9

\* An activation changes neither numbers nor the chain.
LEMMA RowsPublished ==
  ASSUME NEW D, NEW V, NEW j, MayPublish(j, D, V),
         NEW D2, D2 = PublishedDocuments(D, V, j), NEW V2, V2 = PublishedVersions(V, j)
  PROVE  RowsOK(D2, V2)
<1> DEFINE d == V[j.version].document
<1>0. StatusWritten(D, V, j, D2, V2, d)
  <2>1. d = V[j.version].document
    OBVIOUS
  <2> HIDE DEF d
  <2>. QED  BY <2>1, PublishedRows
<1>1. /\ RowsOK(D, V) /\ j.version \in DOMAIN V
      /\ j.current # None => j.current \in DOMAIN V /\ V[j.current].document = d
  BY DEF MayPublish, Publishes
<1> HIDE DEF d
<1>2. /\ D2 \in Seq(Document) /\ V2 \in Seq(Version)
      /\ DOMAIN D2 = DOMAIN D /\ DOMAIN V2 = DOMAIN V
      /\ \A v \in DOMAIN V : V2[v].document = V[v].document
      /\ \A v \in DOMAIN V : V2[v].seq = V[v].seq
      /\ \A v \in DOMAIN V : V2[v].previous = V[v].previous
      /\ \A e \in DOMAIN D : D2[e].latest = D[e].latest
      /\ \A e \in DOMAIN D : e # d => D2[e].current = D[e].current
      /\ d \in DOMAIN D
      /\ D2[d].current = IF j.current = j.version THEN D[d].current ELSE j.version
  BY <1>0 DEF StatusWritten
<1>3. V[j.version].document = d
  BY DEF d
<1>4. /\ \A v \in DOMAIN V : V[v].document \in DOMAIN D
      /\ \A e \in DOMAIN D :
           /\ D[e].latest \in DOMAIN V /\ V[D[e].latest].document = e
           /\ D[e].current # None => D[e].current \in DOMAIN V /\ V[D[e].current].document = e
  BY <1>1 DEF RowsOK, Linked
<1>5. Linked(D2, V2)
  <2>1. ASSUME NEW e \in DOMAIN D, D2[e].current # None
        PROVE  D2[e].current \in DOMAIN V2 /\ V2[D2[e].current].document = e
    <3>1. CASE e = d /\ j.current # j.version
      BY <1>1, <1>2, <1>3, <3>1
    <3>2. CASE ~(e = d /\ j.current # j.version)
      <4>1. D2[e].current = D[e].current
        BY <1>2, <3>2
      <4>2. D[e].current \in DOMAIN V /\ V[D[e].current].document = e
        BY <1>4, <2>1, <4>1
      <4>3. V2[D[e].current].document = V[D[e].current].document
        BY <1>2, <4>2
      <4>. QED  BY <1>2, <4>1, <4>2, <4>3
    <3>. QED  BY <3>1, <3>2
  <2>2. ASSUME NEW e \in DOMAIN D
        PROVE  D2[e].latest \in DOMAIN V2 /\ V2[D2[e].latest].document = e
    <3>1. D[e].latest \in DOMAIN V /\ V[D[e].latest].document = e /\ D2[e].latest = D[e].latest
      BY <1>2, <1>4
    <3>2. V2[D[e].latest].document = V[D[e].latest].document
      BY <1>2, <3>1
    <3>. QED  BY <1>2, <3>1, <3>2
  <2>3. \A v \in DOMAIN V2 : V2[v].document \in DOMAIN D2
    BY <1>2, <1>4
  <2>. QED  BY <1>2, <2>1, <2>2, <2>3 DEF Linked
<1>6. ASSUME NEW e \in DOMAIN D PROVE Highest(D2, V2, e) = Highest(D, V, e)
  <2>1. D2[e].latest = D[e].latest /\ D[e].latest \in DOMAIN V
    BY <1>2, <1>4
  <2>. QED  BY <1>2, <2>1 DEF Highest
<1>7. Numbered(D2, V2)
  <2>1. /\ \A v, w \in DOMAIN V : V[v].document = V[w].document /\ V[v].seq = V[w].seq => v = w
        /\ \A v \in DOMAIN V : V[v].seq \in 1..Highest(D, V, V[v].document)
        /\ \A e \in DOMAIN D : \A k \in 1..Highest(D, V, e) :
             \E v \in DOMAIN V : V[v].document = e /\ V[v].seq = k
    BY <1>1 DEF RowsOK, Numbered
  <2>2. \A v, w \in DOMAIN V2 : V2[v].document = V2[w].document /\ V2[v].seq = V2[w].seq => v = w
    BY <1>2, <2>1
  <2>3. ASSUME NEW v \in DOMAIN V2 PROVE V2[v].seq \in 1..Highest(D2, V2, V2[v].document)
    <3>1. v \in DOMAIN V /\ V2[v].seq = V[v].seq /\ V2[v].document = V[v].document
      BY <1>2
    <3>2. Highest(D2, V2, V[v].document) = Highest(D, V, V[v].document)
      BY <1>4, <1>6, <3>1
    <3>. QED  BY <2>1, <3>1, <3>2
  <2>4. ASSUME NEW e \in DOMAIN D2, NEW k \in 1..Highest(D2, V2, e)
        PROVE  \E v \in DOMAIN V2 : V2[v].document = e /\ V2[v].seq = k
    <3>1. e \in DOMAIN D /\ k \in 1..Highest(D, V, e)
      BY <1>2, <1>6
    <3>2. PICK v \in DOMAIN V : V[v].document = e /\ V[v].seq = k
      BY <2>1, <3>1
    <3>. QED  BY <1>2, <3>2
  <2>. QED  BY <2>2, <2>3, <2>4 DEF Numbered
<1>8. Chained(V2)
  <2>1. ASSUME NEW v \in DOMAIN V2
        PROVE  /\ V2[v].previous = None <=> V2[v].seq = 1
               /\ V2[v].previous # None =>
                    /\ V2[v].previous \in DOMAIN V2
                    /\ V2[V2[v].previous].document = V2[v].document
                    /\ V2[V2[v].previous].seq < V2[v].seq
    <3> DEFINE b == V[v].previous
    <3>1. /\ v \in DOMAIN V /\ V2[v].previous = b
          /\ V2[v].seq = V[v].seq /\ V2[v].document = V[v].document
      BY <1>2
    <3>2. /\ b = None <=> V[v].seq = 1
          /\ b # None =>
               /\ b \in DOMAIN V /\ V[b].document = V[v].document /\ V[b].seq < V[v].seq
      BY <1>1, <3>1 DEF RowsOK, Chained
    <3> HIDE DEF b
    <3>3. b \in DOMAIN V => V2[b].document = V[b].document /\ V2[b].seq = V[b].seq
      BY <1>2
    <3>. QED  BY <1>2, <3>1, <3>2, <3>3
  <2>. QED  BY <2>1 DEF Chained
<1>. QED  BY <1>2, <1>5, <1>7, <1>8 DEF RowsOK

LEMMA AlertedJob ==
  ASSUME NEW k \in Job, NEW d, NEW V
  PROVE  /\ Alerted(k, d, V) \in Job
         /\ Alerted(k, d, V).op = k.op /\ Alerted(k, d, V).pc = k.pc
         /\ k.pc \notin {"activate", "keywords"} => Alerted(k, d, V) = k
         /\ k.pc = "activate" =>
              /\ Alerted(k, d, V).version = k.version /\ Alerted(k, d, V).status = k.status
              /\ Alerted(k, d, V).current = k.current
              /\ ~Alerted(k, d, V).raced => V[k.version].document # d /\ ~k.raced
         /\ k.pc = "keywords" => Alerted(k, d, V).raced
<1>1. k.op = "publish" <=> k.pc = "activate"
  BY DEF Job, Idle, UploadJob, FileJob, PipelineJob, ChosenJob, SavingJob, PublishJob, SearchJob
<1>2. CASE k.pc = "activate"
  <2>1. k \in PublishJob
    BY <1>2, JobKinds
  <2>2. CASE V[k.version].document = d
    <3>1. Alerted(k, d, V) = [k EXCEPT !.raced = TRUE]
      BY <1>1, <1>2, <2>2 DEF Alerted
    <3>2. /\ [k EXCEPT !.raced = TRUE] \in PublishJob
          /\ [k EXCEPT !.raced = TRUE].op = k.op
          /\ [k EXCEPT !.raced = TRUE].pc = k.pc
          /\ [k EXCEPT !.raced = TRUE].version = k.version
          /\ [k EXCEPT !.raced = TRUE].status = k.status
          /\ [k EXCEPT !.raced = TRUE].current = k.current
          /\ [k EXCEPT !.raced = TRUE].raced
      BY <2>1 DEF PublishJob
    <3>. QED  BY <1>2, <3>1, <3>2 DEF Job
  <2>3. CASE V[k.version].document # d
    <3>1. Alerted(k, d, V) = k
      BY <1>2, <2>3, NoticedJob DEF Alerted
    <3>. QED  BY <1>2, <2>1, <2>3, <3>1 DEF PublishJob
  <2>. QED  BY <2>2, <2>3
<1>3. CASE k.pc # "activate"
  <2>1. Alerted(k, d, V) = Noticed(k)
    BY <1>1, <1>3 DEF Alerted
  <2>. QED  BY <1>3, <2>1, NoticedJob
<1>. QED  BY <1>2, <1>3

\* What the other requests know stays true when a version is activated.
LEMMA JobPublished ==
  ASSUME NEW D, NEW V, NEW j, MayPublish(j, D, V),
         NEW D2, D2 = PublishedDocuments(D, V, j), NEW V2, V2 = PublishedVersions(V, j),
         NEW d, d = V[j.version].document,
         NEW k \in Job, JobOK(k, D, V)
  PROVE  JobOK(Alerted(k, d, V), D2, V2)
<1> DEFINE r == Alerted(k, d, V)
<1>1. StatusWritten(D, V, j, D2, V2, d)
  BY PublishedRows
<1>2. /\ DOMAIN D2 = DOMAIN D /\ DOMAIN V2 = DOMAIN V
      /\ \A v \in DOMAIN V : V2[v].document = V[v].document
      /\ \A v \in DOMAIN V : V2[v].seq = V[v].seq
      /\ \A v \in DOMAIN V : V2[v].source = V[v].source
      /\ \A v \in DOMAIN V : V2[v].status = StatusAfter(V, j, v)
      /\ \A e \in DOMAIN D : D2[e].latest = D[e].latest
      /\ \A e \in DOMAIN D : e # d => D2[e].current = D[e].current
  BY <1>1 DEF StatusWritten
<1>3. /\ RowsOK(D, V) /\ j.version \in DOMAIN V
      /\ j.current # None => j.current \in DOMAIN V /\ V[j.current].document = d
  BY DEF MayPublish, Publishes
<1>4. /\ r.op = k.op /\ r.pc = k.pc
      /\ k.pc \notin {"activate", "keywords"} => r = k
      /\ k.pc = "activate" =>
           /\ r.version = k.version /\ r.status = k.status /\ r.current = k.current
           /\ ~r.raced => V[k.version].document # d /\ ~k.raced
      /\ k.pc = "keywords" => r.raced
  BY AlertedJob
<1>5. /\ \A v \in DOMAIN V : V[v].document \in DOMAIN D
      /\ \A e \in DOMAIN D : D[e].latest \in DOMAIN V
  BY <1>3 DEF RowsOK, Linked
<1> HIDE DEF r
<1>6. ASSUME NEW e \in DOMAIN D PROVE Highest(D2, V2, e) = Highest(D, V, e)
  <2>1. D2[e].latest = D[e].latest /\ D[e].latest \in DOMAIN V
    BY <1>2, <1>5
  <2>. QED  BY <1>2, <2>1 DEF Highest
<1>7. r.op = "retry" => \E v \in DOMAIN V2 : V2[v].source = r.upload
  <2>1. r.op = "retry" => r = k
    BY <1>4, JobUploads
  <2>2. k.op = "retry" => \E v \in DOMAIN V : V[v].source = k.upload
    BY DEF JobOK
  <2>. QED  BY <1>2, <2>1, <2>2
<1>8. r.pc \in {"versions", "commit"} => Chooses(r, D2, V2)
  <2>1. SUFFICES ASSUME r.pc \in {"versions", "commit"} PROVE Chooses(k, D2, V2)
    BY <1>4
  <2>2. Chooses(k, D, V)
    BY <1>4, <2>1 DEF JobOK
  <2>. QED  BY <1>2, <2>2 DEF Chooses
<1>9. r.pc = "commit" => Numbers(r, D2, V2)
  <2>1. SUFFICES ASSUME r.pc = "commit" PROVE Numbers(k, D2, V2)
    BY <1>4
  <2>2. Chooses(k, D, V) /\ Numbers(k, D, V)
    BY <1>4, <2>1 DEF JobOK
  <2>3. k.document # None =>
          /\ Highest(D2, V2, k.document) = Highest(D, V, k.document)
          /\ V2[k.previous].seq = V[k.previous].seq
    BY <1>2, <1>6, <2>2 DEF Chooses
  <2>. QED  BY <2>2, <2>3 DEF Numbers
<1>10. r.pc = "activate" => Publishes(r, D2, V2)
  <2>1. SUFFICES ASSUME r.pc = "activate" PROVE Publishes(r, D2, V2)
    OBVIOUS
  <2>2. Publishes(k, D, V)
    BY <1>4, <2>1 DEF JobOK
  <2>3. /\ r.version = k.version /\ r.status = k.status /\ r.current = k.current
        /\ ~r.raced => V[k.version].document # d /\ ~k.raced
    BY <1>4, <2>1
  <2>4. r.version \in DOMAIN V2
    BY <1>2, <2>2, <2>3 DEF Publishes
  <2>5. r.current # None =>
          r.current \in DOMAIN V2 /\ V2[r.current].document = V2[r.version].document
    BY <1>2, <2>2, <2>3 DEF Publishes
  <2>6. ASSUME ~r.raced
        PROVE  r.status = V2[r.version].status /\ r.current = D2[V2[r.version].document].current
    <3>1. /\ k.version \in DOMAIN V /\ V[k.version].document # d
          /\ k.status = V[k.version].status
          /\ k.current = D[V[k.version].document].current
      BY <2>2, <2>3, <2>6 DEF Publishes
    <3>2. k.version # j.version /\ (k.version = j.current => j.current = None)
      BY <1>3, <3>1
    <3>3. k.version # None
      BY <1>3, <3>1, RowFacts DEF RowsOK, None
    <3>4. StatusAfter(V, j, k.version) = V[k.version].status
      BY <3>2, <3>3 DEF StatusAfter
    <3>5. D2[V[k.version].document].current = D[V[k.version].document].current
      BY <1>2, <1>5, <3>1
    <3>. QED  BY <1>2, <2>3, <3>1, <3>4, <3>5
  <2>. QED  BY <2>4, <2>5, <2>6 DEF Publishes
<1>11. r.pc = "keywords" => Searches(r, D2, V2)
  BY <1>4 DEF Searches
<1>12. JobOK(r, D2, V2)
  BY <1>7, <1>8, <1>9, <1>10, <1>11 DEF JobOK
<1>. QED  BY <1>12 DEF r

\* An activation that nothing raced leaves its version as the only active one.
LEMMA ActivePublished ==
  ASSUME NEW D, NEW V, NEW j, MayPublish(j, D, V),
         NEW D2, D2 = PublishedDocuments(D, V, j), NEW V2, V2 = PublishedVersions(V, j),
         NEW d, d = V[j.version].document,
         NEW except, ActiveOK(D, V, except)
  PROVE  ActiveOK(D2, V2, IF j.raced THEN except \cup {d} ELSE except)
<1>1. StatusWritten(D, V, j, D2, V2, d)
  BY PublishedRows
<1>2. /\ DOMAIN D2 = DOMAIN D /\ DOMAIN V2 = DOMAIN V
      /\ \A v \in DOMAIN V : V2[v].document = V[v].document
      /\ \A v \in DOMAIN V : V2[v].status = StatusAfter(V, j, v)
      /\ \A e \in DOMAIN D : e # d => D2[e].current = D[e].current
      /\ D2[d].current = IF j.current = j.version THEN D[d].current ELSE j.version
  BY <1>1 DEF StatusWritten
<1>3. /\ RowsOK(D, V) /\ j.version \in DOMAIN V
      /\ j.current # None => j.current \in DOMAIN V /\ V[j.current].document = d
      /\ ~j.raced => j.status = V[j.version].status /\ j.current = D[d].current
  BY DEF MayPublish, Publishes
<1>4. None \notin DOMAIN V
  BY <1>3, RowFacts DEF RowsOK, None
<1>5. ASSUME NEW e \in DOMAIN D \ except, e # d
      PROVE  ActiveIn(V2, e) = {D2[e].current} \ {None}
  <2>1. \A v \in DOMAIN V : V[v].document = e => V2[v].status = V[v].status
    <3> TAKE v \in DOMAIN V
    <3> HAVE V[v].document = e
    <3>1. v # j.version /\ v # j.current
      BY <1>3, <1>4, <1>5
    <3>2. StatusAfter(V, j, v) = V[v].status
      BY <3>1 DEF StatusAfter
    <3>. QED  BY <1>2, <3>2
  <2>2. ActiveIn(V2, e) = ActiveIn(V, e)
    BY <1>2, <2>1 DEF ActiveIn
  <2>. QED  BY <1>2, <1>5, <2>2 DEF ActiveOK
<1>6. ASSUME ~j.raced, d \in DOMAIN D \ except
      PROVE  ActiveIn(V2, d) = {D2[d].current} \ {None}
  <2>1. ActiveIn(V, d) = {j.current} \ {None}
    BY <1>3, <1>6 DEF ActiveOK
  <2>2. D2[d].current = j.version
    BY <1>2, <1>3, <1>6
  <2>3. V2[j.version].status = "active" /\ V2[j.version].document = d
    <3>1. StatusAfter(V, j, j.version) = "active"
      BY <1>3, <1>6 DEF StatusAfter
    <3>. QED  BY <1>2, <1>3, <3>1
  <2>4. ASSUME NEW v \in DOMAIN V, V[v].document = d, v # j.version
        PROVE  V2[v].status # "active"
    <3>1. CASE v = j.current
      <4>1. StatusAfter(V, j, v) = "superseded"
        BY <2>4, <3>1 DEF StatusAfter
      <4>. QED  BY <1>2, <4>1
    <3>2. CASE v # j.current
      <4>1. StatusAfter(V, j, v) = V[v].status
        BY <2>4, <3>2 DEF StatusAfter
      <4>2. v \notin ActiveIn(V, d)
        BY <2>1, <3>2
      <4>. QED  BY <1>2, <2>4, <4>1, <4>2 DEF ActiveIn
    <3>. QED  BY <3>1, <3>2
  <2>5. ActiveIn(V2, d) = {j.version}
    BY <1>2, <1>3, <2>3, <2>4 DEF ActiveIn
  <2>. QED  BY <1>3, <1>4, <2>2, <2>5
<1>. QED  BY <1>2, <1>5, <1>6 DEF ActiveOK

-----------------------------------------------------------------------------
(* Files *)

(* A step of a request that moves no file. *)
SameHold(j, x, w) ==
  /\ Owns(x, w) <=> Owns(j, w)
  /\ Owns(x, w) => x.op = j.op /\ PlaceAt(x.pc) = PlaceAt(j.pc)

HasVersion(w) == \E v \in DOMAIN versions : versions[v].source = w

\* A file that a step leaves alone, except that its staging may expire.
LEMMA FileHeld ==
  ASSUME NEW w \in Uploads, FileOK(w), \A q \in Processes : SameHold(job[q], job'[q], w),
         staged'[w] \in {staged[w], "none"}, promoted'[w] = promoted[w],
         answer'[w] = answer[w], w \in drawn' <=> w \in drawn, w \in offered' <=> w \in offered,
         HasVersion(w)' <=> HasVersion(w)
  PROVE  FileOK(w)'
<1>1. \A q \in Processes : Handles(q, w)' <=> Handles(q, w)
  BY DEF Handles, SameHold
<1>2. \A q \in Processes : Handles(q, w) =>
         PlaceAt(job'[q].pc) = PlaceAt(job[q].pc) /\ job'[q].op = job[q].op
  BY <1>1 DEF Handles, SameHold
<1>3. /\ w \notin drawn' =>
           /\ staged'[w] = "none" /\ promoted'[w] = "none" /\ answer'[w] = "none"
           /\ \A q \in Processes : ~Handles(q, w)'
      /\ answer'[w] \in {"400", "503"} => staged'[w] = "none" /\ promoted'[w] = "none"
      /\ answer'[w] = "ok" => promoted'[w] = "file"
      /\ HasVersion(w)' => answer'[w] = "ok"
      /\ answer'[w] = "none" /\ (\A q \in Processes : ~Handles(q, w)') => promoted'[w] = "none"
  BY <1>1 DEF FileOK, HasVersion
<1>4. \A q, r \in Processes : Handles(q, w)' /\ Handles(r, w)' => q = r
  BY <1>1 DEF FileOK
<1>5. \A q \in Processes : Handles(q, w)' =>
       /\ answer'[w] = "none"
       /\ promoted'[w] = PlaceAt(job'[q].pc)
       /\ job'[q].op = "upload" => w \notin offered'
  BY <1>1, <1>2 DEF FileOK
<1>. QED  BY <1>3, <1>4, <1>5 DEF FileOK, HasVersion

LEMMA FileKept ==
  ASSUME NEW p \in Processes, job \in [Processes -> Job], NEW x, job' = [job EXCEPT ![p] = x],
         NEW w \in Uploads, FileOK(w), SameHold(job[p], x, w),
         staged'[w] \in {staged[w], "none"}, promoted'[w] = promoted[w],
         answer'[w] = answer[w], w \in drawn' <=> w \in drawn, w \in offered' <=> w \in offered,
         HasVersion(w)' <=> HasVersion(w)
  PROVE  FileOK(w)'
<1>1. /\ job'[p] = x
      /\ \A q \in Processes : q # p => job'[q] = job[q]
  OBVIOUS
<1>2. \A q \in Processes : SameHold(job[q], job'[q], w)
  BY <1>1 DEF SameHold
<1>. QED  BY <1>2, FileHeld

\* The only request that knows a file ends.
LEMMA FileReleased ==
  ASSUME NEW p \in Processes, job'[p] = Idle,
         NEW w \in Uploads, FileOK(w), Handles(p, w),
         \A q \in Processes : q # p => (Owns(job'[q], w) <=> Owns(job[q], w)),
         w \in drawn <=> w \in drawn', HasVersion(w)' => HasVersion(w) \/ answer'[w] = "ok",
         \/ answer'[w] \in {"500", "stopped"}
         \/ answer'[w] \in {"400", "503"} /\ staged'[w] = "none" /\ promoted'[w] = "none"
         \/ answer'[w] = "none" /\ promoted'[w] = "none"
         \/ answer'[w] = "ok" /\ promoted'[w] = "file"
  PROVE  FileOK(w)'
<1>1. \A q \in Processes : ~Handles(q, w)'
  BY DEF Handles, Owns, FileOK, Idle
<1>2. w \in drawn' /\ ~HasVersion(w)
  BY DEF FileOK, HasVersion
<1>3. HasVersion(w)' => answer'[w] = "ok"
  BY <1>2
<1>. QED  BY <1>1, <1>2, <1>3 DEF FileOK, HasVersion

\* A step that changes no row: what is left to show of it is about files.
LEMMA RowsAlone ==
  ASSUME IInv, NEW p \in Processes, NEW x \in Job, job' = [job EXCEPT ![p] = x],
         JobOK(x, documents, versions), UNCHANGED <<rows, overlapped>>,
         drawn \subseteq drawn', resubmitted \subseteq resubmitted', FileTypes',
         x.op \in {"upload", "ingest"} => x.upload \in drawn',
         \A w \in Uploads \ resubmitted' : FileOK(w) => FileOK(w)'
  PROVE  IInv'
<1>1. /\ Types /\ JobsOK /\ FilesOK
      /\ RowsOK(documents, versions) /\ ActiveOK(documents, versions, overlapped)
  BY DEF IInv
<1>2. documents' = documents /\ versions' = versions /\ overlapped' = overlapped
  BY DEF rows
<1>3. /\ job'[p] = x
      /\ \A q \in Processes : q # p => job'[q] = job[q]
  BY <1>1 DEF Types
<1>4. Types'
  BY <1>1, <1>3 DEF Types
<1>5. JobsOK'
  <2>1. ASSUME NEW q \in Processes PROVE JobOK(job'[q], documents, versions)
    BY <1>1, <1>3 DEF JobsOK
  <2>. QED  BY <1>2, <2>1 DEF JobsOK
<1>6. FilesOK'
  BY <1>1 DEF FilesOK
<1>. QED  BY <1>1, <1>2, <1>4, <1>5, <1>6 DEF IInv

\* A step that changes only what a request remembers.
LEMMA JobAlone ==
  ASSUME IInv, NEW p \in Processes, NEW x \in Job, job' = [job EXCEPT ![p] = x],
         JobOK(x, documents, versions), UNCHANGED <<files, drawn, offered, rows, ghosts>>,
         \A w \in Uploads : SameHold(job[p], x, w)
  PROVE  IInv'
<1>1. Types
  BY DEF IInv
<1>2. FileTypes'
  BY <1>1 DEF Types, FileTypes, files, ghosts
<1>3. x.op \in {"upload", "ingest"} => x.upload \in drawn'
  <2>1. x.op \in {"upload", "ingest"} => x.upload \in Uploads
    BY JobUploads
  <2>. QED  BY <1>1, <2>1 DEF SameHold, Owns, Types
<1>4. ASSUME NEW w \in Uploads, FileOK(w) PROVE FileOK(w)'
  <2>1. HasVersion(w)' <=> HasVersion(w)
    BY DEF rows, HasVersion
  <2>2. /\ staged'[w] = staged[w] /\ promoted'[w] = promoted[w] /\ answer'[w] = answer[w]
        /\ drawn' = drawn /\ offered' = offered
    BY DEF files, ghosts
  <2>. QED  BY <1>1, <1>4, <2>1, <2>2, FileKept DEF Types
<1>. QED  BY <1>2, <1>3, <1>4, RowsAlone DEF ghosts

-----------------------------------------------------------------------------
(* Requests that end early *)

LEMMA IdleJob ==
  /\ Idle \in Job
  /\ \A D, V : JobOK(Idle, D, V)
  /\ \A w : ~Owns(Idle, w)
BY DEF Job, Idle, JobOK, Owns

\* A request ends without a row: it answered, or it died.  Nobody else knows
\* its file.
LEMMA RequestEnds ==
  ASSUME IInv, NEW p \in Processes, Finish(p), UNCHANGED <<drawn, offered, rows, resubmitted, overlapped>>,
         FileTypes',
         NEW u, job[p].op \in {"upload", "ingest"} => u = job[p].upload,
         \A w \in Uploads : ~Handles(p, w) =>
            staged'[w] = staged[w] /\ promoted'[w] = promoted[w] /\ answer'[w] = answer[w],
         Handles(p, u) /\ FileOK(u) =>
            \/ answer'[u] \in {"500", "stopped"}
            \/ answer'[u] \in {"400", "503"} /\ staged'[u] = "none" /\ promoted'[u] = "none"
            \/ answer'[u] = "none" /\ promoted'[u] = "none"
  PROVE  IInv'
<1>1. Types /\ job \in [Processes -> Job]
  BY DEF IInv, Types
<1>2. job' = [job EXCEPT ![p] = Idle]
  BY DEF Finish
<1>3. ASSUME NEW w \in Uploads, FileOK(w) PROVE FileOK(w)'
  <2>1. HasVersion(w)' <=> HasVersion(w)
    BY DEF rows, HasVersion
  <2>2. CASE Handles(p, w)
    <3>1. w = u
      BY <2>2 DEF Handles, Owns
    <3>2. \/ answer'[w] \in {"500", "stopped"}
          \/ answer'[w] \in {"400", "503"} /\ staged'[w] = "none" /\ promoted'[w] = "none"
          \/ answer'[w] = "none" /\ promoted'[w] = "none"
      BY <1>3, <2>2, <3>1
    <3>3. job'[p] = Idle /\ \A q \in Processes : q # p => job'[q] = job[q]
      BY <1>1, <1>2
    <3>. QED  BY <1>3, <2>1, <2>2, <3>2, <3>3, FileReleased
  <2>3. CASE ~Handles(p, w)
    <3>1. SameHold(job[p], Idle, w)
      BY <2>3, IdleJob DEF SameHold, Handles
    <3>. QED  BY <1>1, <1>2, <1>3, <2>1, <2>3, <3>1, FileKept
  <2>. QED  BY <2>2, <2>3
<1>4. Idle.op \notin {"upload", "ingest"}
  BY DEF Idle
<1>. QED  BY <1>1, <1>2, <1>3, <1>4, IdleJob, RowsAlone DEF Types

\* An unexpected error, or a stopped pipeline: the files stay.
LEMMA Answered ==
  ASSUME IInv, NEW p \in Processes, NEW code \in {"500", "stopped"}, Finish(p),
         answer' = IF job[p].op = "ingest" THEN [answer EXCEPT ![job[p].upload] = code] ELSE answer,
         UNCHANGED <<files, drawn, offered, rows, resubmitted, overlapped>>
  PROVE  IInv'
<1>1. Types /\ job[p] \in Job /\ FileTypes
  BY DEF IInv, Types
<1>2. job[p].op \in {"upload", "ingest"} => job[p].upload \in Uploads
  BY <1>1, JobUploads
<1> DEFINE u == job[p].upload
<1>3. FileTypes'
  BY <1>1, <1>2 DEF FileTypes, files
<1>4. staged' = staged /\ promoted' = promoted
  BY DEF files
<1>5. \A w \in Uploads : ~Handles(p, w) => answer'[w] = answer[w]
  BY <1>1 DEF Handles, Owns, FileTypes
<1>6. Handles(p, u) /\ FileOK(u) =>
         \/ answer'[u] \in {"500", "stopped"}
         \/ answer'[u] = "none" /\ promoted'[u] = "none"
  <2>1. SUFFICES ASSUME Handles(p, u), FileOK(u)
                 PROVE  \/ answer'[u] \in {"500", "stopped"}
                        \/ answer'[u] = "none" /\ promoted'[u] = "none"
    OBVIOUS
  <2>2. CASE job[p].op = "ingest"
    BY <1>1, <1>2, <2>2 DEF FileTypes
  <2>3. CASE job[p].op = "upload"
    <3>1. job[p].pc = "write"
      BY <1>1, <2>3, JobUploads
    <3>2. promoted[u] = "none" /\ answer[u] = "none"
      BY <2>1, <3>1 DEF FileOK, PlaceAt
    <3>. QED  BY <1>4, <2>3, <3>2
  <2>. QED  BY <2>1, <2>2, <2>3 DEF Handles, Owns
<1>. QED  BY <1>3, <1>4, <1>5, <1>6, RequestEnds

LEMMA CrumbleStep ==
  ASSUME IInv, NEW p \in Processes, Crumble(p)
  PROVE  IInv'
BY Answered DEF Crumble

LEMMA CrashStep ==
  ASSUME IInv, NEW p \in Processes, Crash(p)
  PROVE  IInv'
BY Answered DEF Crash

LEMMA PipelineStopsStep ==
  ASSUME IInv, NEW p \in Processes, PipelineStops(p)
  PROVE  IInv'
BY Answered DEF PipelineStops

\* A refused ingestion takes its files along, a refused retry does not.
LEMMA RefuseStep ==
  ASSUME IInv, NEW p \in Processes, NEW code \in {"400", "503"}, Refuse(p, code, staged),
         job[p].op \in {"ingest", "retry"}
  PROVE  IInv'
<1>1. Types /\ job[p] \in Job /\ FileTypes
  BY DEF IInv, Types
<1> DEFINE u == job[p].upload
<1>2. u \in Uploads
  BY <1>1, JobUploads
<1>3. Finish(p) /\ UNCHANGED <<drawn, offered, rows, resubmitted, overlapped>>
  BY DEF Refuse
<1>4. CASE job[p].op = "ingest"
  <2>1. /\ staged' = [staged EXCEPT ![u] = "none"]
        /\ promoted' = [promoted EXCEPT ![u] = "none"]
        /\ expired' = expired \ {w \in Uploads : staged'[w] = "none"}
        /\ answer' = [answer EXCEPT ![u] = code]
    BY <1>4 DEF Refuse, Discard
  <2>2. FileTypes'
    BY <1>1, <1>2, <1>3, <2>1 DEF FileTypes
  <2>3. \A w \in Uploads : w # u =>
           staged'[w] = staged[w] /\ promoted'[w] = promoted[w] /\ answer'[w] = answer[w]
    BY <1>1, <2>1 DEF FileTypes
  <2>4. answer'[u] = code /\ staged'[u] = "none" /\ promoted'[u] = "none"
    BY <1>1, <1>2, <2>1 DEF FileTypes
  <2>5. \A w \in Uploads : ~Handles(p, w) => w # u
    BY <1>4 DEF Handles, Owns
  <2>. QED  BY <1>3, <2>2, <2>3, <2>4, <2>5, RequestEnds
<1>5. CASE job[p].op = "retry"
  <2>1. UNCHANGED <<files, answer>>
    BY <1>5 DEF Refuse
  <2>2. FileTypes'
    BY <1>1, <1>3, <2>1 DEF FileTypes, files
  <2>3. ~Handles(p, u) /\ job[p].op \notin {"upload", "ingest"}
    BY <1>5 DEF Handles, Owns
  <2>4. staged' = staged /\ promoted' = promoted /\ answer' = answer
    BY <2>1 DEF files
  <2>. QED  BY <1>3, <2>2, <2>3, <2>4, RequestEnds
<1>. QED  BY <1>4, <1>5

-----------------------------------------------------------------------------
(* Uploads *)

LEMMA ExpireStep ==
  ASSUME IInv, NEW u \in Uploads, Expire(u)
  PROVE  IInv'
<1>1. Types /\ JobsOK /\ FilesOK
      /\ RowsOK(documents, versions) /\ ActiveOK(documents, versions, overlapped)
  BY DEF IInv
<1>2. /\ staged' = staged /\ promoted' = promoted /\ drawn' = drawn /\ offered' = offered
      /\ documents' = documents /\ versions' = versions /\ job' = job /\ answer' = answer
      /\ resubmitted' = resubmitted /\ overlapped' = overlapped
      /\ expired' = expired \cup {u} /\ staged[u] # "none"
  BY DEF Expire, rows, ghosts
<1>3. Types'
  BY <1>1, <1>2 DEF Types, FileTypes
<1>4. JobsOK'
  BY <1>1, <1>2 DEF JobsOK
<1>5. FilesOK'
  BY <1>1, <1>2 DEF FilesOK, FileOK, Handles
<1>. QED  BY <1>1, <1>2, <1>3, <1>4, <1>5 DEF IInv

LEMMA StageUploadStep ==
  ASSUME IInv, NEW p \in Processes, NEW u \in Uploads, StageUpload(p, u)
  PROVE  IInv'
<1> DEFINE x == [op |-> "upload", pc |-> "write", upload |-> u]
<1>1. Types /\ FileTypes /\ job \in [Processes -> Job]
  BY DEF IInv, Types
<1>2. /\ job[p] = Idle /\ u \notin drawn
      /\ staged' = [Cleaned EXCEPT ![u] = "part"] /\ expired' = {}
      /\ drawn' = drawn \cup {u} /\ job' = [job EXCEPT ![p] = x]
      /\ promoted' = promoted /\ offered' = offered /\ UNCHANGED rows
      /\ answer' = answer /\ resubmitted' = resubmitted /\ overlapped' = overlapped
  BY DEF StageUpload, ghosts
<1>3. /\ x \in Job /\ x.op = "upload" /\ x.pc = "write" /\ x.upload = u
      /\ JobOK(x, documents, versions)
  BY DEF Job, UploadJob, JobOK
<1> HIDE DEF x
<1>4. /\ Cleaned \in [Uploads -> {"none", "part", "file", "empty"}]
      /\ \A w \in Uploads : Cleaned[w] \in {staged[w], "none"}
  BY <1>1 DEF Cleaned, FileTypes
<1>5. FileTypes'
  BY <1>1, <1>2, <1>4 DEF FileTypes
<1>6. ASSUME NEW w \in Uploads, FileOK(w) PROVE FileOK(w)'
  <2>1. HasVersion(w)' <=> HasVersion(w)
    BY <1>2 DEF rows, HasVersion
  <2>2. CASE w = u
    <3>1. /\ promoted[u] = "none" /\ answer[u] = "none"
          /\ \A q \in Processes : ~Handles(q, u)
      BY <1>2, <1>6, <2>2 DEF FileOK
    <3>2. \A q \in Processes : Handles(q, u)' => q = p
      BY <1>1, <1>2, <3>1 DEF Handles
    <3>3. job'[p] = x /\ u \in drawn' /\ u \notin offered'
      BY <1>1, <1>2 DEF FileTypes
    <3>4. ~HasVersion(u)'
      BY <1>6, <2>1, <2>2, <3>1 DEF FileOK, HasVersion
    <3>5. Handles(p, u)'
      BY <1>3, <3>3 DEF Handles, Owns
    <3>6. PlaceAt(x.pc) = "none"
      BY <1>3 DEF PlaceAt
    <3>7. \A q \in Processes : Handles(q, u)' =>
            answer'[u] = "none" /\ promoted'[u] = PlaceAt(job'[q].pc)
      BY <1>2, <3>1, <3>2, <3>3, <3>6
    <3>. QED  BY <1>2, <2>2, <3>1, <3>2, <3>3, <3>4, <3>5, <3>7 DEF FileOK, HasVersion
  <2>3. CASE w # u
    <3>1. ~Owns(x, w) /\ ~Owns(job[p], w)
      BY <1>2, <1>3, <2>3, IdleJob DEF Owns
    <3>2. SameHold(job[p], x, w)
      BY <3>1 DEF SameHold
    <3>3. staged'[w] \in {staged[w], "none"}
      BY <1>2, <1>4, <2>3
    <3>. QED  BY <1>1, <1>2, <1>6, <2>1, <2>3, <3>2, <3>3, FileKept
  <2>. QED  BY <2>2, <2>3
<1>. QED  BY <1>2, <1>3, <1>5, <1>6, RowsAlone

LEMMA UploadAnswersStep ==
  ASSUME IInv, NEW p \in Processes, UploadAnswers(p)
  PROVE  IInv'
<1> DEFINE u == job[p].upload
<1>1. Types /\ FileTypes /\ job \in [Processes -> Job] /\ job[p] \in Job
  BY DEF IInv, Types
<1>2. /\ job[p].pc = "write" /\ staged' = [staged EXCEPT ![u] = "file"]
      /\ offered' = offered \cup {u} /\ job' = [job EXCEPT ![p] = Idle]
      /\ promoted' = promoted /\ drawn' = drawn /\ expired' = expired /\ UNCHANGED rows
      /\ answer' = answer /\ resubmitted' = resubmitted /\ overlapped' = overlapped
  BY DEF UploadAnswers, Finish, ghosts
<1>3. u \in Uploads /\ job[p].op = "upload" /\ u \in drawn
  BY <1>1, <1>2, JobUploads DEF Types
<1>4. FileTypes'
  BY <1>1, <1>2, <1>3 DEF FileTypes
<1>5. ASSUME NEW w \in Uploads, FileOK(w) PROVE FileOK(w)'
  <2>1. HasVersion(w)' <=> HasVersion(w)
    BY <1>2 DEF rows, HasVersion
  <2>2. CASE w = u
    <3>1. Handles(p, u)
      BY <1>3 DEF Handles, Owns
    <3>2. answer[u] = "none" /\ promoted[u] = "none"
      BY <1>2, <1>5, <2>2, <3>1 DEF FileOK, PlaceAt
    <3>3. answer'[u] = "none" /\ promoted'[u] = "none" /\ u \in drawn'
      BY <1>2, <1>3, <3>2
    <3>4. job'[p] = Idle /\ \A q \in Processes : q # p => job'[q] = job[q]
      BY <1>1, <1>2
    <3>. QED  BY <1>2, <1>5, <2>1, <2>2, <3>1, <3>3, <3>4, FileReleased
  <2>3. CASE w # u
    <3>1. SameHold(job[p], Idle, w)
      BY <2>3, IdleJob DEF SameHold, Owns
    <3>2. staged'[w] = staged[w] /\ (w \in offered' <=> w \in offered)
      BY <1>2, <2>3
    <3>. QED  BY <1>1, <1>2, <1>5, <2>1, <3>1, <3>2, FileKept
  <2>. QED  BY <2>2, <2>3
<1>6. Idle.op \notin {"upload", "ingest"}
  BY DEF Idle
<1>. QED  BY <1>2, <1>4, <1>5, <1>6, IdleJob, RowsAlone

LEMMA UploadFailsStep ==
  ASSUME IInv, NEW p \in Processes, UploadFails(p)
  PROVE  IInv'
<1> DEFINE u == job[p].upload
<1>1. Types /\ FileTypes /\ job \in [Processes -> Job] /\ job[p] \in Job
  BY DEF IInv, Types
<1>2. /\ job[p].pc = "write" /\ staged' = [staged EXCEPT ![u] = "none"]
      /\ promoted' = [promoted EXCEPT ![u] = "none"] /\ expired' = expired \ {u}
      /\ Finish(p) /\ drawn' = drawn /\ offered' = offered /\ UNCHANGED rows
      /\ answer' = answer /\ resubmitted' = resubmitted /\ overlapped' = overlapped
  BY DEF UploadFails, Discard, ghosts
<1>3. u \in Uploads /\ job[p].op = "upload"
  BY <1>1, <1>2, JobUploads
<1>4. FileTypes'
  BY <1>1, <1>2, <1>3 DEF FileTypes
<1>5. ASSUME NEW w \in Uploads, ~Handles(p, w)
      PROVE  staged'[w] = staged[w] /\ promoted'[w] = promoted[w] /\ answer'[w] = answer[w]
  BY <1>2, <1>3, <1>5 DEF Handles, Owns
<1>6. ASSUME Handles(p, u), FileOK(u)
      PROVE  answer'[u] = "none" /\ promoted'[u] = "none"
  <2>1. answer[u] = "none"
    BY <1>6 DEF FileOK
  <2>2. promoted'[u] = "none"
    BY <1>1, <1>2, <1>3 DEF FileTypes
  <2>. QED  BY <1>2, <2>1, <2>2
<1>. QED  BY <1>2, <1>4, <1>5, <1>6, RequestEnds

-----------------------------------------------------------------------------
(* Ingestions: the file *)

\* The request that has a file goes on and moves it.
LEMMA FileMoves ==
  ASSUME NEW p \in Processes, job \in [Processes -> Job], NEW x, job' = [job EXCEPT ![p] = x],
         NEW w \in Uploads, FileOK(w), Handles(p, w), Owns(x, w), x.op = "ingest",
         promoted'[w] = PlaceAt(x.pc), answer'[w] = answer[w],
         w \in drawn' <=> w \in drawn, HasVersion(w)' <=> HasVersion(w)
  PROVE  FileOK(w)'
<1>1. /\ job'[p] = x
      /\ \A q \in Processes : q # p => job'[q] = job[q]
  OBVIOUS
<1>2. Handles(p, w)' /\ \A q \in Processes : Handles(q, w)' => q = p
  BY <1>1 DEF FileOK, Handles
<1>3. answer'[w] = "none" /\ w \in drawn' /\ ~HasVersion(w)'
  BY DEF FileOK, HasVersion
<1>. QED  BY <1>1, <1>2, <1>3 DEF FileOK, HasVersion

LEMMA IngestUploadStep ==
  ASSUME IInv, NEW p \in Processes, NEW u \in Uploads, NEW target \in Nat, IngestUpload(p, u, target)
  PROVE  IInv'
<1> DEFINE x == [op |-> "ingest", pc |-> "mkdir", upload |-> u, target |-> target, label |-> <<>>]
<1>1. Types /\ FileTypes /\ job \in [Processes -> Job]
  BY DEF IInv, Types
<1>2. /\ job[p] = Idle /\ u \in offered /\ u \in drawn
      /\ resubmitted' = IF answer[u] # "none" \/ \E q \in Processes :
                              job[q].op = "ingest" /\ job[q].upload = u
                        THEN resubmitted \cup {u} ELSE resubmitted
      /\ drawn' = drawn /\ offered' = offered /\ UNCHANGED rows /\ overlapped' = overlapped
  BY <1>1 DEF IngestUpload, FileTypes
<1>3. /\ x \in Job /\ x.op = "ingest" /\ x.pc = "mkdir" /\ x.upload = u
      /\ JobOK(x, documents, versions)
  BY DEF Job, FileJob, JobOK, Label
<1> HIDE DEF x
<1>4. /\ Cleaned \in [Uploads -> {"none", "part", "file", "empty"}]
      /\ \A w \in Uploads : Cleaned[w] \in {staged[w], "none"}
  BY <1>1 DEF Cleaned, FileTypes
<1>5. resubmitted \subseteq resubmitted'
  BY <1>2
<1>6. \A w : HasVersion(w)' <=> HasVersion(w)
  BY <1>2 DEF rows, HasVersion
<1>7. ASSUME u \notin resubmitted', FileOK(u)
      PROVE  /\ answer[u] = "none" /\ promoted[u] = "none"
             /\ \A q \in Processes : ~Handles(q, u)
             /\ ~HasVersion(u)
  <2>1. answer[u] = "none" /\ \A q \in Processes : ~(job[q].op = "ingest" /\ job[q].upload = u)
    BY <1>2, <1>7
  <2>2. \A q \in Processes : ~Handles(q, u)
    BY <1>2, <1>7, <2>1 DEF FileOK, Handles, Owns
  <2>. QED  BY <1>7, <2>1, <2>2 DEF FileOK, HasVersion
<1>8. CASE Cleaned[u] = "file"
  <2>1. /\ job' = [job EXCEPT ![p] = x] /\ staged' = Cleaned /\ expired' = {}
        /\ promoted' = promoted /\ answer' = answer
    BY <1>8 DEF IngestUpload, x
  <2>2. FileTypes'
    BY <1>1, <1>2, <1>4, <2>1 DEF FileTypes
  <2>3. ASSUME NEW w \in Uploads \ resubmitted', FileOK(w) PROVE FileOK(w)'
    <3>1. CASE w = u
      <4>1. /\ answer[u] = "none" /\ promoted[u] = "none"
            /\ \A q \in Processes : ~Handles(q, u)
            /\ ~HasVersion(u)
        BY <1>7, <2>3, <3>1
      <4>2. job'[p] = x /\ \A q \in Processes : Handles(q, u)' => q = p
        BY <1>1, <2>1, <4>1 DEF Handles
      <4>3. Handles(p, u)'
        BY <1>3, <4>2 DEF Handles, Owns
      <4>4. PlaceAt(x.pc) = "none" /\ x.op # "upload"
        BY <1>3 DEF PlaceAt
      <4>5. \A q \in Processes : Handles(q, u)' =>
              answer'[u] = "none" /\ promoted'[u] = PlaceAt(job'[q].pc) /\ job'[q].op # "upload"
        BY <2>1, <4>1, <4>2, <4>4
      <4>6. answer'[u] = "none" /\ u \in drawn' /\ ~HasVersion(u)'
        BY <1>2, <1>6, <2>1, <4>1
      <4>. QED  BY <3>1, <4>2, <4>3, <4>5, <4>6 DEF FileOK, HasVersion
    <3>2. CASE w # u
      <4>1. ~Owns(x, w) /\ ~Owns(job[p], w)
        BY <1>2, <1>3, <3>2, IdleJob DEF Owns
      <4>2. SameHold(job[p], x, w)
        BY <4>1 DEF SameHold
      <4>. QED  BY <1>1, <1>2, <1>4, <1>6, <2>1, <2>3, <4>2, FileKept
    <3>. QED  BY <3>1, <3>2
  <2>. QED  BY <1>2, <1>3, <1>5, <2>1, <2>2, <2>3, RowsAlone
<1>9. CASE Cleaned[u] # "file"
  <2>1. /\ job' = job /\ staged' = [Cleaned EXCEPT ![u] = "none"]
        /\ promoted' = [promoted EXCEPT ![u] = "none"] /\ expired' = {}
        /\ answer' = [answer EXCEPT ![u] = "400"]
    BY <1>9 DEF IngestUpload, Discard
  <2>2. FileTypes'
    BY <1>1, <1>2, <1>4, <2>1 DEF FileTypes
  <2>3. job' = [job EXCEPT ![p] = Idle]
    BY <1>1, <1>2, <2>1
  <2>4. ASSUME NEW w \in Uploads \ resubmitted', FileOK(w) PROVE FileOK(w)'
    <3>1. CASE w = u
      <4>1. ~HasVersion(u)' /\ \A q \in Processes : ~Handles(q, u)'
        BY <1>6, <1>7, <2>1, <2>4, <3>1 DEF Handles
      <4>2. answer'[u] = "400" /\ staged'[u] = "none" /\ promoted'[u] = "none" /\ u \in drawn'
        BY <1>1, <1>2, <1>4, <2>1 DEF FileTypes
      <4>. QED  BY <3>1, <4>1, <4>2 DEF FileOK, HasVersion
    <3>2. CASE w # u
      <4>1. SameHold(job[p], Idle, w)
        BY <1>2, IdleJob DEF SameHold
      <4>2. /\ staged'[w] \in {staged[w], "none"}
            /\ promoted'[w] = promoted[w] /\ answer'[w] = answer[w]
        BY <1>4, <2>1, <3>2
      <4>. QED  BY <1>1, <1>2, <1>6, <2>3, <2>4, <4>1, <4>2, FileKept
    <3>. QED  BY <3>1, <3>2
  <2>5. Idle.op \notin {"upload", "ingest"}
    BY DEF Idle
  <2>. QED  BY <1>2, <1>5, <2>2, <2>3, <2>4, <2>5, IdleJob, RowsAlone
<1>. QED  BY <1>8, <1>9

\* What a request remembers when only its place changes.
LEMMA FileJobGoes ==
  ASSUME NEW p \in Processes, job \in [Processes -> Job], job[p].pc \in {"mkdir", "move", "rmdir"},
         NEW next \in {"move", "rmdir", "pipeline"}, Goto(p, next)
  PROVE  \E x \in Job :
           /\ job' = [job EXCEPT ![p] = x]
           /\ x.op = "ingest" /\ x.pc = next /\ x.upload = job[p].upload
           /\ \A D, V : JobOK(x, D, V)
<1> DEFINE x == [job[p] EXCEPT !.pc = next]
<1>1. job[p] \in FileJob
  BY JobKinds
<1>2. job' = [job EXCEPT ![p] = x]
  BY DEF Goto
<1>3. x \in FileJob \cup PipelineJob /\ x.op = "ingest" /\ x.pc = next /\ x.upload = job[p].upload
  BY <1>1 DEF FileJob, PipelineJob
<1>4. \A D, V : JobOK(x, D, V)
  BY <1>3 DEF JobOK
<1>5. x \in Job
  BY <1>3 DEF Job
<1> HIDE DEF x
<1>. QED  BY <1>2, <1>3, <1>4, <1>5

\* The request moves on with its file; the other files stay.
LEMMA FileStep ==
  ASSUME IInv, NEW p \in Processes, job[p].pc \in {"mkdir", "move", "rmdir"},
         NEW next \in {"move", "rmdir", "pipeline"}, Goto(p, next), FileTypes',
         UNCHANGED <<drawn, offered, rows, ghosts>>,
         NEW u, u = job[p].upload,
         \A w \in Uploads \ {u} : staged'[w] = staged[w] /\ promoted'[w] = promoted[w],
         FileOK(u) => promoted'[u] = PlaceAt(next)
  PROVE  IInv'
<1>1. Types /\ job \in [Processes -> Job] /\ job[p] \in Job
  BY DEF IInv, Types
<1>2. PICK x \in Job :
        /\ job' = [job EXCEPT ![p] = x]
        /\ x.op = "ingest" /\ x.pc = next /\ x.upload = u
        /\ \A D, V : JobOK(x, D, V)
  BY <1>1, FileJobGoes
<1>3. job[p].op = "ingest" /\ u \in drawn
  BY <1>1, JobUploads DEF Types
<1>4. answer' = answer /\ resubmitted' = resubmitted /\ overlapped' = overlapped
  BY DEF ghosts
<1>5. ASSUME NEW w \in Uploads, FileOK(w) PROVE FileOK(w)'
  <2>1. HasVersion(w)' <=> HasVersion(w)
    BY DEF rows, HasVersion
  <2>2. CASE w = u
    <3>1. Handles(p, u) /\ Owns(x, u)
      BY <1>2, <1>3 DEF Handles, Owns
    <3>2. promoted'[w] = PlaceAt(x.pc)
      BY <1>2, <1>5, <2>2
    <3>. QED  BY <1>1, <1>2, <1>4, <1>5, <2>1, <2>2, <3>1, <3>2, FileMoves
  <2>3. CASE w # u
    <3>1. SameHold(job[p], x, w)
      BY <1>2, <2>3 DEF SameHold, Owns
    <3>. QED  BY <1>1, <1>2, <1>4, <1>5, <2>1, <2>3, <3>1, FileKept
  <2>. QED  BY <2>2, <2>3
<1>. QED  BY <1>2, <1>3, <1>4, <1>5, RowsAlone

LEMMA MakeDirectoryStep ==
  ASSUME IInv, NEW p \in Processes, MakeDirectory(p)
  PROVE  IInv'
<1> DEFINE u == job[p].upload
<1>1. Types /\ FileTypes /\ job[p] \in Job /\ job[p].pc = "mkdir"
  BY DEF IInv, Types, MakeDirectory
<1>2. u \in Uploads
  BY <1>1, JobUploads
<1>3. CASE promoted[u] = "none"
  <2>1. /\ promoted' = [promoted EXCEPT ![u] = "dir"] /\ Goto(p, "move")
        /\ staged' = staged /\ drawn' = drawn /\ expired' = expired /\ offered' = offered
        /\ UNCHANGED <<drawn, offered, rows, ghosts>> /\ answer' = answer
    BY <1>3 DEF MakeDirectory, ghosts
  <2>2. FileTypes'
    BY <1>1, <2>1 DEF FileTypes
  <2>3. promoted'[u] = PlaceAt("move") /\ \A w \in Uploads \ {u} : promoted'[w] = promoted[w]
    BY <1>1, <1>2, <2>1 DEF FileTypes, PlaceAt
  <2>. QED  BY <1>1, <2>1, <2>2, <2>3, FileStep
<1>4. CASE promoted[u] # "none"
  BY <1>4, CrumbleStep DEF MakeDirectory
<1>. QED  BY <1>3, <1>4

LEMMA MoveStep ==
  ASSUME IInv, NEW p \in Processes, Move(p)
  PROVE  IInv'
<1> DEFINE u == job[p].upload
<1>1. Types /\ FileTypes /\ job[p] \in Job /\ job[p].pc = "move"
  BY DEF IInv, Types, Move
<1>2. u \in Uploads /\ job[p].op = "ingest"
  BY <1>1, JobUploads
<1>3. CASE staged[u] = "file" /\ promoted[u] # "none"
  <2>1. /\ staged' = [staged EXCEPT ![u] = "empty"] /\ promoted' = [promoted EXCEPT ![u] = "file"]
        /\ Goto(p, "rmdir") /\ drawn' = drawn /\ expired' = expired /\ offered' = offered
        /\ UNCHANGED <<drawn, offered, rows, ghosts>> /\ answer' = answer
    BY <1>3 DEF Move, ghosts
  <2>2. FileTypes'
    BY <1>1, <2>1 DEF FileTypes
  <2>3. /\ promoted'[u] = PlaceAt("rmdir")
        /\ \A w \in Uploads \ {u} : staged'[w] = staged[w] /\ promoted'[w] = promoted[w]
    BY <1>1, <1>2, <2>1 DEF FileTypes, PlaceAt
  <2>. QED  BY <1>1, <2>1, <2>2, <2>3, FileStep
<1>4. CASE ~(staged[u] = "file" /\ promoted[u] # "none")
  BY <1>2, <1>4, RefuseStep DEF Move
<1>. QED  BY <1>3, <1>4

LEMMA RemoveStagingStep ==
  ASSUME IInv, NEW p \in Processes, RemoveStaging(p)
  PROVE  IInv'
<1> DEFINE u == job[p].upload
<1>1. Types /\ FileTypes /\ job[p] \in Job /\ job[p].pc = "rmdir"
  BY DEF IInv, Types, RemoveStaging
<1>2. u \in Uploads /\ job[p].op = "ingest"
  BY <1>1, JobUploads
<1>3. CASE staged[u] = "empty"
  <2>1. /\ staged' = [staged EXCEPT ![u] = "none"] /\ expired' = expired \ {u}
        /\ Goto(p, "pipeline") /\ promoted' = promoted /\ drawn' = drawn /\ offered' = offered
        /\ UNCHANGED <<drawn, offered, rows, ghosts>> /\ answer' = answer
    BY <1>3 DEF RemoveStaging, ghosts
  <2>2. FileTypes'
    BY <1>1, <2>1 DEF FileTypes
  <2>3. \A w \in Uploads \ {u} : staged'[w] = staged[w]
    BY <1>1, <2>1 DEF FileTypes
  <2>4. ASSUME FileOK(u) PROVE promoted'[u] = PlaceAt("pipeline")
    <3>1. Handles(p, u)
      BY <1>2 DEF Handles, Owns
    <3>2. promoted[u] = PlaceAt("rmdir")
      BY <1>1, <2>4, <3>1 DEF FileOK
    <3>. QED  BY <2>1, <3>2 DEF PlaceAt
  <2>. QED  BY <1>1, <2>1, <2>2, <2>3, <2>4, FileStep
<1>4. CASE staged[u] # "empty"
  BY <1>2, <1>4, RefuseStep DEF RemoveStaging
<1>. QED  BY <1>3, <1>4

-----------------------------------------------------------------------------
(* Ingestions: the rows *)

LEMMA RetryStep ==
  ASSUME IInv, NEW p \in Processes, NEW d \in Ids(documents), Retry(p, d)
  PROVE  IInv'
<1> DEFINE v == versions[documents[d].latest]
           x == [op |-> "retry", pc |-> "pipeline", upload |-> v.source, target |-> d, label |-> v.label]
<1>1. RowsOK(documents, versions)
  BY DEF IInv
<1>2. documents[d].latest \in DOMAIN versions /\ d \in Nat /\ v \in Version
  BY <1>1, RowFacts DEF RowsOK, Linked, Ids
<1>3. job[p] = Idle /\ job' = [job EXCEPT ![p] = x] /\ UNCHANGED <<files, drawn, offered, rows, ghosts>>
  BY DEF Retry
<1>4. x \in Job
  BY <1>2 DEF Job, PipelineJob, Version
<1>5. x.op = "retry" /\ x.pc = "pipeline" /\ x.upload = v.source
  OBVIOUS
<1>6. \E w \in DOMAIN versions : versions[w].source = x.upload
  BY <1>2, <1>5
<1> HIDE DEF x
<1>7. JobOK(x, documents, versions)
  BY <1>5, <1>6 DEF JobOK
<1>8. \A w \in Uploads : SameHold(job[p], x, w)
  BY <1>3, <1>5, IdleJob DEF SameHold, Owns
<1>. QED  BY <1>3, <1>4, <1>7, <1>8, JobAlone

\* A request in the pipeline keeps its file where it is.
LEMMA PipelineGoes ==
  ASSUME NEW j \in Job, j.pc \in {"pipeline", "document", "versions", "commit"},
         NEW x, x.op = j.op, x.pc \in {"pipeline", "document", "versions", "commit"},
         x.upload = j.upload, NEW w
  PROVE  SameHold(j, x, w)
BY DEF SameHold, Owns, PlaceAt

LEMMA PipelineSucceedsStep ==
  ASSUME IInv, NEW p \in Processes, PipelineSucceeds(p)
  PROVE  IInv'
<1> DEFINE j == job[p]
           x == [job[p] EXCEPT !.pc = "document"]
<1>1. JobsOK /\ j \in Job
  BY DEF IInv, Types
<1>2. j.pc = "pipeline" /\ job' = [job EXCEPT ![p] = x] /\ UNCHANGED <<files, drawn, offered, rows, ghosts>>
  BY DEF PipelineSucceeds, Goto
<1>3. j \in PipelineJob
  BY <1>1, <1>2, JobKinds
<1>4. /\ x \in PipelineJob /\ x.op = j.op /\ x.pc = "document" /\ x.upload = j.upload
  BY <1>3 DEF PipelineJob
<1>5. JobOK(j, documents, versions)
  BY <1>1 DEF JobsOK
<1> HIDE DEF x, j
<1>6. x \in Job
  BY <1>4 DEF Job
<1>7. JobOK(x, documents, versions)
  BY <1>4, <1>5 DEF JobOK
<1>8. \A w \in Uploads : SameHold(j, x, w)
  BY <1>1, <1>2, <1>4, PipelineGoes
<1>. QED  BY <1>2, <1>6, <1>7, <1>8, JobAlone DEF j

LEMMA PipelineFailsStep ==
  ASSUME IInv, NEW p \in Processes, PipelineFails(p)
  PROVE  IInv'
<1>1. job[p] \in Job /\ job[p].pc = "pipeline"
  BY DEF IInv, Types, PipelineFails
<1>2. job[p].op \in {"ingest", "retry"}
  BY <1>1, JobUploads
<1>. QED  BY <1>2, RefuseStep DEF PipelineFails

LEMMA ReadDocumentStep ==
  ASSUME IInv, NEW p \in Processes, ReadDocument(p)
  PROVE  IInv'
<1> DEFINE j == job[p]
           same == {d \in Ids(documents) : NamesOf(d) = Content[j.upload].name}
           X(d) == [op |-> j.op, pc |-> "versions", upload |-> j.upload,
                    label |-> j.label, document |-> d, previous |-> Previous(d)]
<1>1. Types /\ JobsOK /\ j \in Job /\ RowsOK(documents, versions)
  BY DEF IInv, Types
<1>2. j.pc = "document" /\ j \in PipelineJob /\ j.op \in {"ingest", "retry"}
  BY <1>1, JobKinds DEF ReadDocument, PipelineJob
<1>3. ASSUME NEW d \in Ids(documents) \cup {None}, job' = [job EXCEPT ![p] = X(d)],
             UNCHANGED <<files, drawn, offered, rows, ghosts>>
      PROVE  IInv'
  <2> DEFINE x == X(d)
  <2>1. d \in Nat /\ Previous(d) \in Nat
    <3>1. documents \in Seq(Document) /\ versions \in Seq(Version)
      BY <1>1 DEF RowsOK
    <3>2. /\ DOMAIN documents = 1..Len(documents) /\ Len(documents) \in Nat
          /\ \A e \in DOMAIN documents : documents[e] \in Document
      BY <3>1, RowFacts
    <3>3. \A e \in DOMAIN documents : e \in Nat /\ documents[e].latest \in Nat
      BY <3>2 DEF Document
    <3>. QED  BY <1>3, <3>3 DEF Ids, None, Previous
  <2>2. x \in ChosenJob
    BY <1>2, <2>1 DEF ChosenJob, PipelineJob
  <2>3. /\ x.op = j.op /\ x.pc = "versions" /\ x.upload = j.upload
        /\ x.document = d /\ x.previous = Previous(d)
    OBVIOUS
  <2>4. JobOK(j, documents, versions)
    BY <1>1 DEF JobsOK
  <2>5. job' = [job EXCEPT ![p] = x]
    BY <1>3
  <2> HIDE DEF x, X
  <2>6. Chooses(x, documents, versions)
    <3>1. CASE d = None
      BY <2>3, <3>1 DEF Chooses, Previous
    <3>2. CASE d # None
      <4>1. d \in DOMAIN documents /\ Previous(d) = documents[d].latest
        BY <3>2 DEF Ids, Previous
      <4>. QED  BY <1>1, <2>3, <3>2, <4>1 DEF Chooses, RowsOK, Linked
    <3>. QED  BY <3>1, <3>2
  <2>7. JobOK(x, documents, versions)
    BY <2>3, <2>4, <2>6 DEF JobOK
  <2>8. x \in Job
    BY <2>2 DEF Job
  <2>9. \A w \in Uploads : SameHold(j, x, w)
    BY <1>1, <1>2, <2>3, PipelineGoes
  <2>. QED  BY <1>3, <2>5, <2>7, <2>8, <2>9, JobAlone
<1>4. CASE /\ \E d \in IF same = {} THEN {None} ELSE same : job' = [job EXCEPT ![p] = X(d)]
           /\ UNCHANGED <<files, drawn, offered, rows, ghosts>>
  <2>1. PICK d \in IF same = {} THEN {None} ELSE same : job' = [job EXCEPT ![p] = X(d)]
    BY <1>4
  <2>2. d \in Ids(documents) \cup {None}
    BY <2>1
  <2>. QED  BY <1>3, <1>4, <2>1, <2>2
<1>5. CASE /\ j.target \in Ids(documents) /\ job' = [job EXCEPT ![p] = X(j.target)]
           /\ UNCHANGED <<files, drawn, offered, rows, ghosts>>
  BY <1>3, <1>5
<1>6. CASE Refuse(p, "400", staged)
  BY <1>2, <1>6, RefuseStep
<1>. QED  BY <1>4, <1>5, <1>6 DEF ReadDocument

\* The images of a finite set are finitely many.
LEMMA LabelsFinite ==
  ASSUME NEW V \in Seq(Version), NEW S, S \subseteq DOMAIN V
  PROVE  IsFiniteSet({V[v].label : v \in S})
<1> DEFINE T == {V[v].label : v \in S}
           f == [v \in S |-> V[v].label]
<1>1. IsFiniteSet(S)
  <2>1. DOMAIN V = 1..Len(V) /\ 1 \in Int /\ Len(V) \in Int
    BY RowFacts
  <2>2. IsFiniteSet(DOMAIN V)
    BY <2>1, FS_Interval
  <2>. QED  BY <2>2, FS_Subset
<1>2. f \in Surjection(S, T)
  BY DEF Surjection
<1> HIDE DEF f, T
<1>3. IsFiniteSet(T)
  BY <1>1, <1>2, FS_Surjection
<1>. QED  BY <1>3 DEF T

LEMMA ReadVersionsStep ==
  ASSUME IInv, NEW p \in Processes, ReadVersions(p)
  PROVE  IInv'
<1> DEFINE j == job[p]
           d == j.document
           seqs == {versions[v].seq : v \in VersionsOf(d)}
           labels == {versions[v].label : v \in VersionsOf(d)}
           m == IF seqs = {} THEN 0 ELSE CHOOSE s \in seqs : \A n \in seqs : n <= s
           x == [op |-> j.op, pc |-> "commit", upload |-> j.upload,
                 document |-> d, previous |-> j.previous, seq |-> 1 + m,
                 label |-> UniqueLabel(j.label, labels)]
<1>1. Types /\ JobsOK /\ j \in Job /\ RowsOK(documents, versions)
  BY DEF IInv, Types
<1>2. /\ j.pc = "versions" /\ job' = [job EXCEPT ![p] = x]
      /\ UNCHANGED <<files, drawn, offered, rows, ghosts>>
  BY DEF ReadVersions
<1>3. j \in ChosenJob /\ JobOK(j, documents, versions) /\ Chooses(j, documents, versions)
  BY <1>1, <1>2, JobKinds DEF JobsOK, JobOK
<1>4. /\ \A v \in DOMAIN versions : versions[v] \in Version
      /\ \A v \in DOMAIN versions : versions[v].document \in DOMAIN documents
      /\ None \notin DOMAIN documents
      /\ versions \in Seq(Version)
  BY <1>1, RowFacts DEF RowsOK, Linked, None
<1>5. UniqueLabel(j.label, labels) \in Label
  <2>1. IsFiniteSet(labels)
    BY <1>4, LabelsFinite DEF VersionsOf, Ids
  <2>2. j.label \in Label
    BY <1>3 DEF ChosenJob
  <2> HIDE DEF labels, j
  <2>. QED  BY <2>1, <2>2, UniqueLabelIsNew
<1>6. /\ m \in Nat
      /\ d = None => m = 0
      /\ d # None => versions[j.previous].seq <= m /\ m <= Highest(documents, versions, d)
  <2>1. CASE d = None
    <3>1. seqs = {}
      BY <1>4, <2>1 DEF VersionsOf, Ids
    <3>. QED  BY <2>1, <3>1
  <2>2. CASE d # None
    <3> DEFINE h == Highest(documents, versions, d)
    <3>1. /\ d \in DOMAIN documents /\ j.previous \in VersionsOf(d)
          /\ documents[d].latest \in VersionsOf(d)
      BY <1>1, <1>3, <2>2 DEF Chooses, VersionsOf, Ids, RowsOK, Linked
    <3>2. h \in seqs /\ versions[j.previous].seq \in seqs
      BY <3>1 DEF Highest
    <3>3. \A n \in seqs : n \in Nat /\ n <= h
      <4>1. ASSUME NEW v \in VersionsOf(d) PROVE versions[v].seq \in Nat /\ versions[v].seq \in 1..h
        BY <1>1, <1>4 DEF VersionsOf, Ids, RowsOK, Numbered, Version
      <4>. QED  BY <4>1
    <3> HIDE DEF seqs, h
    <3>4. \E s \in seqs : \A n \in seqs : n <= s
      BY <3>2, <3>3
    <3>5. m \in seqs /\ \A n \in seqs : n <= m
      BY <3>4
    <3> HIDE DEF m
    <3>6. m \in Nat /\ versions[j.previous].seq <= m /\ m <= h
      BY <3>2, <3>3, <3>5
    <3>. QED  BY <2>2, <3>6 DEF h
  <2>. QED  BY <2>1, <2>2
<1>7. /\ x.op = j.op /\ x.pc = "commit" /\ x.upload = j.upload
      /\ x.document = d /\ x.previous = j.previous /\ x.seq = 1 + m
  OBVIOUS
<1>8. x \in SavingJob
  <2> HIDE DEF m, labels
  <2>. QED  BY <1>3, <1>5, <1>6 DEF SavingJob, ChosenJob
<1> HIDE DEF x, m
<1>9. Chooses(x, documents, versions)
  BY <1>3, <1>7 DEF Chooses
<1>10. Numbers(x, documents, versions)
  <2>1. CASE d = None
    BY <1>6, <1>7, <2>1 DEF Numbers
  <2>2. CASE d # None
    <3> DEFINE s == versions[j.previous].seq
               h == Highest(documents, versions, d)
    <3>1. s \in Nat /\ h \in Nat
      <4>1. j.previous \in DOMAIN versions /\ documents[d].latest \in DOMAIN versions
        BY <1>1, <1>3, <2>2 DEF Chooses, RowsOK, Linked
      <4>. QED  BY <1>4, <4>1 DEF Version, Highest
    <3>2. s <= m /\ m <= h
      BY <1>6, <2>2
    <3>3. s < 1 + m /\ 1 + m <= h + 1
      <4> HIDE DEF s, h
      <4>. QED  BY <1>6, <3>1, <3>2
    <3>. QED  BY <1>7, <2>2, <3>3 DEF Numbers
  <2>. QED  BY <2>1, <2>2
<1>11. JobOK(x, documents, versions)
  BY <1>3, <1>7, <1>9, <1>10 DEF JobOK
<1>12. x \in Job
  BY <1>8 DEF Job
<1>13. \A w \in Uploads : SameHold(j, x, w)
  BY <1>1, <1>2, <1>7, PipelineGoes
<1>. QED  BY <1>2, <1>11, <1>12, <1>13, JobAlone

\* A commit of another process does not touch the request that owns a file.
LEMMA OwnsNoticed ==
  ASSUME NEW k \in Job, NEW w
  PROVE  /\ Owns(Noticed(k), w) <=> Owns(k, w)
         /\ SameHold(k, Noticed(k), w)
<1>1. k.pc = "keywords" => k.op = "search"
  BY DEF Job, Idle, UploadJob, FileJob, PipelineJob, ChosenJob, SavingJob, PublishJob, SearchJob
<1>2. CASE k.pc = "keywords"
  <2>1. Noticed(k).op = "search" /\ k.op = "search"
    BY <1>1, <1>2, NoticedJob
  <2>. QED  BY <2>1 DEF Owns, SameHold
<1>3. CASE k.pc # "keywords"
  BY <1>3, NoticedJob DEF Owns, SameHold
<1>. QED  BY <1>2, <1>3

LEMMA CommitStep ==
  ASSUME IInv, NEW p \in Processes, Commit(p)
  PROVE  IInv'
<1> DEFINE j == job[p]
           u == j.upload
<1>1. /\ Types /\ FileTypes /\ JobsOK /\ FilesOK /\ job \in [Processes -> Job] /\ j \in Job
      /\ RowsOK(documents, versions) /\ ActiveOK(documents, versions, overlapped)
  BY DEF IInv, Types
<1>2. j.pc = "commit" /\ j \in SavingJob /\ JobOK(j, documents, versions)
  BY <1>1, JobKinds DEF Commit, JobsOK
<1>3. CASE Collides(j)
  BY <1>3, CrumbleStep DEF Commit
<1>4. CASE ~Collides(j)
  <2>1. /\ Save(p) /\ job' = [Raced(p) EXCEPT ![p] = Idle]
        /\ answer' = IF j.op = "ingest" THEN [answer EXCEPT ![u] = "ok"] ELSE answer
        /\ staged' = staged /\ promoted' = promoted /\ expired' = expired
        /\ drawn' = drawn /\ offered' = offered
        /\ resubmitted' = resubmitted /\ overlapped' = overlapped
    BY <1>4 DEF Commit, files
  <2>2. MaySave(j, documents, versions)
    <3>1. NumberIsFree(j, versions)
      BY <1>4 DEF NumberIsFree, Collides, VersionsOf, Ids
    <3>. QED  BY <1>1, <1>2, <3>1 DEF MaySave, JobOK
  <2>3. /\ documents' = SavedDocuments(documents, versions, j)
        /\ versions' = SavedVersions(documents, versions, j)
    BY <2>1 DEF Save, SavedDocuments, SavedVersions, DocumentOf
  <2>4. /\ job'[p] = Idle
        /\ \A q \in Processes : q # p => job'[q] = Noticed(job[q])
    BY <2>1 DEF Raced, Noticed
  <2>5. RowsOK(documents', versions') /\ ActiveOK(documents', versions', overlapped')
    BY <1>1, <2>1, <2>2, <2>3, RowsSaved, ActiveSaved
  <2>6. Types'
    <3>1. job' \in [Processes -> Job]
      <4>1. \A q \in Processes : job'[q] \in Job
        BY <1>1, <2>4, NoticedJob, IdleJob
      <4>2. job' = [q \in Processes |-> job'[q]]
        BY <2>1 DEF Raced
      <4>. QED  BY <4>1, <4>2
    <3>2. ASSUME NEW q \in Processes, job'[q].op \in {"upload", "ingest"}
          PROVE  job'[q].upload \in drawn'
      <4>1. Owns(job'[q], job'[q].upload)
        BY <3>2 DEF Owns
      <4>2. q # p /\ Owns(job[q], job'[q].upload)
        BY <1>1, <2>4, <4>1, IdleJob, OwnsNoticed
      <4>. QED  BY <1>1, <2>1, <4>2 DEF Types, Owns
    <3>3. FileTypes'
      <4>1. u \in Uploads
        BY <1>2 DEF SavingJob
      <4>. QED  BY <1>1, <2>1, <4>1 DEF FileTypes
    <3>. QED  BY <3>1, <3>2, <3>3 DEF Types
  <2>7. JobsOK'
    <3>1. ASSUME NEW q \in Processes PROVE JobOK(job'[q], documents', versions')
      <4>1. CASE q = p
        BY <2>4, <4>1, IdleJob
      <4>2. CASE q # p
        <5>1. job[q] \in Job /\ JobOK(job[q], documents, versions) /\ job'[q] = Noticed(job[q])
          BY <1>1, <2>4, <4>2 DEF JobsOK
        <5>2. JobOK(Noticed(job[q]), documents', versions')
          BY <2>2, <2>3, <5>1, JobSaved
        <5>. QED  BY <5>1, <5>2
      <4>. QED  BY <4>1, <4>2
    <3>. QED  BY <3>1 DEF JobsOK
  <2>8. \A w \in Uploads : HasVersion(w)' <=> HasVersion(w) \/ w = u
    <3>1. OneRowAdded(documents, versions, j, documents', versions', DocumentOf(documents, j))
      BY <2>2, <2>3, SavedRows
    <3>2. /\ DOMAIN versions' = DOMAIN versions \cup {Len(versions) + 1}
          /\ \A v \in DOMAIN versions : versions'[v] = versions[v]
          /\ versions'[Len(versions) + 1].source = u
      BY <3>1 DEF OneRowAdded, NewVersion
    <3>. QED  BY <3>2 DEF HasVersion
  <2>9. FilesOK'
    <3>1. ASSUME NEW w \in Uploads \ resubmitted PROVE FileOK(w)'
      <4>1. FileOK(w)
        BY <1>1 DEF FilesOK
      <4>2. \A q \in Processes : q # p =>
               /\ Owns(job'[q], w) <=> Owns(job[q], w)
               /\ SameHold(job[q], job'[q], w)
        BY <1>1, <2>4, OwnsNoticed
      <4>3. CASE Handles(p, w)
        <5>1. j.op = "ingest" /\ w = u
          BY <1>1, <1>2, <4>3, JobUploads DEF Handles, Owns
        <5>2. promoted'[w] = "file"
          BY <1>2, <2>1, <4>1, <4>3 DEF FileOK, PlaceAt
        <5>3. answer'[w] = "ok"
          BY <1>1, <2>1, <5>1 DEF FileTypes
        <5>4. w \in drawn' <=> w \in drawn
          BY <2>1
        <5>. QED  BY <2>4, <4>1, <4>2, <4>3, <5>2, <5>3, <5>4, FileReleased
      <4>4. CASE ~Handles(p, w)
        <5>1. SameHold(job[p], job'[p], w)
          BY <2>4, <4>4, IdleJob DEF SameHold, Handles
        <5>2. \A q \in Processes : SameHold(job[q], job'[q], w)
          BY <4>2, <5>1
        <5>3. HasVersion(w)' <=> HasVersion(w)
          <6>1. CASE w # u
            BY <2>8, <6>1
          <6>2. CASE w = u
            <7>1. j.op = "retry"
              BY <1>2, <4>4, <6>2 DEF Handles, Owns, SavingJob
            <7>. QED  BY <1>2, <2>8, <6>2, <7>1 DEF JobOK, HasVersion
          <6>. QED  BY <6>1, <6>2
        <5>4. answer'[w] = answer[w]
          BY <1>1, <2>1, <4>4 DEF Handles, Owns, FileTypes
        <5>5. /\ staged'[w] \in {staged[w], "none"} /\ promoted'[w] = promoted[w]
              /\ w \in drawn' <=> w \in drawn
              /\ w \in offered' <=> w \in offered
          BY <2>1
        <5>. QED  BY <4>1, <5>2, <5>3, <5>4, <5>5, FileHeld
      <4>. QED  BY <4>3, <4>4
    <3>. QED  BY <2>1, <3>1 DEF FilesOK
  <2>. QED  BY <2>5, <2>6, <2>7, <2>9 DEF IInv
<1>. QED  BY <1>3, <1>4

LEMMA SchemaMissingStep ==
  ASSUME IInv, NEW p \in Processes, SchemaMissing(p)
  PROVE  IInv'
<1>1. job[p] \in Job /\ job[p].pc = "commit"
  BY DEF IInv, Types, SchemaMissing
<1>2. job[p].op \in {"ingest", "retry"}
  BY <1>1, JobUploads
<1>. QED  BY <1>2, RefuseStep DEF SchemaMissing

LEMMA DatabaseFailsStep ==
  ASSUME IInv, NEW p \in Processes, DatabaseFails(p)
  PROVE  IInv'
BY CrumbleStep DEF DatabaseFails

-----------------------------------------------------------------------------
(* Activations and searches *)

LEMMA PublishReadStep ==
  ASSUME IInv, NEW p \in Processes, NEW v \in Ids(versions), PublishRead(p, v)
  PROVE  IInv'
<1> DEFINE d == versions[v].document
           x == [op |-> "publish", pc |-> "activate", version |-> v, raced |-> FALSE,
                 status |-> versions[v].status, current |-> documents[d].current]
<1>1. RowsOK(documents, versions)
  BY DEF IInv
<1>2. /\ v \in DOMAIN versions /\ v \in Nat /\ versions[v] \in Version
      /\ d \in DOMAIN documents /\ documents[d] \in Document
  BY <1>1, RowFacts DEF RowsOK, Linked, Ids
<1>3. job[p] = Idle /\ job' = [job EXCEPT ![p] = x] /\ UNCHANGED <<files, drawn, offered, rows, ghosts>>
  BY DEF PublishRead
<1>4. x \in Job
  BY <1>2 DEF Job, PublishJob, Version, Document
<1>5. /\ x.op = "publish" /\ x.pc = "activate" /\ x.version = v /\ x.raced = FALSE
      /\ x.status = versions[v].status /\ x.current = documents[d].current
  OBVIOUS
<1> HIDE DEF x
<1>6. Publishes(x, documents, versions)
  BY <1>1, <1>2, <1>5 DEF Publishes, RowsOK, Linked
<1>7. JobOK(x, documents, versions)
  BY <1>5, <1>6 DEF JobOK
<1>8. \A w \in Uploads : SameHold(job[p], x, w)
  BY <1>3, <1>5, IdleJob DEF SameHold, Owns
<1>. QED  BY <1>3, <1>4, <1>7, <1>8, JobAlone

LEMMA OwnsAlerted ==
  ASSUME NEW k \in Job, NEW d, NEW V, NEW w
  PROVE  /\ Owns(Alerted(k, d, V), w) <=> Owns(k, w)
         /\ SameHold(k, Alerted(k, d, V), w)
<1>1. k.pc \in {"activate", "keywords"} => k.op \in {"publish", "search"}
  BY DEF Job, Idle, UploadJob, FileJob, PipelineJob, ChosenJob, SavingJob, PublishJob, SearchJob
<1>2. CASE k.pc \in {"activate", "keywords"}
  <2>1. Alerted(k, d, V).op \in {"publish", "search"} /\ k.op \in {"publish", "search"}
    BY <1>1, <1>2, AlertedJob
  <2>. QED  BY <2>1 DEF Owns, SameHold
<1>3. CASE k.pc \notin {"activate", "keywords"}
  BY <1>3, AlertedJob DEF Owns, SameHold
<1>. QED  BY <1>2, <1>3

LEMMA PublishCommitStep ==
  ASSUME IInv, NEW p \in Processes, PublishCommit(p)
  PROVE  IInv'
<1> DEFINE j == job[p]
           d == versions[j.version].document
<1>1. /\ Types /\ FileTypes /\ JobsOK /\ FilesOK /\ job \in [Processes -> Job] /\ j \in Job
      /\ RowsOK(documents, versions) /\ ActiveOK(documents, versions, overlapped)
  BY DEF IInv, Types
<1>2. j.pc = "activate" /\ j \in PublishJob /\ JobOK(j, documents, versions)
  BY <1>1, JobKinds DEF PublishCommit, JobsOK
<1>3. /\ staged' = staged /\ promoted' = promoted /\ expired' = expired
      /\ drawn' = drawn /\ offered' = offered /\ answer' = answer /\ resubmitted' = resubmitted
      /\ overlapped' = IF j.raced THEN overlapped \cup {d} ELSE overlapped
  BY DEF PublishCommit, files
<1>4. MayPublish(j, documents, versions)
  BY <1>1, <1>2 DEF MayPublish, JobOK
<1>5. /\ documents' = PublishedDocuments(documents, versions, j)
      /\ versions' = PublishedVersions(versions, j)
  BY DEF PublishCommit, PublishedDocuments, PublishedVersions, Activated, StatusAfter, Ids
<1>6. /\ job'[p] = Idle
      /\ \A q \in Processes : q # p => job'[q] = Alerted(job[q], d, versions)
  BY DEF PublishCommit, Raced, Noticed, Alerted
<1>7. RowsOK(documents', versions') /\ ActiveOK(documents', versions', overlapped')
  <2>1. RowsOK(documents', versions')
    BY <1>4, <1>5, RowsPublished
  <2>2. ActiveOK(documents', versions', IF j.raced THEN overlapped \cup {d} ELSE overlapped)
    BY <1>1, <1>4, <1>5, ActivePublished
  <2>. QED  BY <1>3, <2>1, <2>2
<1> HIDE DEF d
<1>8. Types'
  <2>1. job' \in [Processes -> Job]
    <3>1. \A q \in Processes : job'[q] \in Job
      BY <1>1, <1>6, AlertedJob, IdleJob
    <3>2. job' = [q \in Processes |-> job'[q]]
      BY DEF PublishCommit
    <3>. QED  BY <3>1, <3>2
  <2>2. ASSUME NEW q \in Processes, job'[q].op \in {"upload", "ingest"}
        PROVE  job'[q].upload \in drawn'
    <3>1. Owns(job'[q], job'[q].upload)
      BY <2>2 DEF Owns
    <3>2. q # p /\ Owns(job[q], job'[q].upload)
      BY <1>1, <1>6, <3>1, IdleJob, OwnsAlerted
    <3>. QED  BY <1>1, <1>3, <3>2 DEF Types, Owns
  <2>3. FileTypes'
    BY <1>1, <1>3 DEF FileTypes
  <2>. QED  BY <2>1, <2>2, <2>3 DEF Types
<1>9. JobsOK'
  <2>1. ASSUME NEW q \in Processes PROVE JobOK(job'[q], documents', versions')
    <3>1. CASE q = p
      BY <1>6, <3>1, IdleJob
    <3>2. CASE q # p
      <4>1. /\ job[q] \in Job /\ JobOK(job[q], documents, versions)
            /\ job'[q] = Alerted(job[q], d, versions)
        BY <1>1, <1>6, <3>2 DEF JobsOK
      <4>2. d = versions[j.version].document
        BY DEF d
      <4>3. JobOK(Alerted(job[q], d, versions), documents', versions')
        BY <1>4, <1>5, <4>1, <4>2, JobPublished
      <4>. QED  BY <4>1, <4>3
    <3>. QED  BY <3>1, <3>2
  <2>. QED  BY <2>1 DEF JobsOK
<1>10. \A w \in Uploads : HasVersion(w)' <=> HasVersion(w)
  <2>1. d = versions[j.version].document
    BY DEF d
  <2>2. StatusWritten(documents, versions, j, documents', versions', d)
    BY <1>4, <1>5, <2>1, PublishedRows
  <2>3. DOMAIN versions' = DOMAIN versions /\ \A v \in DOMAIN versions : versions'[v].source = versions[v].source
    BY <2>2 DEF StatusWritten
  <2>. QED  BY <2>3 DEF HasVersion
<1>11. FilesOK'
  <2>1. ASSUME NEW w \in Uploads \ resubmitted PROVE FileOK(w)'
    <3>1. FileOK(w)
      BY <1>1 DEF FilesOK
    <3>2. j.op = "publish"
      BY <1>2 DEF PublishJob
    <3>3. \A q \in Processes : SameHold(job[q], job'[q], w)
      <4>1. SameHold(job[p], job'[p], w)
        BY <1>6, <3>2, IdleJob DEF SameHold, Owns
      <4>. QED  BY <1>1, <1>6, <4>1, OwnsAlerted
    <3>4. /\ staged'[w] \in {staged[w], "none"} /\ promoted'[w] = promoted[w] /\ answer'[w] = answer[w]
          /\ w \in drawn' <=> w \in drawn
          /\ w \in offered' <=> w \in offered
      BY <1>3
    <3>. QED  BY <1>10, <3>1, <3>3, <3>4, FileHeld
  <2>. QED  BY <1>3, <2>1 DEF FilesOK
<1>. QED  BY <1>7, <1>8, <1>9, <1>11 DEF IInv

LEMMA SearchVectorsStep ==
  ASSUME IInv, NEW p \in Processes, NEW history \in BOOLEAN, SearchVectors(p, history)
  PROVE  IInv'
<1> DEFINE x == [op |-> "search", pc |-> "keywords", history |-> history,
                 hits |-> FoundByVector(history), raced |-> FALSE]
<1>1. RowsOK(documents, versions)
  BY DEF IInv
<1>2. FoundByVector(history) \subseteq DOMAIN versions /\ DOMAIN versions \subseteq Nat
  BY <1>1, RowFacts DEF RowsOK, FoundByVector, Ids
<1>3. job[p] = Idle /\ job' = [job EXCEPT ![p] = x] /\ UNCHANGED <<files, drawn, offered, rows, ghosts>>
  BY DEF SearchVectors
<1>4. x \in Job
  BY <1>2 DEF Job, SearchJob
<1>5. /\ x.op = "search" /\ x.pc = "keywords" /\ x.history = history
      /\ x.hits = FoundByVector(history) /\ x.raced = FALSE
  OBVIOUS
<1> HIDE DEF x
<1>6. Searches(x, documents, versions)
  BY <1>5 DEF Searches, FoundByVector, Searchable, Ids
<1>7. JobOK(x, documents, versions)
  BY <1>5, <1>6 DEF JobOK
<1>8. \A w \in Uploads : SameHold(job[p], x, w)
  BY <1>3, <1>5, IdleJob DEF SameHold, Owns
<1>. QED  BY <1>3, <1>4, <1>7, <1>8, JobAlone

LEMMA SearchKeywordsStep ==
  ASSUME IInv, NEW p \in Processes, SearchKeywords(p)
  PROVE  IInv'
<1>1. job[p] \in Job /\ job[p].pc = "keywords"
  BY DEF IInv, Types, SearchKeywords
<1>2. job[p].op = "search"
  BY <1>1, JobKinds DEF SearchJob
<1>3. \A w \in Uploads : SameHold(job[p], Idle, w)
  BY <1>2, IdleJob DEF SameHold, Owns
<1>. QED  BY <1>3, IdleJob, JobAlone DEF SearchKeywords, Finish

-----------------------------------------------------------------------------
(* The invariant *)

LEMMA InitHolds ==
  ASSUME Init
  PROVE  IInv
<1> DEFINE n == Len(Earlier)
           D == [k \in 1..n |->
                   [name |-> Content[Earlier[k]].name, current |-> None, latest |-> k]]
           V == [k \in 1..n |->
                   [document |-> k, seq |-> 1, label |-> <<>>, previous |-> None,
                    status |-> "draft", source |-> Earlier[k], hash |-> Content[Earlier[k]].hash]]
<1>1. n \in Nat /\ DOMAIN Earlier = 1..n /\ \A k \in 1..n : Earlier[k] \in Uploads
  BY EarlierAssumption, LenProperties, ElementOfSeq
<1>2. /\ staged = [u \in Uploads |-> "none"]
      /\ promoted = [u \in Uploads |-> IF u \in Range(Earlier) THEN "file" ELSE "none"]
      /\ drawn = Range(Earlier) /\ offered = {} /\ expired = {}
      /\ documents = D /\ versions = V
      /\ job = [p \in Processes |-> Idle]
      /\ answer = [u \in Uploads |-> IF u \in Range(Earlier) THEN "ok" ELSE "none"]
      /\ resubmitted = {} /\ overlapped = {}
  BY DEF Init
<1>3. Range(Earlier) \subseteq Uploads /\ \A k \in 1..n : Earlier[k] \in Range(Earlier)
  BY <1>1 DEF Range
<1>4. Types
  BY <1>2, <1>3, IdleJob DEF Types, FileTypes, Idle
<1>5. /\ DOMAIN D = 1..n /\ DOMAIN V = 1..n
      /\ \A k \in 1..n :
           /\ D[k] = [name |-> Content[Earlier[k]].name, current |-> None, latest |-> k]
           /\ V[k] = [document |-> k, seq |-> 1, label |-> <<>>, previous |-> None,
                      status |-> "draft", source |-> Earlier[k], hash |-> Content[Earlier[k]].hash]
  OBVIOUS
<1>6. ASSUME NEW k \in 1..n
      PROVE  /\ D[k] \in Document /\ D[k].current = None /\ D[k].latest = k
             /\ V[k] \in Version /\ V[k].document = k /\ V[k].seq = 1 /\ V[k].previous = None
             /\ V[k].status = "draft" /\ V[k].source = Earlier[k]
  <2>1. k \in Nat /\ Earlier[k] \in Uploads /\ <<>> \in Label
    BY <1>1 DEF Label
  <2>. QED  BY <1>5, <2>1 DEF Document, Version, Names, Hashes, Status, None
<1>7. D \in Seq(Document) /\ V \in Seq(Version)
  <2>1. D = [k \in 1..n |-> D[k]] /\ V = [k \in 1..n |-> V[k]]
    OBVIOUS
  <2> HIDE DEF D, V
  <2>. QED  BY <1>1, <1>6, <2>1, IsASeq
<1> HIDE DEF D, V
<1>8. RowsOK(D, V)
  <2>1. Linked(D, V)
    BY <1>5, <1>6 DEF Linked
  <2>2. \A d \in 1..n : Highest(D, V, d) = 1
    BY <1>6 DEF Highest
  <2>3. Numbered(D, V)
    BY <1>5, <1>6, <2>2 DEF Numbered
  <2>4. Chained(V)
    BY <1>5, <1>6 DEF Chained
  <2>. QED  BY <1>7, <2>1, <2>3, <2>4 DEF RowsOK
<1>9. JobsOK
  BY <1>2, IdleJob DEF JobsOK
<1>10. ActiveOK(D, V, {})
  BY <1>5, <1>6 DEF ActiveOK, ActiveIn
<1>11. FilesOK
  <2>1. ASSUME NEW u \in Uploads PROVE FileOK(u)
    <3>1. \A p \in Processes : ~Handles(p, u)
      BY <1>2, IdleJob DEF Handles
    <3>2. (\E v \in DOMAIN versions : versions[v].source = u) => u \in Range(Earlier)
      BY <1>2, <1>3, <1>5, <1>6
    <3>. QED  BY <1>2, <3>1, <3>2 DEF FileOK
  <2>. QED  BY <2>1 DEF FilesOK
<1>. QED  BY <1>2, <1>4, <1>8, <1>9, <1>10, <1>11 DEF IInv

LEMMA NextHolds ==
  ASSUME IInv, Next
  PROVE  IInv'
<1>1. \A d \in 0..(Len(documents) + 1) : d \in Nat
  BY RowFacts DEF IInv, RowsOK
<1>2. ASSUME NEW u \in Uploads, Expire(u) PROVE IInv'
  BY <1>2, ExpireStep
<1>3. ASSUME NEW p \in Processes, NEW u \in Uploads, StageUpload(p, u) PROVE IInv'
  BY <1>3, StageUploadStep
<1>4. ASSUME NEW p \in Processes, UploadAnswers(p) PROVE IInv'
  BY <1>4, UploadAnswersStep
<1>5. ASSUME NEW p \in Processes, UploadFails(p) PROVE IInv'
  BY <1>5, UploadFailsStep
<1>6. ASSUME NEW p \in Processes, NEW u \in Uploads, NEW d \in 0..(Len(documents) + 1),
             IngestUpload(p, u, d)
      PROVE  IInv'
  BY <1>1, <1>6, IngestUploadStep
<1>7. ASSUME NEW p \in Processes, MakeDirectory(p) PROVE IInv'
  BY <1>7, MakeDirectoryStep
<1>8. ASSUME NEW p \in Processes, Move(p) PROVE IInv'
  BY <1>8, MoveStep
<1>9. ASSUME NEW p \in Processes, RemoveStaging(p) PROVE IInv'
  BY <1>9, RemoveStagingStep
<1>10. ASSUME NEW p \in Processes, NEW d \in Ids(documents), Retry(p, d) PROVE IInv'
  BY <1>10, RetryStep
<1>11. ASSUME NEW p \in Processes, PipelineSucceeds(p) PROVE IInv'
  BY <1>11, PipelineSucceedsStep
<1>12. ASSUME NEW p \in Processes, PipelineStops(p) PROVE IInv'
  BY <1>12, PipelineStopsStep
<1>13. ASSUME NEW p \in Processes, PipelineFails(p) PROVE IInv'
  BY <1>13, PipelineFailsStep
<1>14. ASSUME NEW p \in Processes, ReadDocument(p) PROVE IInv'
  BY <1>14, ReadDocumentStep
<1>15. ASSUME NEW p \in Processes, ReadVersions(p) PROVE IInv'
  BY <1>15, ReadVersionsStep
<1>16. ASSUME NEW p \in Processes, Commit(p) PROVE IInv'
  BY <1>16, CommitStep
<1>17. ASSUME NEW p \in Processes, SchemaMissing(p) PROVE IInv'
  BY <1>17, SchemaMissingStep
<1>18. ASSUME NEW p \in Processes, DatabaseFails(p) PROVE IInv'
  BY <1>18, DatabaseFailsStep
<1>19. ASSUME NEW p \in Processes, NEW v \in Ids(versions), PublishRead(p, v) PROVE IInv'
  BY <1>19, PublishReadStep
<1>20. ASSUME NEW p \in Processes, PublishCommit(p) PROVE IInv'
  BY <1>20, PublishCommitStep
<1>21. ASSUME NEW p \in Processes, NEW history \in BOOLEAN, SearchVectors(p, history) PROVE IInv'
  BY <1>21, SearchVectorsStep
<1>22. ASSUME NEW p \in Processes, SearchKeywords(p) PROVE IInv'
  BY <1>22, SearchKeywordsStep
<1>23. ASSUME NEW p \in Processes, Crash(p) PROVE IInv'
  BY <1>23, CrashStep
<1>. QED
  BY <1>2, <1>3, <1>4, <1>5, <1>6, <1>7, <1>8, <1>9, <1>10, <1>11, <1>12, <1>13, <1>14, <1>15,
     <1>16, <1>17, <1>18, <1>19, <1>20, <1>21, <1>22, <1>23 DEF Next

LEMMA StutterHolds ==
  ASSUME IInv, UNCHANGED vars
  PROVE  IInv'
<1>1. /\ staged' = staged /\ promoted' = promoted /\ drawn' = drawn /\ expired' = expired
      /\ offered' = offered /\ documents' = documents /\ versions' = versions /\ job' = job
      /\ answer' = answer /\ resubmitted' = resubmitted /\ overlapped' = overlapped
  BY DEF vars
<1>2. Types' /\ JobsOK' /\ FilesOK'
  BY <1>1 DEF IInv, Types, FileTypes, JobsOK, FilesOK, FileOK, Handles
<1>. QED  BY <1>1, <1>2 DEF IInv

\* Versions are numbered and chained, files follow their rows and every request
\* still knows what it read or can tell that it may not, at every step of uploads,
\* ingestions, activations, searches and crashes.
THEOREM KnowledgeInvariant == Spec => []IInv
<1>1. Init => IInv
  BY InitHolds
<1>2. IInv /\ [Next]_vars => IInv'
  BY NextHolds, StutterHolds
<1>. QED  BY <1>1, <1>2, PTL DEF Spec

-----------------------------------------------------------------------------
(* What a reader relies on *)

\* The numbers of a document are as many as its versions.
LEMMA NumbersCount ==
  ASSUME NEW D, NEW V, RowsOK(D, V), NEW d \in DOMAIN D,
         NEW S, S = {v \in DOMAIN V : V[v].document = d}
  PROVE  /\ Cardinality(S) = Highest(D, V, d)
         /\ {V[v].seq : v \in S} = 1..Highest(D, V, d)
<1> DEFINE h == Highest(D, V, d)
           f == [v \in S |-> V[v].seq]
<1>1. /\ \A v, w \in S : V[v].seq = V[w].seq => v = w
      /\ \A v \in S : V[v].seq \in 1..h
      /\ \A k \in 1..h : \E v \in S : V[v].seq = k
  BY DEF RowsOK, Numbered
<1>2. h \in Nat
  BY RowFacts DEF RowsOK, Linked, Highest, Version
<1> HIDE DEF h
<1>3. f \in Bijection(S, 1..h)
  <2>1. f \in [S -> 1..h]
    BY <1>1
  <2>2. \A a, b \in S : f[a] = f[b] => a = b
    BY <1>1
  <2>3. \A t \in 1..h : \E a \in S : f[a] = t
    BY <1>1
  <2> HIDE DEF f
  <2>. QED  BY <2>1, <2>2, <2>3, Fun_IsBij
<1>4. ExistsBijection(1..h, S)
  <2>1. ExistsBijection(S, 1..h)
    BY <1>3, Fun_ExistsBij
  <2>. QED  BY <2>1, Fun_ExistsBijSymmetric
<1>5. Cardinality(S) = h
  BY <1>2, <1>4, FS_CountingElements
<1>6. {V[v].seq : v \in S} = 1..h
  BY <1>1
<1>. QED  BY <1>5, <1>6 DEF h

LEMMA VersionsFollow ==
  ASSUME IInv
  PROVE  VersionsConsistent
<1>1. /\ Types /\ FileTypes /\ RowsOK(documents, versions)
      /\ ActiveOK(documents, versions, overlapped)
  BY DEF IInv, Types
<1>2. /\ \A v \in DOMAIN versions : versions[v].document \in DOMAIN documents
      /\ \A d \in DOMAIN documents :
           /\ documents[d].latest \in DOMAIN versions /\ versions[documents[d].latest].document = d
           /\ documents[d].current # None =>
                documents[d].current \in DOMAIN versions /\ versions[documents[d].current].document = d
      /\ \A v \in DOMAIN versions : versions[v] \in Version
  BY <1>1, RowFacts DEF RowsOK, Linked
<1>3. TypeOK
  <2>1. \A p \in Processes : job[p].op \in {"none", "upload", "ingest", "retry", "publish", "search"}
    BY <1>1, JobUploads DEF Types
  <2>2. \A v \in Ids(versions) : versions[v].status \in {"draft", "active", "superseded"}
    BY <1>2 DEF Ids, Version, Status
  <2>. QED  BY <1>1, <1>2, <2>1, <2>2 DEF TypeOK, FileTypes, Ids, VersionsOf
<1>4. LatestIsNewest
  <2>1. ASSUME NEW d \in DOMAIN documents
        PROVE  /\ {versions[v].seq : v \in VersionsOf(d)} = 1..Cardinality(VersionsOf(d))
               /\ \A v \in VersionsOf(d) : versions[v].seq <= versions[documents[d].latest].seq
    <3>1. VersionsOf(d) = {v \in DOMAIN versions : versions[v].document = d}
      BY DEF VersionsOf, Ids
    <3>2. /\ Cardinality(VersionsOf(d)) = Highest(documents, versions, d)
          /\ {versions[v].seq : v \in VersionsOf(d)} = 1..Highest(documents, versions, d)
      BY <1>1, <3>1, NumbersCount
    <3>3. \A v \in VersionsOf(d) : versions[v].seq \in 1..Highest(documents, versions, d)
      BY <3>2
    <3>. QED  BY <3>2, <3>3 DEF Highest
  <2>. QED  BY <2>1 DEF LatestIsNewest, Ids
<1>5. RevisionsGoBack
  BY <1>1 DEF RevisionsGoBack, RowsOK, Chained, Ids
<1>6. OneActiveVersion
  BY <1>1 DEF OneActiveVersion, ActiveOK, ActiveIn, VersionsOf, Ids
<1>. QED  BY <1>3, <1>4, <1>5, <1>6 DEF VersionsConsistent

\* The versions of a document are numbered without gaps and chained backwards,
\* however ingestions and activations interleave
\* (policy_persistence_gateway.py reads without locks; the unique keys decide),
\* and have one active member unless two activations of the document overlapped,
\* for nothing keeps those apart.
THEOREM VersionsStayConsistent == Spec => []VersionsConsistent
<1>1. IInv => VersionsConsistent
  BY VersionsFollow
<1>. QED  BY <1>1, KnowledgeInvariant, PTL

\* A version has its file and a refused upload has none, whatever expires,
\* fails or crashes, as long as the client sends an upload once.
THEOREM FilesStayWithRows == Spec => []FilesFollowRows
<1>1. IInv => FilesFollowRows
  <2>1. SUFFICES ASSUME IInv PROVE FilesFollowRows
    OBVIOUS
  <2>2. /\ \A u \in Uploads \ resubmitted : FileOK(u)
        /\ versions \in Seq(Version)
    BY <2>1 DEF IInv, FilesOK, RowsOK
  <2>3. \A v \in DOMAIN versions : versions[v].source \in Uploads
    <3>1. documents \in Seq(Document)
      BY <2>1 DEF IInv, RowsOK
    <3>2. \A v \in DOMAIN versions : versions[v] \in Version
      BY <2>2, <3>1, RowFacts
    <3>. QED  BY <3>2 DEF Version
  <2>4. SourceIsKept
    BY <2>2, <2>3 DEF SourceIsKept, FileOK, Ids
  <2>5. RefusedLeavesNothing
    BY <2>2 DEF RefusedLeavesNothing, FileOK
  <2>. QED  BY <2>4, <2>5 DEF FilesFollowRows
<1>. QED  BY <1>1, KnowledgeInvariant, PTL

\* A search without history shows one version of a document, although its two
\* queries see the tables at different times, unless a commit came between.
THEOREM SearchStaysCoherent == Spec => []SearchIsCoherent
<1>1. IInv => SearchIsCoherent
  <2>1. SUFFICES ASSUME IInv, NEW p \in Processes, job[p].pc = "keywords", ~job[p].raced, ~job[p].history
                 PROVE  \A v, w \in Hits(p) : versions[v].document = versions[w].document => v = w
    BY DEF SearchIsCoherent
  <2>2. job[p] \in SearchJob /\ Searches(job[p], documents, versions)
    BY <2>1, JobKinds DEF IInv, Types, JobsOK, JobOK
  <2>3. \A v \in job[p].hits : documents[versions[v].document].latest = v
    BY <2>1, <2>2 DEF Searches
  <2>4. job[p].history = FALSE
    BY <2>1, <2>2 DEF SearchJob
  <2>5. \A v \in FoundByKeywords(job[p].history) : documents[versions[v].document].latest = v
    BY <2>4 DEF FoundByKeywords, Searchable
  <2>. QED  BY <2>3, <2>5 DEF Hits
<1>. QED  BY <1>1, KnowledgeInvariant, PTL

\* A document leaves the results only when another version than its latest is
\* activated: rows change in a commit of a draft, which is then the latest and
\* may be found, and in an activation.
THEOREM OnlyRollbackHides == Spec => HiddenOnlyByRollback
<1> DEFINE Step == \A d \in Ids(documents) :
                     /\ Searchable(documents[d].latest, FALSE)
                     /\ ~Searchable(documents[d].latest, FALSE)'
                     => /\ documents'[d].latest = documents[d].latest
                        /\ documents'[d].current # documents[d].latest
<1>1. IInv /\ [Next]_vars => [Step]_vars
  <2>1. SUFFICES ASSUME IInv, Next PROVE Step
    OBVIOUS
  <2>2. CASE UNCHANGED rows
    BY <2>2 DEF rows, Searchable
  <2>3. ASSUME NEW p \in Processes, Commit(p) PROVE Step
    <3> DEFINE j == job[p]
               n == Len(versions) + 1
               e == DocumentOf(documents, j)
    <3>1. JobOK(j, documents, versions) /\ j \in SavingJob /\ RowsOK(documents, versions)
      BY <2>1, <2>3, JobKinds DEF IInv, Types, JobsOK, Commit
    <3>2. CASE Collides(j)
      BY <2>2, <2>3, <3>2 DEF Commit, Crumble
    <3>3. CASE ~Collides(j)
      <4>1. MaySave(j, documents, versions)
        <5>1. NumberIsFree(j, versions)
          BY <3>3 DEF NumberIsFree, Collides, VersionsOf, Ids
        <5>. QED  BY <2>3, <3>1, <5>1 DEF MaySave, JobOK, Commit
      <4>2. /\ documents' = SavedDocuments(documents, versions, j)
            /\ versions' = SavedVersions(documents, versions, j)
        BY <2>3, <3>3 DEF Commit, Save, SavedDocuments, SavedVersions, DocumentOf
      <4>3. OneRowAdded(documents, versions, j, documents', versions', e)
        BY <4>1, <4>2, SavedRows
      <4> HIDE DEF n, e, j
      <4>4. /\ \A v \in DOMAIN versions : versions'[v] = versions[v]
            /\ versions'[n].status = "draft" /\ versions'[n].document = e
            /\ documents'[e].latest = n
            /\ \A d \in DOMAIN documents : d # e => documents'[d].latest = documents[d].latest
        BY <4>3 DEF OneRowAdded, NewVersion, n
      <4>5. ASSUME NEW d \in DOMAIN documents, Searchable(documents[d].latest, FALSE)
            PROVE  Searchable(documents[d].latest, FALSE)'
        <5>1. CASE d = e
          BY <4>4, <5>1 DEF Searchable
        <5>2. CASE d # e
          <6>1. documents[d].latest \in DOMAIN versions /\ versions[documents[d].latest].document = d
            BY <3>1 DEF RowsOK, Linked
          <6>. QED  BY <4>4, <4>5, <5>2, <6>1 DEF Searchable
        <5>. QED  BY <5>1, <5>2
      <4>. QED  BY <4>5 DEF Ids
    <3>. QED  BY <3>2, <3>3
  <2>4. ASSUME NEW p \in Processes, PublishCommit(p) PROVE Step
    <3> DEFINE j == job[p]
               e == versions[j.version].document
    <3>1. JobOK(j, documents, versions) /\ j \in PublishJob /\ RowsOK(documents, versions)
      BY <2>1, <2>4, JobKinds DEF IInv, Types, JobsOK, PublishCommit
    <3>2. MayPublish(j, documents, versions) /\ Publishes(j, documents, versions)
      BY <2>4, <3>1 DEF MayPublish, JobOK, PublishCommit
    <3>3. /\ documents' = PublishedDocuments(documents, versions, j)
          /\ versions' = PublishedVersions(versions, j)
      BY <2>4 DEF PublishCommit, PublishedDocuments, PublishedVersions, Activated, StatusAfter, Ids
    <3>4. StatusWritten(documents, versions, j, documents', versions', e)
      BY <3>2, <3>3, PublishedRows
    <3>5. /\ \A v \in DOMAIN versions : versions'[v].document = versions[v].document
          /\ \A v \in DOMAIN versions : versions'[v].status = StatusAfter(versions, j, v)
          /\ \A d \in DOMAIN documents : documents'[d].latest = documents[d].latest
          /\ documents'[e].current = IF j.current = j.version THEN documents[e].current ELSE j.version
      BY <3>4 DEF StatusWritten
    <3>6. ASSUME NEW d \in DOMAIN documents, Searchable(documents[d].latest, FALSE),
                 ~Searchable(documents[d].latest, FALSE)'
          PROVE  documents'[d].current # documents[d].latest
      <4> DEFINE v == documents[d].latest
      <4>1. v \in DOMAIN versions /\ versions[v].document = d
        BY <3>1 DEF RowsOK, Linked
      <4>2. StatusAfter(versions, j, v) \notin {"draft", "approved", "active"}
        BY <3>5, <3>6, <4>1 DEF Searchable
      <4>3. versions[v].status \in {"draft", "approved", "active"}
        BY <3>6 DEF Searchable
      <4>4. v # j.version /\ v = j.current
        BY <4>2, <4>3 DEF StatusAfter
      <4>5. d = e
        <5>1. v # None
          BY <3>1, <4>1, RowFacts DEF RowsOK, None
        <5>. QED  BY <3>2, <4>1, <4>4, <5>1 DEF Publishes
      <4>. QED  BY <3>5, <4>4, <4>5
    <3>. QED  BY <3>5, <3>6 DEF Ids
  <2>5. ASSUME NEW p \in Processes, NEW code, NEW directories, Refuse(p, code, directories)
        PROVE  UNCHANGED rows
    BY <2>5 DEF Refuse
  <2>6. ASSUME NEW p \in Processes, Crumble(p) PROVE UNCHANGED rows
    BY <2>6 DEF Crumble
  <2>7. \/ UNCHANGED rows
        \/ \E p \in Processes : Commit(p) \/ PublishCommit(p)
    BY <2>1, <2>5, <2>6
       DEF Next, Expire, StageUpload, UploadAnswers, UploadFails, IngestUpload, MakeDirectory, Move,
           RemoveStaging, Retry, PipelineSucceeds, PipelineStops, PipelineFails, ReadDocument,
           ReadVersions, SchemaMissing, DatabaseFails, PublishRead, SearchVectors, SearchKeywords, Crash
  <2>. QED  BY <2>2, <2>3, <2>4, <2>7
<1>2. Spec => [][Step]_vars
  BY <1>1, KnowledgeInvariant, PTL DEF Spec
<1>. QED  BY <1>2 DEF HiddenOnlyByRollback

-----------------------------------------------------------------------------
(* Windows.  The text of a section is cut into windows of TargetChars; the *)
(* argument goes from the end of the text to its beginning.                *)

\* A set of numbers has a least element, and one with a bound a greatest.
LEMMA LeastNumber ==
  ASSUME NEW T \in SUBSET Nat, T # {}
  PROVE  \E x \in T : \A y \in T : x <= y
<1>1. \E x \in T : \A y \in T : ~ (<<y, x>> \in OpToRel(<, Nat))
  BY NatLessThanWellFounded, WFMin
<1>2. ASSUME NEW x \in T, NEW y \in T, ~(<<y, x>> \in OpToRel(<, Nat))
      PROVE  x <= y
  BY <1>2 DEF OpToRel
<1>. QED  BY <1>1, <1>2

LEMMA GreatestNumber ==
  ASSUME NEW n \in Nat, NEW T \in SUBSET (0..n), T # {}
  PROVE  \E x \in T : \A y \in T : x >= y
<1> DEFINE below == {n - x : x \in T}
<1>1. below \in SUBSET Nat /\ below # {}
  <2>1. PICK x \in T : TRUE
    OBVIOUS
  <2>2. n - x \in below
    OBVIOUS
  <2>3. ASSUME NEW y \in T PROVE n - y \in Nat
    BY y \in 0..n
  <2>. QED  BY <2>2, <2>3
<1>2. PICK b \in below : \A y \in below : b <= y
  <2> HIDE DEF below
  <2>. QED  BY <1>1, LeastNumber
<1>3. PICK x \in T : b = n - x
  BY <1>2
<1>4. \A y \in T : n - x <= n - y
  BY <1>2, <1>3
<1>5. \A y \in T : x >= y
  BY <1>4
<1>. QED  BY <1>5

\* A window is not empty, not too long, and when it ends early it ends behind a
\* break in its second half.
LEMMA WindowEnds ==
  ASSUME NEW text, Len(text) \in Nat, NEW start \in Nat, start < Len(text)
  PROVE  LET end == WindowEnd(text, start) IN
         /\ end \in Nat /\ start < end /\ end <= Len(text) /\ end <= start + TargetChars
         /\ end < Len(text) => start + TargetChars < Len(text)
         /\ end < Len(text) /\ end # start + TargetChars =>
              text[end] \in Punctuation \cup {NL} /\ end - 1 - start >= TargetChars \div 2
<1> DEFINE limit == IF start + TargetChars < Len(text) THEN start + TargetChars ELSE Len(text)
           breaks == {k \in (start + 1)..limit : text[k] \in Punctuation \cup {NL}}
           last == CHOOSE k \in breaks : \A j \in breaks : k >= j
           half == TargetChars \div 2
           end == WindowEnd(text, start)
<1>1. TargetChars \in Nat /\ TargetChars > 0
  BY ChunkAssumption
<1>2. /\ limit \in Nat /\ start < limit /\ limit <= Len(text) /\ limit <= start + TargetChars
      /\ limit # Len(text) => limit = start + TargetChars /\ start + TargetChars < Len(text)
  BY <1>1
<1>3. end = IF limit = Len(text) \/ breaks = {} THEN limit
            ELSE IF last - 1 - start >= half THEN last ELSE limit
  BY DEF WindowEnd
<1>4. ASSUME breaks # {} PROVE last \in breaks
  <2>1. breaks \in SUBSET (0..limit)
    BY <1>2
  <2>2. \E k \in breaks : \A j \in breaks : k >= j
    <3> HIDE DEF breaks, limit
    <3>. QED  BY <1>2, <1>4, <2>1, GreatestNumber
  <2> HIDE DEF breaks
  <2>. QED  BY <2>2, Zenon
<1>5. breaks # {} => /\ last \in Nat /\ start < last /\ last <= limit
                     /\ text[last] \in Punctuation \cup {NL}
  <2> HIDE DEF last
  <2>. QED  BY <1>2, <1>4
<1> HIDE DEF limit, breaks, last, half, end
<1>6. CASE end = limit
  BY <1>2, <1>6, <1>1 DEF end, half
<1>7. CASE end # limit
  <2>1. limit # Len(text) /\ breaks # {} /\ last - 1 - start >= half /\ end = last
    BY <1>3, <1>7
  <2>. QED  BY <1>1, <1>2, <1>5, <1>7, <2>1 DEF end, half
<1>. QED  BY <1>6, <1>7

\* The next window starts inside the text, and behind the last one's end only by
\* what a break has cut off.
LEMMA NextWindowStarts ==
  ASSUME NEW text, Len(text) \in Nat, NEW start \in Nat, start < Len(text),
         WindowEnd(text, start) < Len(text)
  PROVE  LET end == WindowEnd(text, start)
             next == NextStart(start, end)
         IN  /\ next \in Nat /\ start < next /\ next < Len(text)
             /\ end < next => /\ text[end] \in Punctuation \cup {NL}
                              /\ next - end < (TargetChars - OverlapChars) - TargetChars \div 2
<1> DEFINE end == WindowEnd(text, start)
           next == NextStart(start, end)
<1>1. TargetChars \in Nat /\ OverlapChars \in Nat /\ TargetChars > OverlapChars
  BY ChunkAssumption
<1>2. PICK half \in Int : half = TargetChars \div 2
  BY <1>1
<1>3. /\ end \in Nat /\ start < end /\ end < Len(text) /\ end <= start + TargetChars
      /\ start + TargetChars < Len(text)
      /\ end # start + TargetChars =>
           text[end] \in Punctuation \cup {NL} /\ end - 1 - start >= half
  BY <1>2, WindowEnds
<1> HIDE DEF end
<1>4. next = IF end - OverlapChars > start + TargetChars - OverlapChars
             THEN end - OverlapChars ELSE start + TargetChars - OverlapChars
  BY DEF NextStart
<1>5. next = start + TargetChars - OverlapChars
  BY <1>1, <1>3, <1>4
<1>6. next \in Nat /\ start < next /\ next < Len(text)
  BY <1>1, <1>3, <1>5
<1>7. end < next => end # start + TargetChars
  BY <1>1, <1>3, <1>5
<1>8. end < next => /\ text[end] \in Punctuation \cup {NL}
                    /\ next - end < (TargetChars - OverlapChars) - half
  BY <1>1, <1>2, <1>3, <1>5, <1>7
<1>. QED  BY <1>2, <1>6, <1>8 DEF end

\* The windows a text is cut into from a place on, given those of later places.
Cut(f, text, start) ==
  IF start >= Len(text) THEN <<>>
  ELSE LET end == WindowEnd(text, start)
           next == NextStart(start, end)
       IN  <<[start |-> start, end |-> end]>>
             \o (IF end >= Len(text) \/ next >= Len(text) THEN <<>> ELSE f[next])

LEMMA CutLooksAhead ==
  ASSUME NEW text, Len(text) \in Nat, NEW start \in 0..Len(text), NEW f, NEW g,
         \A k \in (start + 1)..Len(text) : f[k] = g[k]
  PROVE  Cut(f, text, start) = Cut(g, text, start)
<1>1. CASE start >= Len(text)
  BY <1>1 DEF Cut
<1>2. CASE start < Len(text)
  <2> DEFINE end == WindowEnd(text, start)
             next == NextStart(start, end)
  <2>1. end \in Nat /\ (end < Len(text) => next \in (start + 1)..Len(text))
    BY <1>2, WindowEnds, NextWindowStarts
  <2>2. end >= Len(text) \/ f[next] = g[next]
    <3> HIDE DEF end, next
    <3>. QED  BY <2>1
  <2>. QED  BY <2>2 DEF Cut
<1>. QED  BY <1>1, <1>2

\* The recursion goes forward, so there is a function it defines.
LEMMA WindowsExist ==
  ASSUME NEW text, Len(text) \in Nat
  PROVE  LET w == WindowsFrom(text) IN
         w = [start \in 0..Len(text) |-> Cut(w, text, start)]
<1> DEFINE len == Len(text)
           Defined(n) == \E f : f = [k \in (len - n)..len |-> Cut(f, text, k)]
           T == {n \in 0..len : ~ Defined(n)}
<1>1. T = {}
  <2>1. SUFFICES ASSUME T # {} PROVE FALSE
    OBVIOUS
  <2>2. PICK n \in T : \A y \in T : n <= y
    <3>1. T \in SUBSET Nat
      OBVIOUS
    <3> HIDE DEF T
    <3>. QED  BY <2>1, <3>1, LeastNumber
  <2>3. n \in 0..len /\ ~ Defined(n)
    BY <2>2
  <2>4. PICK g : n # 0 => g = [k \in (len - (n - 1))..len |-> Cut(g, text, k)]
    <3>1. CASE n = 0
      BY <3>1
    <3>2. CASE n # 0
      <4>1. n - 1 \in 0..len /\ ~ (n <= n - 1)
        BY <2>3, <3>2
      <4>2. n - 1 \notin T
        <5> HIDE DEF T
        <5>. QED  BY <2>2, <4>1
      <4>3. Defined(n - 1)
        BY <4>1, <4>2
      <4>. QED  BY <4>3
    <3>. QED  BY <3>1, <3>2
  <2> DEFINE f == [k \in (len - n)..len |-> Cut(g, text, k)]
  <2>5. ASSUME NEW k \in (len - n)..len
        PROVE  Cut(g, text, k) = Cut(f, text, k)
    <3>1. k \in 0..len
      BY <2>3
    <3>2. ASSUME NEW j \in (k + 1)..len PROVE g[j] = f[j]
      <4>1. n # 0 /\ j \in (len - (n - 1))..len /\ j \in (len - n)..len
        BY <2>3, <3>1
      <4>2. g[j] = Cut(g, text, j)
        <5>1. g = [i \in (len - (n - 1))..len |-> Cut(g, text, i)]
          BY <2>4, <4>1
        <5> DEFINE h == [i \in (len - (n - 1))..len |-> Cut(g, text, i)]
        <5>2. h[j] = Cut(g, text, j)
          BY <4>1
        <5>. QED  BY <5>1, <5>2, Zenon
      <4>. QED  BY <4>1, <4>2
    <3> HIDE DEF f
    <3>. QED  BY <3>1, <3>2, CutLooksAhead
  <2>6. f = [k \in (len - n)..len |-> Cut(f, text, k)]
    <3> DEFINE h == [k \in (len - n)..len |-> Cut(f, text, k)]
    <3>1. \A k \in (len - n)..len : Cut(g, text, k) = Cut(f, text, k)
      BY <2>5
    <3>2. f = h
      <4> DEFINE old(k) == Cut(g, text, k)
                 new(k) == Cut(f, text, k)
      <4>1. \A k \in (len - n)..len : old(k) = new(k)
        BY <3>1
      <4>2. f = [k \in (len - n)..len |-> old(k)] /\ h = [k \in (len - n)..len |-> new(k)]
        OBVIOUS
      <4> HIDE DEF old, new, f, h
      <4>. QED  BY <4>1, <4>2
    <3>. QED  BY <3>2
  <2>7. Defined(n)
    <3> HIDE DEF f
    <3>. QED  BY <2>6
  <2>. QED  BY <2>3, <2>7
<1>2. Defined(len)
  <2>1. len \in 0..len /\ len \notin T
    BY <1>1
  <2>. QED  BY <2>1
<1>3. \E f : f = [k \in 0..len |-> Cut(f, text, k)]
  <2>1. len - len = 0
    OBVIOUS
  <2>. QED  BY <1>2, <2>1
<1>4. WindowsFrom(text) = CHOOSE f : f = [k \in 0..len |-> Cut(f, text, k)]
  BY Zenon DEF WindowsFrom, Cut
<1>. QED  BY <1>3, <1>4, Zenon

\* One window after another: it starts later, and what is left out between two
\* of them is short and lies behind a break.
Follows(text, one, other) ==
  /\ one.start < other.start
  /\ one.end < other.start =>
       /\ text[one.end] \in Punctuation \cup {NL}
       /\ other.start - one.end < (TargetChars - OverlapChars) - TargetChars \div 2

\* The windows ws cover the text from a place to its end.
CutUp(text, start, ws) ==
  /\ ws \in Seq([start : Nat, end : Nat]) /\ Len(ws) > 0
  /\ ws[1].start = start
  /\ ws[Len(ws)].end = Len(text)
  /\ \A k \in 1..Len(ws) : /\ ws[k].start < ws[k].end
                           /\ ws[k].end <= Len(text)
                           /\ ws[k].end <= ws[k].start + TargetChars
  /\ \A k \in 1..(Len(ws) - 1) : Follows(text, ws[k], ws[k + 1])

\* split_section_text: the windows of a text that is not empty begin at its first
\* character and end at its last; each has a character and at most target_chars,
\* each starts later than the one before, and a gap between two is shorter than
\* the step less half a window, behind a line's end or a mark.
THEOREM WindowsCover ==
  ASSUME NEW text, Len(text) \in Nat, Len(text) > 0
  PROVE  CutUp(text, 0, WindowsFrom(text)[0])
<1> DEFINE len == Len(text)
           w == WindowsFrom(text)
           T == {n \in 1..len : ~ CutUp(text, len - n, w[len - n])}
<1>1. \A start \in 0..len : w[start] = Cut(w, text, start)
  <2> DEFINE h == [start \in 0..len |-> Cut(w, text, start)]
  <2>1. w = h
    BY WindowsExist
  <2>2. \A start \in 0..len : h[start] = Cut(w, text, start)
    OBVIOUS
  <2>. QED  BY <2>1, <2>2, Zenon
<1>2. SUFFICES ASSUME T # {} PROVE FALSE
  <2>1. len \in 1..len /\ len - len = 0
    OBVIOUS
  <2>2. T = {} => CutUp(text, len - len, w[len - len])
    <3> HIDE DEF w, len
    <3>. QED  BY <2>1
  <2>. QED  BY <2>1, <2>2
<1>3. PICK n \in T : \A y \in T : n <= y
  <2>1. T \in SUBSET Nat
    OBVIOUS
  <2> HIDE DEF T
  <2>. QED  BY <1>2, <2>1, LeastNumber
<1>4. n \in 1..len /\ ~ CutUp(text, len - n, w[len - n])
  BY <1>3
<1>5. PICK start \in 0..len : start = len - n
  BY <1>4
<1>6. start < len /\ start \in Nat /\ start \in 0..len
  BY <1>4, <1>5
<1> DEFINE end == WindowEnd(text, start)
           next == NextStart(start, end)
           first == [start |-> start, end |-> end]
           rest == IF end >= len THEN <<>> ELSE w[next]
<1>7. /\ end \in Nat /\ start < end /\ end <= len /\ end <= start + TargetChars
      /\ end < len => /\ next \in Nat /\ start < next /\ next < len
                      /\ end < next =>
                           /\ text[end] \in Punctuation \cup {NL}
                           /\ next - end < (TargetChars - OverlapChars) - TargetChars \div 2
  BY <1>6, WindowEnds, NextWindowStarts
<1>8. w[start] = <<first>> \o rest
  <2>1. w[start] = Cut(w, text, start)
    BY <1>1, <1>6
  <2>2. Cut(w, text, start) = <<first>> \o (IF end >= len \/ next >= len THEN <<>> ELSE w[next])
    BY <1>6 DEF Cut
  <2>3. end >= len \/ ~ (next >= len)
    <3> HIDE DEF end, next, len
    <3>1. len \in Nat
      BY DEF len
    <3>. QED  BY <1>7, <3>1
  <2> HIDE DEF w, end, next, first
  <2>. QED  BY <2>1, <2>2, <2>3
<1>9. end < len => CutUp(text, next, w[next])
  <2> SUFFICES ASSUME end < len PROVE CutUp(text, next, w[next])
    OBVIOUS
  <2>1. PICK m \in 1..len : m = len - next /\ next = len - m /\ ~ (n <= m)
    <3> HIDE DEF end, next
    <3>1. len \in Nat
      OBVIOUS
    <3>. QED  BY <1>4, <1>5, <1>7, <3>1
  <2>2. m \notin T
    <3> HIDE DEF T
    <3>. QED  BY <1>3, <2>1
  <2>3. CutUp(text, len - m, w[len - m])
    <3> HIDE DEF w, len
    <3>. QED  BY <2>1, <2>2
  <2> HIDE DEF w, end, next
  <2>. QED  BY <2>1, <2>3
<1> HIDE DEF w, end, next
<1>10. CutUp(text, start, <<first>> \o rest)
  <2> DEFINE W == [start : Nat, end : Nat]
             ws == <<first>> \o rest
  <2>1. first \in W /\ first.start = start /\ first.end = end
    BY <1>6, <1>7
  <2>2. CASE end >= len
    <3>1. ws = <<first>> /\ end = len
      <4>1. rest = <<>>
        BY <2>2
      <4> HIDE DEF first, rest
      <4>. QED  BY <4>1, <1>7, <2>1, <2>2
    <3>2. ws \in Seq(W) /\ Len(ws) = 1 /\ ws[1] = first
      <4> HIDE DEF first, W, ws
      <4>. QED  BY <3>1, <2>1
    <3> HIDE DEF ws, first, rest
    <3>3. CutUp(text, start, ws)
      BY <1>7, <2>1, <3>1, <3>2 DEF CutUp
    <3>. QED  BY <3>3 DEF ws
  <2>3. CASE end < len
    <3>1. CutUp(text, next, rest)
      <4>1. rest = w[next]
        BY <2>3, <1>7
      <4>. QED  BY <1>9, <2>3, <4>1
    <3>2. /\ rest \in Seq(W) /\ Len(rest) \in Nat /\ Len(rest) > 0
      BY <3>1 DEF CutUp
    <3>3. /\ ws \in Seq(W) /\ Len(ws) = Len(rest) + 1
          /\ ws[1] = first
          /\ \A k \in 1..Len(rest) : ws[k + 1] = rest[k]
      <4> HIDE DEF W, first, rest
      <4>. QED  BY <2>1, <3>2
    <3> HIDE DEF ws, first, rest
    <3>4. ws[1].start = start /\ ws[Len(ws)].end = len
      <4>1. ws[Len(ws)] = rest[Len(rest)]
        BY <3>2, <3>3, Len(rest) \in 1..Len(rest)
      <4>2. rest[Len(rest)].end = len
        BY <3>1 DEF CutUp
      <4>. QED  BY <2>1, <3>3, <4>1, <4>2
    <3>5. ASSUME NEW k \in 1..Len(ws)
          PROVE  ws[k].start < ws[k].end /\ ws[k].end <= len /\ ws[k].end <= ws[k].start + TargetChars
      <4>1. CASE k = 1
        BY <1>7, <2>1, <3>3, <4>1
      <4>2. CASE k # 1
        <5>1. k - 1 \in 1..Len(rest) /\ ws[k] = rest[k - 1]
          <6>1. k - 1 \in 1..Len(rest) /\ (k - 1) + 1 = k
            BY <3>2, <3>3, <4>2
          <6>. QED  BY <3>3, <6>1
        <5>. QED  BY <3>1, <5>1 DEF CutUp
      <4>. QED  BY <4>1, <4>2
    <3>6. ASSUME NEW k \in 1..(Len(ws) - 1)
          PROVE  Follows(text, ws[k], ws[k + 1])
      <4>1. CASE k = 1
        <5>1. ws[k] = first /\ ws[k + 1] = rest[1]
          BY <3>2, <3>3, <4>1
        <5>2. rest[1].start = next
          BY <3>1 DEF CutUp
        <5>3. /\ ws[k].start = start /\ ws[k].end = end /\ ws[k + 1].start = next
          BY <2>1, <5>1, <5>2
        <5>4. /\ start < next
              /\ end < next => /\ text[end] \in Punctuation \cup {NL}
                              /\ next - end < (TargetChars - OverlapChars) - TargetChars \div 2
          BY <1>7, <2>3
        <5>. QED  BY <5>3, <5>4, Zenon DEF Follows
      <4>2. CASE k # 1
        <5>1. k - 1 \in 1..(Len(rest) - 1) /\ ws[k] = rest[k - 1] /\ ws[k + 1] = rest[(k - 1) + 1]
          <6>1. k - 1 \in 1..(Len(rest) - 1) /\ k - 1 \in 1..Len(rest) /\ k \in 1..Len(rest) /\ (k - 1) + 1 = k
            <7>1. PICK m \in Nat : m = Len(rest)
              BY <3>2
            <7>2. k \in 1..m /\ k # 1
              BY <3>3, <4>2, <7>1
            <7>3. k - 1 \in 1..(m - 1) /\ k - 1 \in 1..m /\ (k - 1) + 1 = k
              BY <7>2
            <7>. QED  BY <7>1, <7>2, <7>3
          <6>2. ws[(k - 1) + 1] = rest[k - 1] /\ ws[k + 1] = rest[k]
            BY <3>3, <6>1
          <6> HIDE DEF len
          <6>. QED  BY <6>1, <6>2
        <5>. QED  BY <3>1, <5>1 DEF CutUp
      <4>. QED  BY <4>1, <4>2
    <3>7. ws \in Seq([start : Nat, end : Nat]) /\ Len(ws) > 0
      BY <3>2, <3>3
    <3>8. CutUp(text, start, ws)
      BY <3>4, <3>5, <3>6, <3>7 DEF CutUp
    <3>. QED  BY <3>8 DEF ws
  <2> HIDE DEF rest, first
  <2>. QED  BY <2>2, <2>3, <1>7
<1>. QED  BY <1>4, <1>5, <1>8, <1>10
=============================================================================
