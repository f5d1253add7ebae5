--------------------------- MODULE KnowledgeBase ---------------------------
(***************************************************************************)
(* The policy knowledge base: uploaded files on their way to durable       *)
(* storage, the ingestion transaction that turns a file into a version of  *)
(* a document, the activation of a version, and the two queries of a       *)
(* search.                                                                 *)
(*                                                                         *)
(* Source: infrastructure/filesystem/upload_service.py,                    *)
(* interfaces/http/routes/policy_pipeline.py, ingestion_retry.py,          *)
(* knowledge_publication.py, and in infrastructure/persistence/            *)
(* repositories policy_persistence_gateway.py and                          *)
(* knowledge_publication_repository.py.                                    *)
(*                                                                         *)
(* The handlers never await between their statements, so one API process   *)
(* serves one of these requests at a time; several processes share the     *)
(* directories and the database, and any of them may die in the middle of  *)
(* a request.  The database is READ COMMITTED: a statement sees what is    *)
(* committed when it starts, and an insert that collides with a unique key *)
(* waits for the other transaction, so reading and committing are the two  *)
(* kinds of steps a transaction has.  What the pipeline does to the text   *)
(* is in PolicyText; here only its outcome counts.                         *)
(***************************************************************************)
EXTENDS Integers, Sequences, FiniteSets, Functions

CONSTANTS Processes,   \* API processes, each serving one request at a time
          Uploads,     \* upload ids that stage_upload can draw
          Content,     \* the document name and the SHA-256 of each upload
          Earlier      \* the uploads that are documents already, a sequence

ASSUME EarlierAssumption ==
  /\ Earlier \in Seq(Uploads)
  /\ IsInjective([k \in DOMAIN Earlier |-> Content[Earlier[k]].name])

VARIABLES
  staged,      \* uploads/<id>: "none", "part", "file" or "empty" directory
  promoted,    \* documents/<id>: "none", "dir" (no file yet) or "file"
  drawn,       \* the upload ids that were used
  expired,     \* upload directories older than the retention time
  offered,     \* uploads whose id the client was told
  documents,   \* kb_policy_document: name, latest and current version
  versions,    \* kb_policy_version, in the order of the commits
  job,         \* what each process is doing
  answer,      \* how the last ingestion of an upload was answered
  resubmitted, \* uploads the client sent for ingestion more than once
  overlapped   \* documents on which two activations overlapped

vars == <<staged, promoted, drawn, expired, offered, documents, versions, job,
          answer, resubmitted, overlapped>>

files == <<staged, promoted, expired>>
rows == <<documents, versions>>
ghosts == <<answer, resubmitted, overlapped>>

None == 0
Idle == [op |-> "none", pc |-> "idle"]
Ids(s) == DOMAIN s
VersionsOf(d) == {v \in Ids(versions) : versions[v].document = d}
NamesOf(d) == documents[d].name

TypeOK ==
  /\ staged \in [Uploads -> {"none", "part", "file", "empty"}]
  /\ promoted \in [Uploads -> {"none", "dir", "file"}]
  /\ drawn \subseteq Uploads
  /\ expired \subseteq {u \in Uploads : staged[u] # "none"}
  /\ offered \subseteq drawn
  /\ \A d \in Ids(documents) :
        /\ documents[d].latest \in VersionsOf(d)
        /\ documents[d].current \in VersionsOf(d) \cup {None}
  /\ \A v \in Ids(versions) :
        /\ versions[v].document \in Ids(documents)
        /\ versions[v].status \in {"draft", "active", "superseded"}
  /\ \A p \in Processes : job[p].op \in
        {"none", "upload", "ingest", "retry", "publish", "search"}
  /\ answer \in [Uploads -> {"none", "ok", "stopped", "400", "500", "503"}]

(* The documents that earlier uploads have become, one draft each. *)
Init ==
  LET n == Len(Earlier) IN
  /\ staged = [u \in Uploads |-> "none"]
  /\ promoted = [u \in Uploads |-> IF u \in Range(Earlier) THEN "file" ELSE "none"]
  /\ drawn = Range(Earlier) /\ offered = {} /\ expired = {}
  /\ documents = [k \in 1..n |->
       [name |-> Content[Earlier[k]].name, current |-> None, latest |-> k]]
  /\ versions = [k \in 1..n |->
       [document |-> k, seq |-> 1, label |-> <<>>, previous |-> None,
        status |-> "draft", source |-> Earlier[k], hash |-> Content[Earlier[k]].hash]]
  /\ job = [p \in Processes |-> Idle]
  /\ answer = [u \in Uploads |-> IF u \in Range(Earlier) THEN "ok" ELSE "none"]
  /\ resubmitted = {} /\ overlapped = {}

-----------------------------------------------------------------------------
(* The directories of an upload.                                           *)

(* Upload directories past the retention time are removed whenever a file  *)
(* is staged or looked up; documents/ is never swept.                      *)
Cleaned == [u \in Uploads |-> IF u \in expired THEN "none" ELSE staged[u]]

Goto(p, pc) == job' = [job EXCEPT ![p].pc = pc]
Finish(p) == job' = [job EXCEPT ![p] = Idle]

(* discard_upload removes both directories, whether or not they exist. *)
Discard(u, directories) ==
  /\ staged' = [directories EXCEPT ![u] = "none"]
  /\ promoted' = [promoted EXCEPT ![u] = "none"]

(* Mutation: a failed retry discards, too. *)
RefuseDiscardsAlways(p, code, directories) ==
  /\ Finish(p)
  /\ Discard(job[p].upload, directories)
  /\ expired' = expired \ {u \in Uploads : staged'[u] = "none"}
  /\ answer' = IF job[p].op = "ingest"
               THEN [answer EXCEPT ![job[p].upload] = code] ELSE answer
  /\ UNCHANGED <<drawn, offered, rows, resubmitted, overlapped>>

(* The handlers that answer 400 or 503 discard the upload; a retry only    *)
(* answers, for the file belongs to a version.                             *)
Refuse(p, code, directories) ==
  /\ Finish(p)
  /\ IF job[p].op = "ingest"
     THEN /\ Discard(job[p].upload, directories)
          /\ expired' = expired \ {u \in Uploads : staged'[u] = "none"}
          /\ answer' = [answer EXCEPT ![job[p].upload] = code]
     ELSE UNCHANGED <<files, answer>>
  /\ UNCHANGED <<drawn, offered, rows, resubmitted, overlapped>>

(* An exception that the route does not name: status 500, files stay. *)
Crumble(p) ==
  /\ Finish(p)
  /\ answer' = IF job[p].op = "ingest"
               THEN [answer EXCEPT ![job[p].upload] = "500"] ELSE answer
  /\ UNCHANGED <<files, drawn, offered, rows, resubmitted, overlapped>>

(* Time passes: an upload directory becomes older than the retention. *)
Expire(u) ==
  /\ staged[u] # "none" /\ u \notin expired
  /\ expired' = expired \cup {u}
  /\ UNCHANGED <<staged, promoted, drawn, offered, rows, job, ghosts>>

-----------------------------------------------------------------------------
(* preview-upload: stage the drawn, preview the pipeline, tell the id.      *)

StageUpload(p, u) ==
  /\ job[p] = Idle /\ u \notin drawn
  /\ staged' = [Cleaned EXCEPT ![u] = "part"] /\ expired' = {}
  /\ drawn' = drawn \cup {u}
  /\ job' = [job EXCEPT ![p] = [op |-> "upload", pc |-> "write", upload |-> u]]
  /\ UNCHANGED <<promoted, offered, rows, ghosts>>

(* The part file takes its name; the preview answers with the upload id,   *)
(* also when one of its stages stopped it.                                 *)
UploadAnswers(p) ==
  LET u == job[p].upload IN
  /\ job[p].pc = "write" /\ staged[u] = "part"
  /\ staged' = [staged EXCEPT ![u] = "file"]
  /\ offered' = offered \cup {u}
  /\ Finish(p)
  /\ UNCHANGED <<promoted, drawn, expired, rows, ghosts>>

(* Too large, empty, the directory is gone, or the preview raised: the     *)
(* upload is removed again.                                                *)
UploadFails(p) ==
  LET u == job[p].upload IN
  /\ job[p].pc = "write"
  /\ Discard(u, staged)
  /\ expired' = expired \ {u}
  /\ Finish(p)
  /\ UNCHANGED <<drawn, offered, rows, ghosts>>

-----------------------------------------------------------------------------
(* ingest-upload: promote_upload, step by step.                            *)

(* Expired uploads are swept first; then the file is looked up. *)
IngestUpload(p, u, target) ==
  /\ job[p] = Idle /\ u \in offered
  /\ resubmitted' = IF answer[u] # "none" \/ \E q \in Processes :
                          job[q].op = "ingest" /\ job[q].upload = u
                    THEN resubmitted \cup {u} ELSE resubmitted
  /\ IF Cleaned[u] = "file"
     THEN /\ job' = [job EXCEPT ![p] =
               [op |-> "ingest", pc |-> "mkdir", upload |-> u,
                target |-> target, label |-> <<>>]]
          /\ staged' = Cleaned /\ expired' = {}
          /\ UNCHANGED <<promoted, answer>>
     ELSE /\ Discard(u, Cleaned) /\ expired' = {}
          /\ answer' = [answer EXCEPT ![u] = "400"]
          /\ UNCHANGED job
  /\ UNCHANGED <<drawn, offered, rows, overlapped>>

(* mkdir(exist_ok=False): a directory left by a crash is a 500. *)
MakeDirectory(p) ==
  /\ job[p].pc = "mkdir"
  /\ IF promoted[job[p].upload] = "none"
     THEN /\ promoted' = [promoted EXCEPT ![job[p].upload] = "dir"]
          /\ Goto(p, "move")
          /\ UNCHANGED <<staged, drawn, expired, offered, rows, ghosts>>
     ELSE Crumble(p)

Move(p) ==
  LET u == job[p].upload IN
  /\ job[p].pc = "move"
  /\ IF staged[u] = "file" /\ promoted[u] # "none"
     THEN /\ staged' = [staged EXCEPT ![u] = "empty"]
          /\ promoted' = [promoted EXCEPT ![u] = "file"]
          /\ Goto(p, "rmdir")
          /\ UNCHANGED <<drawn, expired, offered, rows, ghosts>>
     ELSE Refuse(p, "400", staged)

RemoveStaging(p) ==
  LET u == job[p].upload IN
  /\ job[p].pc = "rmdir"
  /\ IF staged[u] = "empty"
     THEN /\ staged' = [staged EXCEPT ![u] = "none"]
          /\ expired' = expired \ {u}
          /\ Goto(p, "pipeline")
          /\ UNCHANGED <<promoted, drawn, offered, rows, ghosts>>
     ELSE Refuse(p, "400", staged)

-----------------------------------------------------------------------------
(* The pipeline and its transaction.                                       *)

(* Retrying an ingestion: the source of the latest version, once more.     *)
Retry(p, d) ==
  /\ job[p] = Idle /\ d \in Ids(documents)
  /\ LET v == versions[documents[d].latest] IN
     job' = [job EXCEPT ![p] =
       [op |-> "retry", pc |-> "pipeline", upload |-> v.source, target |-> d,
        label |-> v.label]]
  /\ UNCHANGED <<files, drawn, offered, rows, ghosts>>

(* The stages before persistence succeed; register_file has read the hash. *)
PipelineSucceeds(p) ==
  /\ job[p].pc = "pipeline" /\ promoted[job[p].upload] = "file"
  /\ Goto(p, "document")
  /\ UNCHANGED <<files, drawn, offered, rows, ghosts>>

(* A stage stops the run: the answer is a 200 that says so. *)
PipelineStops(p) ==
  /\ job[p].pc = "pipeline" /\ promoted[job[p].upload] = "file"
  /\ Finish(p)
  /\ answer' = IF job[p].op = "ingest"
               THEN [answer EXCEPT ![job[p].upload] = "stopped"] ELSE answer
  /\ UNCHANGED <<files, drawn, offered, rows, resubmitted, overlapped>>

(* The file is gone, no parser fits, or the embedding fails. *)
PipelineFails(p) == job[p].pc = "pipeline" /\ Refuse(p, "400", staged)

(* The version that a new one revises. *)
Previous(d) == IF d = None THEN None ELSE documents[d].latest

(* _get_or_create_document: the target, any document of that name and      *)
(* category (nothing makes them unique), or a new one.                     *)
ReadDocument(p) ==
  LET same == {d \in Ids(documents) : NamesOf(d) = Content[job[p].upload].name}
      Found(d) == job' = [job EXCEPT ![p] =
        [op |-> job[p].op, pc |-> "versions", upload |-> job[p].upload,
         label |-> job[p].label, document |-> d,
         previous |-> Previous(d)]]
  IN
  /\ job[p].pc = "document"
  /\ \/ /\ job[p].target = None
        /\ \E d \in IF same = {} THEN {None} ELSE same : Found(d)
        /\ UNCHANGED <<files, drawn, offered, rows, ghosts>>
     \/ /\ job[p].target \in Ids(documents)
        /\ Found(job[p].target)
        /\ UNCHANGED <<files, drawn, offered, rows, ghosts>>
     \/ /\ job[p].target \notin Ids(documents) \cup {None}
        /\ Refuse(p, "400", staged)

(* A label is a base and the suffixes put after it. *)
UniqueLabel(label, existing) ==
  IF label \notin existing THEN label
  ELSE LET free == {k \in 2..(Cardinality(existing) + 2) :
                      Append(label, k) \notin existing}
       IN  Append(label, CHOOSE k \in free : \A j \in free : k <= j)

(* max(version_seq) + 1 and the labels in use, as committed now. *)
ReadVersions(p) ==
  LET d == job[p].document
      seqs == {versions[v].seq : v \in VersionsOf(d)}
  IN
  /\ job[p].pc = "versions"
  /\ job' = [job EXCEPT ![p] =
       [op |-> job[p].op, pc |-> "commit", upload |-> job[p].upload,
        document |-> d, previous |-> job[p].previous,
        seq |-> 1 + (IF seqs = {} THEN 0 ELSE CHOOSE m \in seqs : \A n \in seqs : n <= m),
        label |-> UniqueLabel(job[p].label,
                              {versions[v].label : v \in VersionsOf(d)})]]
  /\ UNCHANGED <<files, drawn, offered, rows, ghosts>>

(* Mutation: nothing keeps two versions from the same number and label. *)
CollidesByHash(j) ==
  \E v \in VersionsOf(j.document) : versions[v].hash = Content[j.upload].hash

(* The unique keys of kb_policy_version: number, label and file hash. *)
Collides(j) ==
  \E v \in VersionsOf(j.document) :
     \/ versions[v].seq = j.seq
     \/ versions[v].label = j.label
     \/ versions[v].hash = Content[j.upload].hash

(* A commit between the two queries of a search. *)
Raced(p) == [q \in Processes |-> IF q # p /\ job[q].pc = "keywords"
                                  THEN [job[q] EXCEPT !.raced = TRUE] ELSE job[q]]

NewVersion(j, d) ==
  [document |-> d, seq |-> j.seq, label |-> j.label, previous |-> j.previous,
   status |-> "draft", source |-> j.upload, hash |-> Content[j.upload].hash]

(* Version, blocks, sections and chunks, and latest_version_id. *)
Save(p) ==
  LET j == job[p]
      d == IF j.document = None THEN Len(documents) + 1 ELSE j.document
  IN
  /\ versions' = Append(versions, NewVersion(j, d))
  /\ documents' = IF j.document = None
       THEN Append(documents, [name |-> Content[j.upload].name, current |-> None,
                               latest |-> Len(versions) + 1])
       ELSE [documents EXCEPT ![d].latest = Len(versions) + 1]

(* The transaction ends: committed, or an integrity error no route names. *)
Commit(p) ==
  LET j == job[p] IN
  /\ j.pc = "commit"
  /\ IF Collides(j) THEN Crumble(p)
     ELSE /\ Save(p)
          /\ job' = [Raced(p) EXCEPT ![p] = Idle]
          /\ answer' = IF j.op = "ingest"
                       THEN [answer EXCEPT ![j.upload] = "ok"] ELSE answer
          /\ UNCHANGED <<files, drawn, offered, resubmitted, overlapped>>

(* A statement fails and everything is rolled back: 503 when a table is    *)
(* missing, else 500.                                                      *)
SchemaMissing(p) == job[p].pc = "commit" /\ Refuse(p, "503", staged)
DatabaseFails(p) == job[p].pc = "commit" /\ Crumble(p)

-----------------------------------------------------------------------------
(* Publication.                                                            *)

(* activate_version reads the version, the document and the version that   *)
(* is current, without locking them.                                       *)
PublishRead(p, v) ==
  LET d == versions[v].document IN
  /\ job[p] = Idle
  /\ job' = [job EXCEPT ![p] =
       [op |-> "publish", pc |-> "activate", version |-> v, raced |-> FALSE,
        status |-> versions[v].status, current |-> documents[d].current]]
  /\ UNCHANGED <<files, drawn, offered, rows, ghosts>>

(* Only attributes that change are written: a version that was read as     *)
(* active is not written again.                                            *)
Activated(j, v) ==
  CASE v = j.version -> IF j.status = "active" THEN versions[v].status ELSE "active"
    [] v # j.version /\ v = j.current -> "superseded"
    [] OTHER -> versions[v].status

PublishCommit(p) ==
  LET j == job[p]
      d == versions[j.version].document
  IN
  /\ j.pc = "activate"
  /\ versions' = [v \in Ids(versions) |->
                    [versions[v] EXCEPT !.status = Activated(j, v)]]
  /\ documents' = IF j.current = j.version THEN documents
                  ELSE [documents EXCEPT ![d].current = j.version]
  /\ job' = [q \in Processes |->
       CASE q = p -> Idle
         [] q # p /\ job[q].op = "publish"
                  /\ versions[job[q].version].document = d
              -> [job[q] EXCEPT !.raced = TRUE]
         [] OTHER -> Raced(p)[q]]
  /\ overlapped' = IF j.raced THEN overlapped \cup {d} ELSE overlapped
  /\ UNCHANGED <<files, drawn, offered, answer, resubmitted>>

-----------------------------------------------------------------------------
(* Search: the vector query, then the keyword query.                       *)

(* Mutation: a version must be published to be found. *)
SearchablePublished(v, history) ==
  /\ versions[v].status \in {"approved", "active"}
  /\ history \/ documents[versions[v].document].latest = v

(* Status draft, approved or active, and the latest version of its         *)
(* document unless the history is asked for.                               *)
Searchable(v, history) ==
  /\ versions[v].status \in {"draft", "approved", "active"}
  /\ history \/ documents[versions[v].document].latest = v

(* Mutation: the keyword query forgets the filter on the latest version. *)
FoundInHistory(history) == {v \in Ids(versions) : Searchable(v, TRUE)}

FoundByVector(history) == {v \in Ids(versions) : Searchable(v, history)}
FoundByKeywords(history) == {v \in Ids(versions) : Searchable(v, history)}

SearchVectors(p, history) ==
  /\ job[p] = Idle /\ versions # <<>>
  /\ job' = [job EXCEPT ![p] =
       [op |-> "search", pc |-> "keywords", history |-> history,
        hits |-> FoundByVector(history), raced |-> FALSE]]
  /\ UNCHANGED <<files, drawn, offered, rows, ghosts>>

Hits(p) == job[p].hits \cup FoundByKeywords(job[p].history)

(* Fusion, reranking and the filter choose among the hits (Retrieval). *)
SearchKeywords(p) ==
  /\ job[p].pc = "keywords"
  /\ Finish(p)
  /\ UNCHANGED <<files, drawn, offered, rows, ghosts>>

(* The process dies: its transaction is rolled back, the files stay. *)
Crash(p) ==
  /\ job[p] # Idle
  /\ Finish(p)
  /\ answer' = IF job[p].op = "ingest"
               THEN [answer EXCEPT ![job[p].upload] = "500"] ELSE answer
  /\ UNCHANGED <<files, drawn, offered, rows, resubmitted, overlapped>>

Next ==
  \/ \E u \in Uploads : Expire(u)
  \/ \E p \in Processes :
       \/ \E u \in Uploads : StageUpload(p, u)
       \/ UploadAnswers(p) \/ UploadFails(p)
       \/ \E u \in Uploads, d \in 0..(Len(documents) + 1) : IngestUpload(p, u, d)
       \/ MakeDirectory(p) \/ Move(p) \/ RemoveStaging(p)
       \/ \E d \in Ids(documents) : Retry(p, d)
       \/ PipelineSucceeds(p) \/ PipelineStops(p) \/ PipelineFails(p)
       \/ ReadDocument(p) \/ ReadVersions(p) \/ Commit(p)
       \/ SchemaMissing(p) \/ DatabaseFails(p)
       \/ \E v \in Ids(versions) : PublishRead(p, v)
       \/ PublishCommit(p)
       \/ \E history \in BOOLEAN : SearchVectors(p, history)
       \/ SearchKeywords(p)
       \/ Crash(p)

Spec == Init /\ [][Next]_vars

-----------------------------------------------------------------------------
(* Properties.                                                             *)

(* The numbers of a document's versions are 1, 2, ... without a gap, and   *)
(* latest_version_id is the highest of them, however many ingestions of    *)
(* the document overlap (_create_version reads the maximum without a lock).*)
LatestIsNewest ==
  \A d \in Ids(documents) :
    /\ {versions[v].seq : v \in VersionsOf(d)} = 1..Cardinality(VersionsOf(d))
    /\ \A v \in VersionsOf(d) : versions[v].seq <= versions[documents[d].latest].seq

(* The chain of previous_version_id stays inside one document, goes to     *)
(* lower numbers and ends in the version that has the number 1.            *)
RevisionsGoBack ==
  \A v \in Ids(versions) :
    /\ versions[v].previous = None <=> versions[v].seq = 1
    /\ versions[v].previous # None =>
         /\ versions[versions[v].previous].document = versions[v].document
         /\ versions[versions[v].previous].seq < versions[v].seq

(* The original file of every version is in durable storage, whatever      *)
(* expires or crashes, unless the client sent the upload twice: the second *)
(* request does not find it, and its error path deletes the file of the    *)
(* first.                                                                  *)
SourceIsKept ==
  \A v \in Ids(versions) :
    versions[v].source \notin resubmitted => promoted[versions[v].source] = "file"

(* An upload whose only ingestion was refused (400 or 503) has left both   *)
(* directories, at whatever step it failed.                                *)
RefusedLeavesNothing ==
  \A u \in Uploads \ resubmitted :
    answer[u] \in {"400", "503"} => staged[u] = "none" /\ promoted[u] = "none"

(* The current version of a document is its only active one, as long as no *)
(* two activations of the document have overlapped.                        *)
OneActiveVersion ==
  \A d \in Ids(documents) \ overlapped :
    {v \in VersionsOf(d) : versions[v].status = "active"}
      = {documents[d].current} \ {None}

(* A search without history shows one version of a document, although it   *)
(* asks twice, unless something was committed between its two queries.     *)
SearchIsCoherent ==
  \A p \in Processes :
    job[p].pc = "keywords" /\ ~job[p].raced /\ ~job[p].history =>
      \A v, w \in Hits(p) :
        versions[v].document = versions[w].document => v = w

(* A document leaves the search results only when a version that is not    *)
(* its latest is activated, so that the latest one is superseded: neither  *)
(* a new draft nor the activation of the latest version hides it.          *)
HiddenOnlyByRollback ==
  [][\A d \in Ids(documents) :
       /\ Searchable(documents[d].latest, FALSE)
       /\ ~Searchable(documents[d].latest, FALSE)'
       => /\ documents'[d].latest = documents[d].latest
          /\ documents'[d].current # documents[d].latest]_vars

\* The versions of a document are numbered without gaps and chained backwards,
\* however ingestions and activations interleave, and have one active member
\* unless two activations overlapped.
VersionsConsistent ==
  /\ TypeOK
  /\ LatestIsNewest
  /\ RevisionsGoBack
  /\ OneActiveVersion

\* Files and rows agree: a version has its file, a refused upload has none.
FilesFollowRows ==
  /\ SourceIsKept
  /\ RefusedLeavesNothing
=============================================================================
