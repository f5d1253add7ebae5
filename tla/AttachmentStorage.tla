-------------------------- MODULE AttachmentStorage --------------------------
(***************************************************************************)
(* Staged attachments.  One directory is shared by several instances of    *)
(* FilesystemAttachmentStorage: the process-wide one of the API's requests,*)
(* and a new one in the container that every confirmed agent call, every   *)
(* MCP call and every poll of the task worker builds.  Each instance knows *)
(* the attachments it restored when it was built and those it staged       *)
(* itself, and removes every other directory when it cleans up.            *)
(* A staging is several file operations, so it interleaves with the reads  *)
(* of other threads and processes; the other calls are one step each.      *)
(* File contents are never rewritten (ids are random), so the content of   *)
(* an attachment is its id, and a directory is none, part (being written), *)
(* file (content in place) or full (manifest too).                         *)
(***************************************************************************)
EXTENDS Naturals, FiniteSets

CONSTANTS
  Jobs,
  Kinds,            \* [Jobs -> SUBSET {upload, read, agent, mcp, result, list}]
  Stores, Api,      \* Api is the store that lives as long as its process
  StoreOf,          \* the store a job works with
  Subjects, Conversations, NoConversation,
  Homes,            \* what the attachments of the API may be bound to
  Retention,        \* attachment retention in clock units
  MaxArtifacts,     \* files an agent produces at most
  MaxIds, MaxClock, MaxCrashes

Scoped == {"agent", "mcp", "result"}

(* The requests of the API work with its instance; a confirmed agent call, *)
(* an MCP call and a worker poll work with one of their own.               *)
ASSUME StorageAssumption ==
  /\ Retention \in Nat \ {0}
  /\ MaxArtifacts \in Nat /\ MaxIds \in Nat /\ MaxClock \in Nat /\ MaxCrashes \in Nat
  /\ "nobody" \notin Jobs
  /\ Api \in Stores /\ StoreOf \in [Jobs -> Stores]
  /\ \A j \in Jobs : IF StoreOf[j] = Api THEN Kinds[j] \cap Scoped = {}
                                        ELSE Kinds[j] \subseteq Scoped
  /\ \A j, k \in Jobs : StoreOf[j] = StoreOf[k] /\ StoreOf[j] # Api => j = k

Ids == 1..MaxIds

NoMeta == [owner |-> "nobody", conv |-> NoConversation, until |-> 0,
           by |-> "nobody"]

VARIABLES
  dirs,       \* [Ids -> {"none", "part", "file", "full"}]
  meta,       \* [Ids -> what record and manifest say]
  records,    \* [Stores -> [Ids -> status, "none" when unknown]]
  open,       \* stores that exist
  used,       \* ids handed out so far
  clock,
  crashes,
  job,        \* [Jobs -> state]
  manifests,  \* result jobs whose resource manifest is published
  served,     \* successful reads (history)
  wiped       \* ids a store removed without knowing them (history)

vars == <<dirs, meta, records, open, used, clock, crashes, job, manifests,
          served, wiped>>

Idle == [phase |-> "idle", kind |-> "none", who |-> "nobody", conv |-> NoConversation,
         id |-> 0, src |-> 0, arts |-> {}, left |-> 0, drop |-> {},
         out |-> "none"]

Init ==
  /\ dirs = [i \in Ids |-> "none"]
  /\ meta = [i \in Ids |-> NoMeta]
  /\ records = [s \in Stores |-> [i \in Ids |-> "none"]]
  /\ open = {} /\ used = 0 /\ clock = 0 /\ crashes = 0
  /\ job = [j \in Jobs |-> Idle]
  /\ manifests = {} /\ served = {} /\ wiped = {}

History == <<manifests, served>>

Outside == <<open, used, clock, crashes, manifests>>

-----------------------------------------------------------------------------
(* What the calls of a store do. *)

Expiring(s) ==
  {i \in Ids : records[s][i] = "available" /\ meta[i].until <= clock}

Strange(s) == {i \in Ids : dirs[i] # "none" /\ records[s][i] = "none"}

(* cleanup_expired: every public call starts with it.                      *)
Cleaned(s) == [i \in Ids |->
  IF i \in Expiring(s) THEN "expired" ELSE records[s][i]]

DirsAfter(s, gone) == [i \in Ids |->
  IF i \in gone \cup Expiring(s) \cup Strange(s) THEN "none" ELSE dirs[i]]

CleanUp(s) == wiped' = wiped \cup Strange(s)

(* Mutation: the conversation an attachment is bound to is not compared.   *)
RecordForSubject(s, i, who, conv) ==
  records[s][i] # "none" /\ meta[i].owner = who

(* _record_for_context *)
RecordForContext(s, i, who, conv) ==
  /\ records[s][i] # "none"
  /\ meta[i].owner = who
  /\ meta[i].conv \in {NoConversation, conv}

(* _read_verified_content: there is a directory with one content file.     *)
Verified(i) == dirs[i] \in {"file", "full"}

Readable(s, i, who, conv) ==
  /\ RecordForContext(s, i, who, conv)
  /\ Cleaned(s)[i] = "available"
  /\ Verified(i)

(* read: a record whose content is gone is marked missing.                 *)
Read(s, i, who, conv) ==
  /\ CleanUp(s)
  /\ records' = [records EXCEPT ![s] =
       [Cleaned(s) EXCEPT ![i] =
          IF /\ RecordForContext(s, i, who, conv)
             /\ @ = "available" /\ ~Verified(i)
          THEN "missing" ELSE @]]
  /\ dirs' = DirsAfter(s, {})
  /\ served' = IF Readable(s, i, who, conv)
               THEN served \cup {[id |-> i, who |-> who, conv |-> conv,
                                  late |-> clock >= meta[i].until]}
               ELSE served

(* discard: afterwards the store no longer knows the id.                   *)
Discard(s, i, who, conv) ==
  /\ CleanUp(s)
  /\ dirs' = DirsAfter(s, {k \in {i} : RecordForContext(s, i, who, conv)})
  /\ records' = [records EXCEPT ![s] = [Cleaned(s) EXCEPT ![i] =
       IF RecordForContext(s, i, who, conv) THEN "none" ELSE @]]

(* _restore_records: an instance adopts what has a manifest, is intact and *)
(* has not expired, and removes the rest.                                  *)
Restorable == {i \in Ids : dirs[i] = "full" /\ meta[i].until > clock}

Open(s) ==
  /\ s \notin open
  /\ open' = open \cup {s}
  /\ records' = [records EXCEPT ![s] = [i \in Ids |->
       IF i \in Restorable THEN "available" ELSE "none"]]
  /\ dirs' = [i \in Ids |-> IF i \in Restorable THEN "full" ELSE "none"]
  /\ wiped' = wiped \cup {i \in Ids \ Restorable :
                            dirs[i] # "none" /\ meta[i].until > clock}

(* An instance goes with its process, its call or its poll.                *)
Forget(s) == [records EXCEPT ![s] = [i \in Ids |-> "none"]]

-----------------------------------------------------------------------------
(* Time, crashes, and the instance of the API, built on first use.         *)

Tick ==
  /\ clock < MaxClock
  /\ clock' = clock + 1
  /\ UNCHANGED <<dirs, meta, records, open, used, crashes, job, manifests,
                 served, wiped>>

OpenApi ==
  /\ Open(Api)
  /\ UNCHANGED <<meta, used, clock, crashes, job, History>>

(* Agent and MCP calls run in the process of the API; the task worker is   *)
(* one of its own.                                                         *)
InApiProcess == {Api} \cup
  {StoreOf[j] : j \in {k \in Jobs : job[k].kind \in {"agent", "mcp"}}}

ProcessOf(s) == IF s \in InApiProcess THEN InApiProcess ELSE {s}

(* The process of a store dies: its instances and their calls are gone.    *)
Crash(s) ==
  /\ crashes < MaxCrashes /\ s \in open
  /\ crashes' = crashes + 1
  /\ open' = open \ ProcessOf(s)
  /\ records' = [t \in Stores |-> IF t \in ProcessOf(s)
                                 THEN [i \in Ids |-> "none"] ELSE records[t]]
  /\ job' = [j \in Jobs |->
       IF StoreOf[j] \in ProcessOf(s) /\ job[j].phase \notin {"idle", "done"}
       THEN [job[j] EXCEPT !.phase = "done", !.out = "lost"]
       ELSE job[j]]
  /\ UNCHANGED <<dirs, meta, used, clock, History, wiped>>

-----------------------------------------------------------------------------
(* stage_attachment, in its four steps, for whatever job needs it. *)

Go(j, new) == job' = [job EXCEPT ![j] = new]

To(j, where) == [job[j] EXCEPT !.phase = where]

Ended(j, out) == [job[j] EXCEPT !.phase = "done", !.out = out]

(* Mutation: files staged before the failure are left behind.              *)
UnwindSourceOnly(j, out, drop) ==
  [job[j] EXCEPT !.phase = IF job[j].src = 0 THEN "done" ELSE "unwind",
                 !.out = out, !.id = 0, !.drop = {job[j].src} \ {0}]

(* What the end of a call leaves to its caller: the attachments in drop    *)
(* are discarded before the job is done.                                   *)
Unwind(j, out, drop) ==
  [job[j] EXCEPT !.phase = IF drop = {} THEN "done" ELSE "unwind",
                 !.out = out, !.id = 0, !.drop = drop]

Mine(j) == (job[j].arts \cup {job[j].src}) \ {0}

StageFails(j) == Go(j, Unwind(j, "failed", Mine(j)))

Uploading(j) ==
  job[j].kind = "upload" /\ job[j].phase \in {"write", "manifest", "record"}

(* cleanup, validation, mkdir.  Uploads run on the event loop, one after   *)
(* the other.                                                              *)
StageBegin(j) ==
  /\ job[j].phase = "stage"
  /\ job[j].kind = "upload" => ~\E k \in Jobs : Uploading(k)
  /\ CleanUp(StoreOf[j])
  /\ records' = [records EXCEPT ![StoreOf[j]] = Cleaned(StoreOf[j])]
  /\ \/ /\ StageFails(j)
        /\ dirs' = DirsAfter(StoreOf[j], {})
        /\ UNCHANGED used
     \/ /\ used < MaxIds
        /\ used' = used + 1
        /\ dirs' = [DirsAfter(StoreOf[j], {}) EXCEPT ![used + 1] = "part"]
        /\ Go(j, [To(j, "write") EXCEPT !.id = used + 1])
  /\ UNCHANGED <<meta, open, clock, crashes, History>>

(* The content is copied under a temporary name and renamed; too large,    *)
(* empty or unwritable content removes the directory.                      *)
StageWrite(j) ==
  /\ job[j].phase = "write"
  /\ \/ /\ dirs[job[j].id] = "part"
        /\ dirs' = [dirs EXCEPT ![job[j].id] = "file"]
        /\ Go(j, To(j, "manifest"))
     \/ /\ dirs' = [dirs EXCEPT ![job[j].id] = "none"]
        /\ StageFails(j)
  /\ UNCHANGED <<meta, records, Outside, served, wiped>>

(* Mutation: the record is only kept in memory.                            *)
StageManifestSkipped(j) ==
  /\ job[j].phase = "manifest"
  /\ dirs[job[j].id] = "file"
  /\ meta' = [meta EXCEPT ![job[j].id] =
                [owner |-> job[j].who, conv |-> job[j].conv,
                 until |-> clock + Retention, by |-> j]]
  /\ Go(j, To(j, "record"))
  /\ UNCHANGED <<dirs, records, Outside, served, wiped>>

StageManifest(j) ==
  /\ job[j].phase = "manifest"
  /\ \/ /\ dirs[job[j].id] = "file"
        /\ dirs' = [dirs EXCEPT ![job[j].id] = "full"]
        /\ meta' = [meta EXCEPT ![job[j].id] =
                      [owner |-> job[j].who, conv |-> job[j].conv,
                       until |-> clock + Retention, by |-> j]]
        /\ Go(j, To(j, "record"))
     \/ /\ dirs' = [dirs EXCEPT ![job[j].id] = "none"]
        /\ StageFails(j)
        /\ UNCHANGED meta
  /\ UNCHANGED <<records, Outside, served, wiped>>

(* The id a job staged becomes its source or one of its files.             *)
StageRecord(j) ==
  /\ job[j].phase = "record"
  /\ records' = [records EXCEPT ![StoreOf[j]][job[j].id] = "available"]
  /\ LET i == job[j].id
         left == IF job[j].left = 0 THEN 0 ELSE job[j].left - 1
         kept == [job[j] EXCEPT !.arts = @ \cup {i}, !.id = 0] IN
     \/ /\ job[j].kind = "upload"
        /\ Go(j, [kept EXCEPT !.phase = "done", !.out = "ok"])
     \/ /\ job[j].kind = "mcp" /\ job[j].src = 0
        /\ Go(j, [To(j, "run") EXCEPT !.src = i, !.id = 0])
     \/ /\ job[j].kind # "upload"
        /\ job[j].kind = "mcp" => job[j].src # 0
        /\ Go(j, [kept EXCEPT !.left = left,
                              !.phase = IF left > 0 THEN "stage" ELSE "staged"])
  /\ UNCHANGED <<dirs, meta, Outside, served, wiped>>

-----------------------------------------------------------------------------
(* The callers. *)

(* upload_attachment                                                       *)
UploadBegin(j) ==
  /\ job[j].phase = "idle" /\ "upload" \in Kinds[j]
  /\ StoreOf[j] \in open
  /\ \E who \in Subjects : \E conv \in Homes :
       Go(j, [To(j, "stage") EXCEPT !.kind = "upload", !.who = who,
                                    !.conv = conv])
  /\ UNCHANGED <<dirs, meta, records, Outside, served, wiped>>

(* A confirmed agent call of a conversation: its container builds a store  *)
(* of its own for the files the agent will produce.                        *)
AgentBegin(j) ==
  /\ job[j].phase = "idle" /\ "agent" \in Kinds[j]
  /\ Open(StoreOf[j])
  /\ \E who \in Subjects : \E conv \in Homes \ {NoConversation} :
       Go(j, [To(j, "run") EXCEPT !.kind = "agent", !.who = who,
                                  !.conv = conv])
  /\ UNCHANGED <<meta, used, clock, crashes, History>>

(* download_attachment, and every other reader of the API.                 *)
DownloadAttachment(j) ==
  /\ job[j].phase = "idle" /\ "read" \in Kinds[j]
  /\ StoreOf[j] \in open
  /\ \E i \in 1..used : \E who \in Subjects : \E conv \in Conversations :
       /\ Read(StoreOf[j], i, who, conv)
       /\ Go(j, [Ended(j, IF Readable(StoreOf[j], i, who, conv)
                          THEN "ok" ELSE "failed") EXCEPT !.kind = "read"])
  /\ UNCHANGED <<meta, Outside>>

(* _execute_mcp_call: a scope with a store of its own; the source first.   *)
McpBegin(j) ==
  /\ job[j].phase = "idle" /\ "mcp" \in Kinds[j]
  /\ Open(StoreOf[j])
  /\ \E who \in Subjects :
       Go(j, [To(j, "stage") EXCEPT !.kind = "mcp", !.who = who])
  /\ UNCHANGED <<meta, used, clock, crashes, History>>

Uploaded == UNION {job[j].arts : j \in {k \in Jobs :
              job[k].kind = "upload" /\ job[k].out = "ok"}}

(* A worker poll builds its store and reads the document of the task.      *)
PollBegin(j) ==
  /\ job[j].phase = "idle" /\ "result" \in Kinds[j]
  /\ Open(StoreOf[j])
  /\ \E i \in Uploaded :
       Go(j, [To(j, "input") EXCEPT !.kind = "result", !.id = i,
                !.who = meta[i].owner, !.conv = meta[i].conv])
  /\ UNCHANGED <<meta, used, clock, crashes, History>>

ReadInput(j) ==
  LET s == StoreOf[j] i == job[j].id IN
  /\ job[j].phase = "input"
  /\ Read(s, i, job[j].who, job[j].conv)
  /\ Go(j, IF Readable(s, i, job[j].who, job[j].conv)
           THEN [To(j, "run") EXCEPT !.id = 0]
           ELSE Ended(j, "failed"))
  /\ UNCHANGED <<meta, Outside>>

(* The agent runs; its output may hold files to be staged.                 *)
RunAgent(j) ==
  /\ job[j].phase = "run"
  /\ \/ Go(j, Unwind(j, "failed", Mine(j)))
     \/ \E n \in 0..MaxArtifacts :
          Go(j, [To(j, IF n > 0 THEN "stage" ELSE "staged") EXCEPT !.left = n])
  /\ UNCHANGED <<dirs, meta, records, Outside, served, wiped>>

(* Everything is staged.  A worker publishes the manifest of the result    *)
(* (or fails and discards), a dispatcher turns the output into JSON, which *)
(* fails without discarding the files it staged.                           *)
Deliver(j) ==
  /\ job[j].phase = "staged"
  /\ \/ /\ job[j].kind = "result"
        /\ manifests' = manifests \cup {j}
        /\ Go(j, Ended(j, "ok"))
     \/ /\ job[j].kind = "result"
        /\ Go(j, Unwind(j, "failed", Mine(j)))
        /\ UNCHANGED manifests
     \/ /\ job[j].kind = "agent"
        /\ Go(j, Ended(j, "ok"))
        /\ UNCHANGED manifests
     \/ /\ job[j].kind = "mcp"
        /\ Go(j, To(j, "project"))
        /\ UNCHANGED manifests
     \/ /\ job[j].kind \in {"agent", "mcp"}
        /\ Go(j, Unwind(j, "unsafe", {job[j].src} \ {0}))
        /\ UNCHANGED manifests
  /\ UNCHANGED <<dirs, meta, records, open, used, clock, crashes, served,
                 wiped>>

(* _project_artifact: a file is read and, whatever the read says, then     *)
(* discarded; the first file that cannot be read ends the projection.      *)
ProjectArtifact(j) ==
  LET s == StoreOf[j] IN
  /\ job[j].phase = "project"
  /\ IF job[j].arts = {}
     THEN /\ Go(j, Unwind(j, "ok", {job[j].src}))
          /\ UNCHANGED <<dirs, records, served, wiped>>
     ELSE \E i \in job[j].arts :
          /\ Read(s, i, job[j].who, NoConversation)
          /\ Go(j, [To(j, "discard") EXCEPT !.id = i, !.arts = @ \ {i},
                      !.out = IF Readable(s, i, job[j].who, NoConversation)
                              THEN "none" ELSE "failed"])
  /\ UNCHANGED <<meta, Outside>>

DiscardProjected(j) ==
  /\ job[j].phase = "discard"
  /\ Discard(StoreOf[j], job[j].id, job[j].who, NoConversation)
  /\ Go(j, IF job[j].out = "failed" THEN Unwind(j, "failed", {job[j].src})
           ELSE [To(j, "project") EXCEPT !.id = 0])
  /\ UNCHANGED <<meta, Outside, served>>

(* The discards of a failed staging and of the source of an MCP call.      *)
DiscardNext(j) ==
  /\ job[j].phase = "unwind"
  /\ \E i \in job[j].drop :
       /\ Discard(StoreOf[j], i, job[j].who, job[j].conv)
       /\ Go(j, [To(j, IF job[j].drop = {i} THEN "done" ELSE "unwind") EXCEPT
                   !.drop = @ \ {i}])
  /\ UNCHANGED <<meta, Outside, served>>

(* The scope of a call or a poll ends with its store.                      *)
CloseScope(j) ==
  /\ job[j].phase = "done" /\ job[j].kind \in Scoped
  /\ StoreOf[j] \in open
  /\ open' = open \ {StoreOf[j]}
  /\ records' = Forget(StoreOf[j])
  /\ UNCHANGED <<dirs, meta, used, clock, crashes, job, History, wiped>>

(* list_resources: the files of a published result are read one by one.    *)
ListBegin(j) ==
  /\ job[j].phase = "idle" /\ "list" \in Kinds[j]
  /\ StoreOf[j] \in open
  /\ \E r \in manifests :
       Go(j, [To(j, "list") EXCEPT !.kind = "list", !.who = job[r].who,
                !.conv = job[r].conv, !.arts = job[r].arts])
  /\ UNCHANGED <<dirs, meta, records, Outside, served, wiped>>

ListNext(j) ==
  LET s == StoreOf[j] IN
  /\ job[j].phase = "list"
  /\ IF job[j].arts = {}
     THEN /\ Go(j, Ended(j, "ok"))
          /\ UNCHANGED <<dirs, records, served, wiped>>
     ELSE \E i \in job[j].arts :
          /\ Read(s, i, job[j].who, job[j].conv)
          /\ Go(j, IF Readable(s, i, job[j].who, job[j].conv)
                   THEN [job[j] EXCEPT !.arts = @ \ {i}]
                   ELSE Ended(j, "failed"))
  /\ UNCHANGED <<meta, Outside>>

Step(j) ==
  \/ StageBegin(j) \/ StageWrite(j) \/ StageManifest(j) \/ StageRecord(j)
  \/ UploadBegin(j) \/ AgentBegin(j) \/ DownloadAttachment(j) \/ McpBegin(j) \/ PollBegin(j)
  \/ ReadInput(j) \/ RunAgent(j) \/ Deliver(j) \/ ProjectArtifact(j)
  \/ DiscardProjected(j) \/ DiscardNext(j) \/ CloseScope(j)
  \/ ListBegin(j) \/ ListNext(j)

Next == Tick \/ OpenApi \/ (\E s \in Stores : Crash(s)) \/ (\E j \in Jobs : Step(j))

Spec == Init /\ [][Next]_vars

-----------------------------------------------------------------------------
Statuses == {"none", "available", "expired", "missing"}

(* Every directory is in one of its states, a store that does not exist    *)
(* has no records, and an id not handed out has no directory.              *)
TypeOK ==
  /\ dirs \in [Ids -> {"none", "part", "file", "full"}]
  /\ records \in [Stores -> [Ids -> Statuses]]
  /\ open \subseteq Stores /\ used \in 0..MaxIds /\ wiped \subseteq Ids
  /\ \A s \in Stores \ open : \A i \in Ids : records[s][i] = "none"
  /\ \A i \in Ids : i > used => dirs[i] = "none"

(* What a reader gets was staged by its subject, in its conversation when  *)
(* it is bound to one, and is within its retention time, whatever the      *)
(* restarts, restorations and clean-ups in between.                        *)
ServedToOwner == \A x \in served :
  /\ ~x.late
  /\ meta[x.id].owner = x.who
  /\ meta[x.id].conv \in {NoConversation, x.conv}

(* Files acknowledged to an uploader or to the caller of an agent stay in  *)
(* place until they expire, across the deaths of their processes, unless   *)
(* an instance that did not know them removed them; and the API knows an   *)
(* upload whenever it is up, also after a restart.                         *)
AcknowledgedSurvives ==
  \A j \in Jobs : \A i \in job[j].arts :
    (/\ job[j].kind \in {"upload", "agent"} /\ job[j].out = "ok"
     /\ meta[i].until > clock /\ i \notin wiped)
    => /\ dirs[i] = "full"
       /\ job[j].kind = "upload" /\ Api \in open => records[Api][i] = "available"

Undisturbed(j) == \A i \in Ids : meta[i].by = j =>
                    i \notin wiped /\ meta[i].until > clock

(* An MCP call, and any call that failed, leaves no file behind: the       *)
(* source, the files already staged and the projected ones are discarded,  *)
(* unless the output was not JSON or a file vanished under the call.       *)
NothingLeftBehind ==
  \A j \in Jobs :
    (/\ job[j].phase = "done" /\ Undisturbed(j)
     /\ job[j].out = "failed" \/ (job[j].kind = "mcp" /\ job[j].out = "ok"))
    => \A i \in Ids : meta[i].by = j => dirs[i] = "none"

(* The owner who lists a published result gets all of its files, unless    *)
(* one expired or was removed by an instance that did not know it.         *)
ListedUnlessLost ==
  \A j \in Jobs : job[j].kind = "list" /\ job[j].out = "failed" =>
    \E i \in job[j].arts : i \in wiped \/ meta[i].until <= clock

\* Whatever the stores restore, expire and remove, files reach only their owner
\* in their conversation, and what a store lists is there unless it was lost.
StoresConsistent ==
  /\ TypeOK
  /\ ServedToOwner
  /\ ListedUnlessLost
=============================================================================
