--------------------------- MODULE StorageProofs ----------------------------
(***************************************************************************)
(* Theorems about what processes leave on disk.  First AttachmentStorage,  *)
(* for any number of calls, stores and files, any retention time and any   *)
(* number of crashes: a file a call has staged and not yet discarded is    *)
(* there, and known to the store of the call, unless it is lost: expired,  *)
(* or removed by an instance that did not know it (Kept); what a call      *)
(* staged and has neither kept nor lost is gone (Tracked).  Then           *)
(* TaskWorkerPool, for any number of worker processes, any lease and any   *)
(* delay: who may commit, and which files a succeeded task has.            *)
(***************************************************************************)
EXTENDS AttachmentStorage, TaskWorkerPool, TLAPS

Phases == {"idle", "stage", "write", "manifest", "record", "input", "run", "staged",
           "project", "discard", "unwind", "list", "done"}
AllKinds == {"none", "upload", "read", "agent", "mcp", "result", "list"}
Outs == {"none", "ok", "failed", "unsafe", "lost"}

Owners == Subjects \cup {"nobody"}
Bindings == Homes \cup {NoConversation}

MetaRecord == [owner : Owners, conv : Bindings, until : Nat, by : Jobs \cup {"nobody"}]

JobRecord ==
  [phase : Phases, kind : AllKinds, who : Owners, conv : Bindings,
   id : {0} \cup Ids, src : {0} \cup Ids, arts : SUBSET Ids, left : Nat,
   drop : SUBSET Ids, out : Outs]

Shape ==
  /\ dirs \in [Ids -> {"none", "part", "file", "full"}]
  /\ meta \in [Ids -> MetaRecord]
  /\ records \in [Stores -> [Ids -> Statuses]]
  /\ open \subseteq Stores /\ used \in 0..MaxIds /\ wiped \subseteq Ids
  /\ clock \in Nat /\ crashes \in Nat
  /\ job \in [Jobs -> JobRecord]
  /\ manifests \subseteq Jobs
  /\ \A x \in served : x.id \in Ids

-----------------------------------------------------------------------------
(* The inductive invariant.                                                *)

(* The manifest of an id is written once. *)
Fresh(i) == meta[i].by = "nobody"

Lost(i) == i \in wiped \/ meta[i].until <= clock

(* What the stores say of an id. *)
IdsOK ==
  /\ \A s \in Stores \ open : \A i \in Ids : records[s][i] = "none"
  /\ \A i \in Ids : i > used => dirs[i] = "none" /\ Fresh(i)
  /\ \A i \in Ids : IF Fresh(i) THEN dirs[i] # "full" /\ \A s \in Stores : records[s][i] = "none"
                               ELSE dirs[i] \in {"none", "full"}
  /\ \A s \in Stores : \A i \in Ids :
       /\ records[s][i] = "missing" => dirs[i] = "none"
       /\ records[s][i] = "expired" => meta[i].until <= clock
  /\ \A x \in served : ~Fresh(x.id)

Staging == {"stage", "write", "manifest", "record"}

(* The fields of a call at each place. *)
Fields(j, e) ==
  /\ e.phase = "idle" => e = Idle
  /\ e.phase # "idle" => e.kind \in Kinds[j] \ {"none"}
  /\ e.phase \in Staging => e.kind \in {"upload", "agent", "mcp", "result"}
  /\ e.phase \in {"run", "staged"} => e.kind \in {"agent", "mcp", "result"}
  /\ e.phase = "input" => e.kind = "result"
  /\ e.phase \in {"project", "discard"} => e.kind = "mcp"
  /\ e.phase = "unwind" => e.kind \in {"upload", "agent", "mcp", "result"}
  /\ e.phase = "list" <=> e.kind = "list" /\ e.out = "none"
  /\ e.kind = "mcp" => e.conv = NoConversation
  /\ e.kind # "mcp" => e.src = 0
  /\ e.phase \in {"run", "staged", "project", "discard"} /\ e.kind = "mcp" => e.src # 0
  /\ e.kind = "read" => e.arts = {}
  /\ e.phase \in {"input", "run"} => e.arts = {}
  /\ e.phase \in Staging /\ e.kind = "upload" => e.arts = {}
  /\ e.phase \in Staging /\ e.kind = "mcp" /\ e.src = 0 => e.arts = {}
  /\ e.src \notin e.arts
  /\ e.phase \in {"write", "manifest", "record", "input", "discard"} => e.id # 0
  /\ e.phase \in {"record", "discard"} => e.id \notin e.arts \cup {e.src}
  /\ e.out # "none" => e.phase \in {"done", "unwind", "discard"}
  /\ e.phase = "discard" => e.out \in {"none", "failed"}
  /\ e.out = "ok" /\ e.kind # "mcp" => e.phase = "done"

Unwritten == {"write", "manifest"}

JobOK(j) ==
  /\ Fields(j, job[j])
  /\ job[j].phase \notin {"idle", "done"} => StoreOf[j] \in open
  /\ job[j].phase \in Unwritten => Fresh(job[j].id) /\ job[j].id <= used

(* What a call has staged and answers for. *)
MineOf(e) == (e.arts \cup {e.src}) \ {0}

KeptOf(e) ==
  IF \/ e.kind \in {"list", "read", "none"}
     \/ e.phase = "done" /\ ~(e.out = "ok" /\ e.kind # "mcp")
  THEN {}
  ELSE CASE e.phase = "unwind"  -> e.drop
         [] e.phase = "discard" -> MineOf(e) \cup {e.id}
         [] OTHER               -> MineOf(e)

(* What it has written and not yet recorded. *)
WrittenOf(e) == IF e.phase = "record" THEN {e.id} ELSE {}

Kept(j) == KeptOf(job[j])
Written(j) == WrittenOf(job[j])

KeptOK(j) ==
  /\ \A i \in Kept(j) \cup Written(j) :
       /\ meta[i].by = j /\ meta[i].owner = job[j].who /\ meta[i].conv = job[j].conv
       /\ dirs[i] = "full" \/ Lost(i)
  /\ StoreOf[j] \in open =>
       \A i \in Kept(j) : records[StoreOf[j]][i] = "available" \/ Lost(i)

(* Nothing else of what a call staged is left, unless it crashed, returned *)
(* what is not JSON, or lost a file.                                       *)
LostOne(j) == \E i \in Ids : meta[i].by = j /\ Lost(i)

Excused(j) == LostOne(j) \/ job[j].out \in {"lost", "unsafe"}

Tracked(j) ==
  /\ \A i \in Ids : meta[i].by = j /\ dirs[i] # "none" /\ ~Excused(j)
                      => i \in Kept(j) \cup Written(j)
  /\ job[j].phase = "discard" /\ job[j].out = "failed" => LostOne(j)

(* What is listed belongs to a published result. *)
Settled(r) == job[r].phase = "done" /\ job[r].kind = "result" /\ job[r].out = "ok"

ListOK(j) ==
  job[j].kind = "list" =>
    /\ \A i \in job[j].arts :
         /\ meta[i].by \in Jobs /\ Settled(meta[i].by) /\ i \in job[meta[i].by].arts
         /\ meta[i].owner = job[j].who /\ meta[i].conv = job[j].conv
    /\ job[j].out = "failed" => \E i \in job[j].arts : Lost(i)

JobInv(j) == JobOK(j) /\ KeptOK(j) /\ Tracked(j) /\ ListOK(j)

IdsApart ==
  \A j, k \in Jobs :
    job[j].phase \in Unwritten /\ job[k].phase \in Unwritten /\ job[j].id = job[k].id
    => j = k

Published == \A r \in manifests : Settled(r)

IInv ==
  /\ Shape /\ IdsOK /\ IdsApart /\ Published /\ ServedToOwner
  /\ \A j \in Jobs : JobInv(j)

-----------------------------------------------------------------------------
(* What a step that discards the ids in gone does to the others.           *)
Gentle(gone) ==
  /\ \A i \in Ids : ~Fresh(i) =>
       /\ meta'[i] = meta[i]
       /\ Lost(i) => Lost(i)'
       /\ dirs[i] = "none" => dirs'[i] = "none"
       /\ i \notin gone /\ dirs[i] = "full" => dirs'[i] = "full" \/ Lost(i)'
  /\ \A s \in Stores : \A i \in Ids \ gone :
       ~Fresh(i) /\ s \in open' /\ dirs[i] = "full" /\ (s \in open => records[s][i] = "available")
       => records'[s][i] = "available" \/ Lost(i)'

(* A call that a step leaves alone keeps its part of the invariant.        *)
LEMMA OtherCall ==
  ASSUME IInv, Shape', NEW k \in Jobs, NEW gone, Gentle(gone), job'[k] = job[k],
         used <= used',
         \A i \in gone : meta[i].by # k,
         job[k].phase \notin {"idle", "done"} => StoreOf[k] \in open',
         \A i \in Ids : Fresh(i) => meta'[i].by # k,
         job[k].phase \in Unwritten => Fresh(job[k].id)',
         \A r \in Jobs : Settled(r) => job'[r] = job[r] /\ \A i \in gone : meta[i].by # r
  PROVE  JobInv(k)'
<1>1. JobOK(k) /\ KeptOK(k) /\ Tracked(k) /\ ListOK(k) /\ job[k] \in JobRecord /\ StoreOf[k] \in Stores
  BY StorageAssumption DEF IInv, JobInv, Shape
<1>2. ASSUME NEW i \in Ids, ~Fresh(i), i \notin gone
      PROVE  /\ meta'[i] = meta[i] /\ (Lost(i) => Lost(i)')
             /\ dirs[i] = "full" => dirs'[i] = "full" \/ Lost(i)'
             /\ dirs[i] = "none" => dirs'[i] = "none"
  BY <1>2 DEF Gentle
<1>3. "nobody" \notin Jobs
  BY StorageAssumption
<1>4. JobOK(k)'
  <2>1. (job[k].phase \in Unwritten) => Fresh(job[k].id)' /\ job'[k].id <= used'
    <3>1. job[k].phase \in Unwritten => job[k].id \in Nat /\ job[k].id <= used
      BY <1>1, StorageAssumption DEF JobOK, JobRecord, Ids
    <3>. QED  BY <3>1, StorageAssumption DEF IInv, Shape
  <2>. QED  BY <1>1, <2>1 DEF JobOK
<1>5. Kept(k)' = Kept(k) /\ Written(k)' = Written(k)
  BY DEF Kept, Written
<1>6. \A i \in Kept(k) \cup Written(k) : i \in Ids /\ meta[i].by = k /\ ~Fresh(i) /\ i \notin gone
  <2>1. Kept(k) \cup Written(k) \subseteq Ids
    BY <1>1 DEF Kept, Written, KeptOf, WrittenOf, MineOf, JobOK, Fields, JobRecord
  <2>. QED  BY <2>1, <1>1, <1>3 DEF KeptOK, Fresh
<1>7. KeptOK(k)'
  <2>1. ASSUME NEW i \in Kept(k) \cup Written(k)
        PROVE  /\ meta'[i].by = k /\ meta'[i].owner = job'[k].who /\ meta'[i].conv = job'[k].conv
               /\ dirs'[i] = "full" \/ Lost(i)'
    BY <2>1, <1>1, <1>2, <1>6 DEF KeptOK
  <2>2. ASSUME NEW i \in Kept(k), StoreOf[k] \in open'
        PROVE  records'[StoreOf[k]][i] = "available" \/ Lost(i)'
    <3>1. i \in Ids \ gone /\ ~Fresh(i) /\ (dirs[i] = "full" \/ Lost(i))
      BY <1>1, <1>6 DEF KeptOK
    <3>2. CASE Lost(i)
      BY <3>1, <3>2, <1>2
    <3>3. CASE ~Lost(i)
      BY <3>1, <3>3, <2>2, <1>1 DEF Gentle, KeptOK
    <3>. QED  BY <3>2, <3>3
  <2>. QED  BY <2>1, <2>2, <1>5 DEF KeptOK
<1>8. LostOne(k) => LostOne(k)'
  BY <1>3 DEF LostOne, Gentle, Fresh
<1>9. Tracked(k)'
  <2>1. ASSUME NEW i \in Ids, meta'[i].by = k, dirs'[i] # "none", ~Excused(k)'
        PROVE  i \in Kept(k) \cup Written(k)
    <3>1. ~Fresh(i)
      BY <2>1
    <3>2. meta[i].by = k /\ dirs[i] # "none"
      BY <3>1, <2>1 DEF Gentle
    <3>. QED  BY <3>2, <2>1, <1>8, <1>1 DEF Tracked, Excused
  <2>. QED  BY <2>1, <1>1, <1>5, <1>8 DEF Tracked
<1>10. ListOK(k)'
  <2>1. ASSUME job[k].kind = "list", NEW i \in job[k].arts
        PROVE  /\ meta'[i].by \in Jobs /\ Settled(meta[i].by)' /\ i \in job'[meta'[i].by].arts
               /\ meta'[i].owner = job'[k].who /\ meta'[i].conv = job'[k].conv
    <3>1. i \in Ids /\ meta[i].by \in Jobs /\ Settled(meta[i].by) /\ i \in job[meta[i].by].arts
      BY <2>1, <1>1 DEF ListOK, JobRecord
    <3>2. ~Fresh(i)
      BY <3>1, <1>3 DEF Fresh
    <3>3. meta'[i] = meta[i] /\ job'[meta[i].by] = job[meta[i].by]
      BY <3>1, <3>2 DEF Gentle
    <3>. QED  BY <2>1, <3>1, <3>3, <1>1 DEF ListOK, Settled
  <2>2. ASSUME job[k].kind = "list", job[k].out = "failed"
        PROVE  \E i \in job[k].arts : Lost(i)'
    <3>1. PICK i \in job[k].arts : Lost(i)
      BY <2>2, <1>1 DEF ListOK
    <3>2. i \in Ids /\ ~Fresh(i)
      BY <2>2, <1>1, <1>3 DEF ListOK, JobRecord, Fresh
    <3>. QED  BY <3>1, <3>2 DEF Gentle
  <2>. QED  BY <2>1, <2>2 DEF ListOK
<1>. QED  BY <1>4, <1>7, <1>9, <1>10 DEF JobInv

(* A call that a step of its own moves on keeps what it has staged, and    *)
(* discards the rest.                                                      *)
LEMMA ActingCall ==
  ASSUME IInv, Shape', NEW j \in Jobs, NEW new \in JobRecord, NEW gone, Gentle(gone),
         Go(j, new), Fields(j, new), new.kind = "list" => ListOK(j)',
         \A i \in KeptOf(new) \cup WrittenOf(new) :
            \/ /\ i \in (Kept(j) \cup Written(j)) \ gone
               /\ new.who = job[j].who /\ new.conv = job[j].conv
            \/ meta'[i] = [owner |-> new.who, conv |-> new.conv, until |-> meta'[i].until, by |-> j]
               /\ dirs'[i] = "full",
         \A i \in KeptOf(new) : i \in Kept(j) \ gone \/ records'[StoreOf[j]][i] = "available",
         \/ Excused(j)'
         \/ /\ (Kept(j) \cup Written(j)) \ gone \subseteq KeptOf(new) \cup WrittenOf(new)
            /\ \A i \in gone \cap Ids : dirs'[i] = "none"
            /\ job[j].out \in {"lost", "unsafe"} => new.out \in {"lost", "unsafe"},
         \A i \in Ids : Fresh(i) => meta'[i].by # j \/ i \in WrittenOf(new),
         new.phase \notin {"idle", "done"} => StoreOf[j] \in open',
         new.phase \in Unwritten => Fresh(new.id)' /\ new.id <= used',
         new.phase = "discard" /\ new.out = "failed" => LostOne(j)'
  PROVE  JobInv(j)'
<1>1. JobOK(j) /\ KeptOK(j) /\ Tracked(j) /\ job[j] \in JobRecord /\ StoreOf[j] \in Stores
  BY StorageAssumption DEF IInv, JobInv, Shape
<1>2. job'[j] = new
  BY DEF Go, IInv, Shape
<1>3. "nobody" \notin Jobs
  BY StorageAssumption
<1>4. JobOK(j)'
  BY <1>2 DEF JobOK
<1>5. Kept(j)' = KeptOf(new) /\ Written(j)' = WrittenOf(new)
  BY <1>2 DEF Kept, Written
<1>6. \A i \in Kept(j) \cup Written(j) : i \in Ids /\ meta[i].by = j /\ ~Fresh(i)
  <2>1. Kept(j) \cup Written(j) \subseteq Ids
    BY <1>1 DEF Kept, Written, KeptOf, WrittenOf, MineOf, JobOK, Fields, JobRecord
  <2>. QED  BY <2>1, <1>1, <1>3 DEF KeptOK, Fresh
<1>7. KeptOK(j)'
  <2>1. ASSUME NEW i \in KeptOf(new) \cup WrittenOf(new)
        PROVE  /\ meta'[i].by = j /\ meta'[i].owner = new.who /\ meta'[i].conv = new.conv
               /\ dirs'[i] = "full" \/ Lost(i)'
    <3>1. CASE i \in (Kept(j) \cup Written(j)) \ gone /\ new.who = job[j].who /\ new.conv = job[j].conv
      BY <3>1, <1>1, <1>6 DEF KeptOK, Gentle
    <3>2. CASE /\ meta'[i] = [owner |-> new.who, conv |-> new.conv, until |-> meta'[i].until, by |-> j]
               /\ dirs'[i] = "full"
      BY <3>2
    <3>. QED  BY <3>1, <3>2, <2>1
  <2>2. ASSUME NEW i \in KeptOf(new), StoreOf[j] \in open'
        PROVE  records'[StoreOf[j]][i] = "available" \/ Lost(i)'
    <3>. SUFFICES ASSUME i \in Kept(j) \ gone PROVE records'[StoreOf[j]][i] = "available" \/ Lost(i)'
      BY <2>2
    <3>1. i \in Ids \ gone /\ ~Fresh(i) /\ (dirs[i] = "full" \/ Lost(i))
      BY <1>1, <1>6 DEF KeptOK
    <3>2. CASE Lost(i)
      BY <3>1, <3>2 DEF Gentle
    <3>3. CASE ~Lost(i)
      BY <3>1, <3>3, <2>2, <1>1 DEF Gentle, KeptOK
    <3>. QED  BY <3>2, <3>3
  <2>. QED  BY <2>1, <2>2, <1>2, <1>5 DEF KeptOK
<1>8. LostOne(j) => LostOne(j)'
  BY <1>3 DEF LostOne, Gentle, Fresh
<1>9. Tracked(j)'
  <2>1. ASSUME NEW i \in Ids, meta'[i].by = j, dirs'[i] # "none", ~Excused(j)'
        PROVE  i \in KeptOf(new) \cup WrittenOf(new)
    <3>. SUFFICES ASSUME i \notin WrittenOf(new) PROVE i \in KeptOf(new) \cup WrittenOf(new)
      OBVIOUS
    <3>1. ~Fresh(i)
      BY <2>1
    <3>2. meta[i].by = j /\ dirs[i] # "none"
      BY <3>1, <2>1 DEF Gentle
    <3>3. ~Excused(j)
      BY <2>1, <1>8, <1>2 DEF Excused
    <3>4. i \in Kept(j) \cup Written(j)
      BY <3>2, <3>3, <1>1 DEF Tracked
    <3>5. i \notin gone
      BY <2>1
    <3>. QED  BY <3>4, <3>5, <2>1
  <2>. QED  BY <2>1, <1>2, <1>5 DEF Tracked
<1>10. ListOK(j)'
  BY <1>2 DEF ListOK
<1>. QED  BY <1>4, <1>7, <1>9, <1>10 DEF JobInv

(* A step of one call keeps the invariant if it keeps that call's part and *)
(* what is said of the stores.                                             *)
LEMMA CallStep ==
  ASSUME IInv, Shape', IdsOK', ServedToOwner',
         NEW j \in Jobs, NEW new \in JobRecord, NEW gone, Gentle(gone), Go(j, new), JobInv(j)',
         ~Settled(j), \A i \in gone : meta[i].by = j, open \subseteq open', used <= used',
         \A i \in Ids : Fresh(i) => \/ Fresh(i)'
                                    \/ meta'[i].by = j /\ job[j].phase \in Unwritten /\ i = job[j].id,
         new.phase \in Unwritten => \/ job[j].phase \in Unwritten /\ new.id = job[j].id
                                    \/ new.id = used + 1,
         manifests' \subseteq manifests \cup {j}, j \in manifests' => Settled(j)'
  PROVE  IInv'
<1>1. /\ job'[j] = new
      /\ \A k \in Jobs : k # j => job'[k] = job[k]
  BY DEF Go, IInv, Shape
<1>2. \A k \in Jobs : job[k] \in JobRecord /\ JobOK(k)
  BY DEF IInv, Shape, JobInv
<1>3. \A k \in Jobs : job[k].phase \in Unwritten => job[k].id \in Ids /\ job[k].id <= used
  BY <1>2 DEF JobOK, Fields, JobRecord, Unwritten
<1>4. ASSUME NEW k \in Jobs, k # j PROVE JobInv(k)'
  <2>1. "nobody" \notin Jobs
    BY StorageAssumption
  <2>2. \A i \in Ids : Fresh(i) => meta'[i].by # k
    BY <1>4, <2>1 DEF Fresh
  <2>3. job[k].phase \in Unwritten => Fresh(job[k].id)'
    <3>1. SUFFICES ASSUME job[k].phase \in Unwritten PROVE Fresh(job[k].id)'
      OBVIOUS
    <3>2. job[k].id \in Ids /\ Fresh(job[k].id)
      BY <3>1, <1>2, <1>3 DEF JobOK
    <3>3. ~(job[j].phase \in Unwritten /\ job[k].id = job[j].id)
      BY <3>1, <1>4 DEF IInv, IdsApart
    <3>. QED  BY <3>2, <3>3, <1>1, <1>4 DEF Fresh
  <2>4. job[k].phase \notin {"idle", "done"} => StoreOf[k] \in open'
    BY <1>2 DEF JobOK
  <2>5. \A r \in Jobs : Settled(r) => job'[r] = job[r] /\ \A i \in gone : meta[i].by # r
    BY <1>1
  <2>. QED  BY <2>2, <2>3, <2>4, <2>5, <1>1, <1>4, OtherCall
<1>5. IdsApart'
  <2>1. SUFFICES ASSUME NEW k \in Jobs, k # j, job[k].phase \in Unwritten, new.phase \in Unwritten
                 PROVE  new.id # job[k].id
    BY <1>1 DEF IInv, IdsApart
  <2>2. job[k].id # used + 1
    BY <2>1, <1>3, StorageAssumption DEF IInv, Shape, Ids
  <2>. QED  BY <2>1, <2>2 DEF IInv, IdsApart
<1>6. Published'
  <2>1. \A r \in manifests : r \in Jobs /\ Settled(r)
    BY DEF IInv, Shape, Published
  <2>. QED  BY <2>1, <1>1 DEF Published, Settled
<1>. QED  BY <1>4, <1>5, <1>6 DEF IInv

-----------------------------------------------------------------------------
(* What the calls of a store do.                                           *)

LEMMA Numbers == Ids \subseteq Nat \ {0} /\ MaxIds \in Nat
BY StorageAssumption DEF Ids

(* A store cleans up, loses track of files that are gone, and discards     *)
(* those in gone; a directory for a new id may be made.                    *)
LEMMA Cleaning ==
  ASSUME IInv, NEW s \in open, NEW gone,
         UNCHANGED <<meta, open, clock>>, wiped' = wiped \cup Strange(s),
         used' = used \/ used' = used + 1,
         \A x \in served' : x \in served \/ (x.id \in Ids /\ ~Fresh(x.id)),
         \A i \in Ids : \/ dirs'[i] = dirs[i]
                        \/ dirs'[i] = "none" /\ i \in gone \cup Expiring(s) \cup Strange(s)
                        \/ dirs'[i] = "part" /\ i = used + 1 /\ used' = used + 1,
         \A i \in Expiring(s) : dirs'[i] = "none" \/ dirs[i] = "none",
         \A t \in Stores \ {s} : records'[t] = records[t],
         \A i \in Ids : \/ records'[s][i] = records[s][i]
                        \/ records'[s][i] = "expired" /\ i \in Expiring(s)
                        \/ records'[s][i] = "missing" /\ records[s][i] = "available" /\ ~Verified(i)
                        \/ records'[s][i] = "none" /\ i \in gone
  PROVE  Gentle(gone) /\ IdsOK'
<1>. USE Numbers
<1>1. Shape /\ IdsOK /\ s \in Stores
  BY DEF IInv, Shape
<1>2. \A i \in Ids : Fresh(i)' = Fresh(i)
  BY DEF Fresh
<1>3. \A i \in Expiring(s) \cup Strange(s) : Lost(i)' /\ i \in Ids
  BY DEF Expiring, Strange, Lost
<1>4. \A i \in Ids : Lost(i) => Lost(i)'
  BY DEF Lost
<1>5. ASSUME NEW i \in Ids, ~Fresh(i)
      PROVE  i <= used /\ dirs[i] \in {"none", "full"}
  BY <1>1, <1>5 DEF IdsOK, Shape
<1>6. Gentle(gone)
  <2>1. ASSUME NEW i \in Ids, ~Fresh(i)
        PROVE  /\ meta'[i] = meta[i] /\ (Lost(i) => Lost(i)')
               /\ dirs[i] = "none" => dirs'[i] = "none"
               /\ i \notin gone /\ dirs[i] = "full" => dirs'[i] = "full" \/ Lost(i)'
    <3>1. i # used + 1
      BY <2>1, <1>5, <1>1 DEF Shape
    <3>. QED  BY <2>1, <3>1, <1>3, <1>4
  <2>2. ASSUME NEW t \in Stores, NEW i \in Ids \ gone, ~Fresh(i), t \in open',
               dirs[i] = "full", t \in open => records[t][i] = "available"
        PROVE  records'[t][i] = "available" \/ Lost(i)'
    BY <2>2, <1>3 DEF Verified
  <2>. QED  BY <2>1, <2>2 DEF Gentle
<1>7. IdsOK'
  <2>1. \A t \in Stores \ open' : \A i \in Ids : records'[t][i] = "none"
    BY <1>1 DEF IdsOK
  <2>2. \A i \in Ids : i > used' => dirs'[i] = "none" /\ Fresh(i)'
    BY <1>1, <1>2 DEF IdsOK, Shape
  <2>3. ASSUME NEW i \in Ids
        PROVE  IF Fresh(i)' THEN dirs'[i] # "full" /\ \A t \in Stores : records'[t][i] = "none"
                            ELSE dirs'[i] \in {"none", "full"}
    <3>1. CASE Fresh(i)
      <4>1. dirs[i] # "full" /\ \A t \in Stores : records[t][i] = "none"
        BY <3>1, <1>1 DEF IdsOK
      <4>2. i \notin Expiring(s)
        BY <4>1, <1>1 DEF Expiring
      <4>. QED  BY <3>1, <4>1, <4>2, <1>1, <1>2
    <3>2. CASE ~Fresh(i)
      BY <3>2, <1>2, <1>5, <1>1 DEF Shape
    <3>. QED  BY <3>1, <3>2
  <2>4. ASSUME NEW t \in Stores, NEW i \in Ids, records'[t][i] = "missing"
        PROVE  dirs'[i] = "none"
    <3>1. records[t][i] # "none"
      BY <2>4, <1>1 DEF Expiring
    <3>2. ~Fresh(i)
      BY <3>1, <1>1 DEF IdsOK
    <3>3. dirs[i] = "none"
      BY <2>4, <3>2, <1>1, <1>5 DEF IdsOK, Verified
    <3>. QED  BY <3>2, <3>3, <1>6 DEF Gentle
  <2>5. ASSUME NEW t \in Stores, NEW i \in Ids, records'[t][i] = "expired"
        PROVE  meta'[i].until <= clock'
    BY <2>5, <1>1 DEF IdsOK, Expiring
  <2>6. \A x \in served' : ~Fresh(x.id)'
    BY <1>1, <1>2 DEF IdsOK, Shape
  <2>. QED  BY <2>1, <2>2, <2>3, <2>4, <2>5, <2>6 DEF IdsOK
<1>. QED  BY <1>6, <1>7

(* read: what is served is right, and the id it marks missing was gone.    *)
LEMMA Reading ==
  ASSUME IInv, NEW s \in open, NEW i \in Ids, NEW who, NEW conv,
         Read(s, i, who, conv), UNCHANGED <<meta, Outside>>
  PROVE  /\ Gentle({}) /\ IdsOK' /\ ServedToOwner'
         /\ dirs' \in [Ids -> {"none", "part", "file", "full"}]
         /\ records' \in [Stores -> [Ids -> Statuses]]
         /\ wiped' \subseteq Ids
         /\ \A x \in served' : x.id \in Ids
<1>. USE Numbers
<1>1. Shape /\ IdsOK /\ s \in Stores /\ ServedToOwner
  BY DEF IInv, Shape
<1>2. UNCHANGED <<meta, open, clock, used>> /\ wiped' = wiped \cup Strange(s)
  BY DEF Read, CleanUp, Outside
<1>3. dirs' = DirsAfter(s, {})
  BY DEF Read
<1>4. /\ dirs' \in [Ids -> {"none", "part", "file", "full"}]
      /\ \A k \in Ids : \/ dirs'[k] = dirs[k]
                        \/ dirs'[k] = "none" /\ k \in {} \cup Expiring(s) \cup Strange(s)
      /\ \A k \in Expiring(s) : dirs'[k] = "none"
  BY <1>1, <1>3 DEF DirsAfter, Shape, Expiring
<1>5. Cleaned(s) \in [Ids -> Statuses]
  BY <1>1 DEF Cleaned, Shape, Statuses
<1>6. PICK R \in [Ids -> Statuses] :
        /\ records' = [records EXCEPT ![s] = R]
        /\ \A k \in Ids : \/ R[k] = Cleaned(s)[k]
                          \/ R[k] = "missing" /\ Cleaned(s)[k] = "available" /\ ~Verified(k)
  <2> DEFINE R == [Cleaned(s) EXCEPT ![i] =
                     IF RecordForContext(s, i, who, conv) /\ @ = "available" /\ ~Verified(i)
                     THEN "missing" ELSE @]
  <2>1. records' = [records EXCEPT ![s] = R]
    BY DEF Read
  <2>2. R \in [Ids -> Statuses]
    BY <1>5 DEF Statuses
  <2>3. \A k \in Ids : \/ R[k] = Cleaned(s)[k]
                       \/ R[k] = "missing" /\ Cleaned(s)[k] = "available" /\ ~Verified(k)
    BY <1>5
  <2>. QED  BY <2>1, <2>2, <2>3
<1>7. /\ records' \in [Stores -> [Ids -> Statuses]]
      /\ records'[s] = R
      /\ \A t \in Stores \ {s} : records'[t] = records[t]
  BY <1>1, <1>6 DEF Shape
<1>8. \A k \in Ids : \/ Cleaned(s)[k] = records[s][k] /\ k \notin Expiring(s)
                     \/ Cleaned(s)[k] = "expired" /\ k \in Expiring(s)
  BY DEF Cleaned
<1>9. \A k \in Ids : \/ records'[s][k] = records[s][k]
                     \/ records'[s][k] = "expired" /\ k \in Expiring(s)
                     \/ records'[s][k] = "missing" /\ records[s][k] = "available" /\ ~Verified(k)
  BY <1>6, <1>7, <1>8
<1>10. wiped' \subseteq Ids
  BY <1>1, <1>2 DEF Shape, Strange
<1>11. \/ served' = served
       \/ /\ Readable(s, i, who, conv)
          /\ served' = served \cup {[id |-> i, who |-> who, conv |-> conv,
                                     late |-> clock >= meta[i].until]}
  BY DEF Read
<1>12. Readable(s, i, who, conv) =>
         /\ ~Fresh(i) /\ meta[i].owner = who /\ meta[i].conv \in {NoConversation, conv}
         /\ ~(clock >= meta[i].until)
  <2>1. SUFFICES ASSUME Readable(s, i, who, conv)
                 PROVE  ~Fresh(i) /\ ~(clock >= meta[i].until)
    BY DEF Readable, RecordForContext
  <2>2. records[s][i] = "available" /\ i \notin Expiring(s)
    BY <2>1, <1>8 DEF Readable
  <2>3. meta[i].until \in Nat /\ clock \in Nat
    BY <1>1 DEF Shape, MetaRecord
  <2>. QED  BY <2>2, <2>3, <1>1 DEF Expiring, IdsOK
<1>13. \A x \in served' : x \in served \/ (x.id \in Ids /\ ~Fresh(x.id))
  BY <1>11, <1>12
<1>14. \A x \in served' : x.id \in Ids
  BY <1>13, <1>1 DEF Shape
<1>15. ServedToOwner'
  <2>1. CASE served' = served
    BY <2>1, <1>1, <1>2 DEF ServedToOwner
  <2>2. CASE served' # served
    <3> DEFINE y == [id |-> i, who |-> who, conv |-> conv, late |-> clock >= meta[i].until]
    <3>1. served' = served \cup {y} /\ Readable(s, i, who, conv)
      BY <2>2, <1>11
    <3>2. y.id = i /\ y.who = who /\ y.conv = conv /\ y.late = (clock >= meta[i].until)
      OBVIOUS
    <3>3. ~y.late /\ meta[y.id].owner = y.who /\ meta[y.id].conv \in {NoConversation, y.conv}
      BY <3>1, <3>2, <1>12
    <3> HIDE DEF y
    <3>. QED  BY <3>1, <3>3, <1>1, <1>2 DEF ServedToOwner
  <2>. QED  BY <2>1, <2>2
<1>16. Gentle({}) /\ IdsOK'
  BY <1>2, <1>4, <1>7, <1>9, <1>13, Cleaning
<1>. QED  BY <1>4, <1>7, <1>10, <1>14, <1>15, <1>16

(* discard *)
LEMMA Discarding ==
  ASSUME IInv, NEW s \in open, NEW i \in Ids, NEW who, NEW conv,
         Discard(s, i, who, conv), UNCHANGED <<meta, Outside, served>>
  PROVE  /\ Gentle({i}) /\ IdsOK' /\ ServedToOwner'
         /\ dirs' \in [Ids -> {"none", "part", "file", "full"}]
         /\ records' \in [Stores -> [Ids -> Statuses]]
         /\ wiped' \subseteq Ids
         /\ RecordForContext(s, i, who, conv) => dirs'[i] = "none"
<1>. USE Numbers
<1>1. Shape /\ IdsOK /\ s \in Stores /\ ServedToOwner
  BY DEF IInv, Shape
<1>2. UNCHANGED <<meta, open, clock, used, served>> /\ wiped' = wiped \cup Strange(s)
  BY DEF Discard, CleanUp, Outside
<1>3. /\ dirs' \in [Ids -> {"none", "part", "file", "full"}]
      /\ \A k \in Ids : \/ dirs'[k] = dirs[k]
                        \/ dirs'[k] = "none" /\ k \in {i} \cup Expiring(s) \cup Strange(s)
      /\ \A k \in Expiring(s) : dirs'[k] = "none"
      /\ RecordForContext(s, i, who, conv) => dirs'[i] = "none"
  BY <1>1 DEF Discard, DirsAfter, Shape, Expiring
<1>4. Cleaned(s) \in [Ids -> Statuses]
  BY <1>1 DEF Cleaned, Shape, Statuses
<1>5. PICK R \in [Ids -> Statuses] :
        /\ records' = [records EXCEPT ![s] = R]
        /\ \A k \in Ids : R[k] = Cleaned(s)[k] \/ (R[k] = "none" /\ k = i)
  <2> DEFINE R == [Cleaned(s) EXCEPT ![i] = IF RecordForContext(s, i, who, conv) THEN "none" ELSE @]
  <2>1. records' = [records EXCEPT ![s] = R]
    BY DEF Discard
  <2>2. R \in [Ids -> Statuses]
    BY <1>4 DEF Statuses
  <2>3. \A k \in Ids : R[k] = Cleaned(s)[k] \/ (R[k] = "none" /\ k = i)
    BY <1>4
  <2>. QED  BY <2>1, <2>2, <2>3
<1>6. /\ records' \in [Stores -> [Ids -> Statuses]]
      /\ records'[s] = R
      /\ \A t \in Stores \ {s} : records'[t] = records[t]
  BY <1>1, <1>5 DEF Shape
<1>7. \A k \in Ids : \/ records'[s][k] = records[s][k]
                     \/ records'[s][k] = "expired" /\ k \in Expiring(s)
                     \/ records'[s][k] = "none" /\ k \in {i}
  BY <1>5, <1>6 DEF Cleaned
<1>8. wiped' \subseteq Ids
  BY <1>1, <1>2 DEF Shape, Strange
<1>9. ServedToOwner'
  BY <1>1, <1>2 DEF ServedToOwner
<1>10. Gentle({i}) /\ IdsOK'
  BY <1>2, <1>3, <1>6, <1>7, Cleaning
<1>. QED  BY <1>3, <1>6, <1>8, <1>9, <1>10

(* A step that touches neither files nor records. *)
LEMMA Aside ==
  ASSUME IInv, UNCHANGED <<dirs, meta, records, open, used, clock, served, wiped>>
  PROVE  Gentle({}) /\ IdsOK' /\ ServedToOwner'
BY DEF IInv, Gentle, IdsOK, ServedToOwner, Fresh, Lost

(* A new instance restores what is whole and not expired. *)
LEMMA Opening ==
  ASSUME IInv, NEW s \in Stores, Open(s), UNCHANGED <<meta, used, clock, served>>
  PROVE  /\ Gentle({}) /\ IdsOK' /\ ServedToOwner'
         /\ dirs' \in [Ids -> {"none", "part", "file", "full"}]
         /\ records' \in [Stores -> [Ids -> Statuses]]
         /\ wiped' \subseteq Ids /\ open' \subseteq Stores
<1>. USE Numbers
<1>1. Shape /\ IdsOK /\ ServedToOwner
  BY DEF IInv
<1>2. /\ records' \in [Stores -> [Ids -> Statuses]]
      /\ \A t \in Stores \ {s} : records'[t] = records[t]
      /\ \A i \in Ids : records'[s][i] = IF i \in Restorable THEN "available" ELSE "none"
  BY <1>1 DEF Open, Shape, Statuses
<1>3. /\ dirs' \in [Ids -> {"none", "part", "file", "full"}]
      /\ \A i \in Ids : dirs'[i] = IF i \in Restorable THEN "full" ELSE "none"
  BY DEF Open
<1>4. wiped' \subseteq Ids /\ open' \subseteq Stores /\ s \notin open /\ open' = open \cup {s}
  BY <1>1 DEF Open, Shape
<1>5. \A i \in Ids : Lost(i) => Lost(i)'
  BY DEF Lost, Open
<1>6. ASSUME NEW i \in Ids, dirs[i] = "full" PROVE i \in Restorable \/ Lost(i)'
  <2>1. meta[i].until \in Nat /\ clock \in Nat
    BY <1>1 DEF Shape, MetaRecord
  <2>. QED  BY <1>6, <2>1 DEF Restorable, Lost, Open
<1>7. \A i \in Ids : Fresh(i) => i \notin Restorable
  BY <1>1 DEF Restorable, IdsOK
<1>8. Gentle({})
  BY <1>1, <1>2, <1>3, <1>4, <1>5, <1>6 DEF Gentle, Restorable
<1>9. IdsOK'
  <2>1. \A t \in Stores \ open' : \A i \in Ids : records'[t][i] = "none"
    BY <1>1, <1>2, <1>4 DEF IdsOK
  <2>2. \A i \in Ids : i > used' => dirs'[i] = "none" /\ Fresh(i)'
    BY <1>1, <1>3, <1>7 DEF IdsOK, Fresh
  <2>3. \A i \in Ids : IF Fresh(i)' THEN dirs'[i] # "full" /\ \A t \in Stores : records'[t][i] = "none"
                                    ELSE dirs'[i] \in {"none", "full"}
    BY <1>1, <1>2, <1>3, <1>7 DEF IdsOK, Fresh
  <2>4. \A t \in Stores : \A i \in Ids :
          /\ records'[t][i] = "missing" => dirs'[i] = "none"
          /\ records'[t][i] = "expired" => meta'[i].until <= clock'
    BY <1>1, <1>2, <1>3 DEF IdsOK, Restorable
  <2>5. \A x \in served' : ~Fresh(x.id)'
    BY <1>1 DEF IdsOK, Fresh
  <2>. QED  BY <2>1, <2>2, <2>3, <2>4, <2>5 DEF IdsOK
<1>10. ServedToOwner'
  BY <1>1 DEF ServedToOwner
<1>. QED  BY <1>2, <1>3, <1>4, <1>8, <1>9, <1>10

(* Instances go. *)
LEMMA Forgetting ==
  ASSUME IInv, NEW gone \in SUBSET Stores, open' = open \ gone,
         records' \in [Stores -> [Ids -> Statuses]],
         \A t \in Stores : IF t \in gone THEN \A i \in Ids : records'[t][i] = "none"
                                       ELSE records'[t] = records[t],
         UNCHANGED <<dirs, meta, used, clock, served, wiped>>
  PROVE  Gentle({}) /\ IdsOK' /\ ServedToOwner' /\ open' \subseteq Stores
<1>1. Shape /\ IdsOK /\ ServedToOwner
  BY DEF IInv
<1>2. Gentle({})
  BY DEF Gentle, Lost
<1>3. IdsOK'
  BY <1>1 DEF IdsOK, Fresh
<1>4. ServedToOwner'
  BY <1>1 DEF ServedToOwner
<1>. QED  BY <1>1, <1>2, <1>3, <1>4 DEF Shape

-----------------------------------------------------------------------------
(* The steps.                                                              *)

LEMMA Typed ==
  ASSUME Shape, NEW j \in Jobs, NEW new \in JobRecord, Go(j, new)
  PROVE  job' \in [Jobs -> JobRecord] /\ job'[j] = new
BY DEF Go, Shape

LEMMA Parts ==
  ASSUME IInv, NEW j \in Jobs
  PROVE  /\ Shape /\ IdsOK /\ job[j] \in JobRecord /\ StoreOf[j] \in Stores
         /\ JobOK(j) /\ KeptOK(j) /\ Tracked(j) /\ ListOK(j) /\ Fields(j, job[j])
         /\ job[j].phase \notin {"idle", "done"} => StoreOf[j] \in open
         /\ Mine(j) = MineOf(job[j])
BY StorageAssumption DEF IInv, Shape, JobInv, JobOK, Mine, MineOf

Creators == {"upload", "agent", "mcp", "result"}

(* The record of a call that goes on to its discards. *)
LEMMA Unwinding ==
  ASSUME NEW j \in Jobs, job[j] \in JobRecord, Fields(j, job[j]),
         job[j].phase # "idle", job[j].kind \in Creators,
         NEW out \in {"failed", "unsafe", "ok"}, NEW drop \in SUBSET Ids,
         out = "ok" => job[j].kind = "mcp"
  PROVE  LET new == Unwind(j, out, drop) IN
         /\ new \in JobRecord /\ Fields(j, new) /\ new.kind = job[j].kind
         /\ new.who = job[j].who /\ new.conv = job[j].conv /\ new.out = out
         /\ new.phase \in {"unwind", "done"}
         /\ KeptOf(new) = drop /\ WrittenOf(new) = {}
<1> DEFINE new == Unwind(j, out, drop)
<1>1. /\ new.phase = IF drop = {} THEN "done" ELSE "unwind"
      /\ new.kind = job[j].kind /\ new.who = job[j].who /\ new.conv = job[j].conv
      /\ new.out = out /\ new.id = 0 /\ new.src = job[j].src /\ new.arts = job[j].arts
      /\ new.left = job[j].left /\ new.drop = drop
      /\ new \in JobRecord
  BY DEF Unwind, JobRecord, Phases, Outs
<1> HIDE DEF new
<1>2. Fields(j, new)
  BY <1>1 DEF Fields, Creators, Staging
<1>3. KeptOf(new) = drop /\ WrittenOf(new) = {}
  BY <1>1 DEF KeptOf, WrittenOf, MineOf, Creators
<1>. QED  BY <1>1, <1>2, <1>3 DEF new

(* Staging fails: what was staged before is left to be discarded. *)
LEMMA FailingStage ==
  ASSUME IInv, NEW j \in Jobs, job[j].phase \in {"stage", "write", "manifest", "run", "staged"},
         NEW gone, gone = {}, Gentle(gone), Shape', IdsOK', ServedToOwner',
         Go(j, Unwind(j, "failed", Mine(j))), open' = open, used' = used, UNCHANGED manifests,
         \A i \in Ids : Fresh(i) => Fresh(i)'
  PROVE  IInv'
<1> DEFINE new == Unwind(j, "failed", Mine(j))
<1>1. Shape /\ job[j] \in JobRecord /\ Fields(j, job[j]) /\ Mine(j) = MineOf(job[j]) /\ StoreOf[j] \in open
  BY Parts
<1>2. job[j].kind \in Creators /\ job[j].phase # "idle"
  BY <1>1 DEF Fields, Creators, Staging
<1>3. Mine(j) \in SUBSET Ids
  BY <1>1 DEF MineOf, JobRecord
<1>4. /\ new \in JobRecord /\ Fields(j, new) /\ new.kind = job[j].kind
      /\ new.who = job[j].who /\ new.conv = job[j].conv /\ new.out = "failed"
      /\ new.phase \in {"unwind", "done"}
      /\ KeptOf(new) = Mine(j) /\ WrittenOf(new) = {}
  BY <1>1, <1>2, <1>3, Unwinding
<1>5. Kept(j) = Mine(j) /\ Written(j) = {} /\ job[j].out = "none"
  BY <1>1, <1>2 DEF Kept, KeptOf, Written, WrittenOf, Creators, Fields, JobRecord, Outs
<1> HIDE DEF new
<1>6. Go(j, new)
  BY DEF new
<1>7. JobInv(j)'
  BY <1>1, <1>2, <1>4, <1>5, <1>6, ActingCall, StorageAssumption DEF Creators, Unwritten, Fresh
<1>8. ~Settled(j)
  BY <1>5 DEF Settled
<1>. QED  BY <1>1, <1>4, <1>6, <1>7, <1>8, CallStep, Numbers DEF Unwritten, IInv, Published, Shape, Settled

(* A call that goes to another place, and has out none. *)
LEMMA StageBeginKeeps ==
  ASSUME IInv, NEW j \in Jobs, StageBegin(j)
  PROVE  IInv'
<1>. USE Numbers
<1> DEFINE s == StoreOf[j]
<1>1. Shape /\ IdsOK /\ ServedToOwner /\ job[j] \in JobRecord /\ Fields(j, job[j]) /\ s \in open /\ s \in Stores
  BY Parts DEF StageBegin, IInv
<1>2. /\ UNCHANGED <<meta, open, clock, crashes, manifests, served>>
      /\ wiped' = wiped \cup Strange(s)
      /\ records' = [records EXCEPT ![s] = Cleaned(s)]
      /\ job[j].phase = "stage"
  BY DEF StageBegin, CleanUp, History
<1>3. /\ records' \in [Stores -> [Ids -> Statuses]]
      /\ \A t \in Stores \ {s} : records'[t] = records[t]
      /\ \A i \in Ids : \/ records'[s][i] = records[s][i]
                        \/ records'[s][i] = "expired" /\ i \in Expiring(s)
  <2>1. Cleaned(s) \in [Ids -> Statuses]
    BY <1>1 DEF Cleaned, Shape, Statuses
  <2>. QED  BY <1>1, <1>2, <2>1 DEF Shape, Cleaned
<1>4. wiped' \subseteq Ids
  BY <1>1, <1>2 DEF Shape, Strange
<1>5. ServedToOwner'
  BY <1>1, <1>2 DEF ServedToOwner
<1>6. /\ DirsAfter(s, {}) \in [Ids -> {"none", "part", "file", "full"}]
      /\ \A i \in Ids : \/ DirsAfter(s, {})[i] = dirs[i] /\ i \notin Expiring(s)
                        \/ DirsAfter(s, {})[i] = "none" /\ i \in {} \cup Expiring(s) \cup Strange(s)
  BY <1>1 DEF DirsAfter, Shape, Expiring
<1>7. CASE StageFails(j) /\ dirs' = DirsAfter(s, {}) /\ used' = used
  <2>1. Gentle({}) /\ IdsOK'
    BY <1>7, <1>1, <1>2, <1>3, <1>6, Cleaning DEF Expiring
  <2>2. Shape'
    <3>1. job' \in [Jobs -> JobRecord]
      <4>1. Unwind(j, "failed", Mine(j)) \in JobRecord
        BY <1>1, <1>2, Unwinding, Parts DEF MineOf, Fields, Staging, Creators, JobRecord
      <4>. QED  BY <4>1, <1>7, <1>1, Typed DEF StageFails
    <3>. QED  BY <3>1, <1>1, <1>2, <1>3, <1>4, <1>6, <1>7 DEF Shape
  <2>. QED  BY <1>7, <1>2, <1>5, <2>1, <2>2, FailingStage DEF StageFails, Fresh
<1>8. CASE /\ used < MaxIds /\ used' = used + 1
           /\ dirs' = [DirsAfter(s, {}) EXCEPT ![used + 1] = "part"]
           /\ Go(j, [To(j, "write") EXCEPT !.id = used + 1])
  <2>0. PICK new : new = [To(j, "write") EXCEPT !.id = used + 1]
    OBVIOUS
  <2>1. used + 1 \in Ids /\ used \in Nat
    BY <1>1, <1>8 DEF Shape, Ids
  <2>2. /\ new.phase = "write" /\ new.id = used + 1 /\ new.kind = job[j].kind /\ new.who = job[j].who
        /\ new.conv = job[j].conv /\ new.src = job[j].src /\ new.arts = job[j].arts
        /\ new.left = job[j].left /\ new.drop = job[j].drop /\ new.out = job[j].out
        /\ new \in JobRecord
    BY <1>1, <2>0, <2>1 DEF To, JobRecord, Phases
  <2>3. Fields(j, new)
    BY <2>1, <2>2, <1>1, <1>2 DEF Fields, Staging
  <2>4. /\ \A i \in Ids : \/ dirs'[i] = dirs[i]
                          \/ dirs'[i] = "none" /\ i \in {} \cup Expiring(s) \cup Strange(s)
                          \/ dirs'[i] = "part" /\ i = used + 1 /\ used' = used + 1
        /\ dirs' \in [Ids -> {"none", "part", "file", "full"}]
    BY <1>6, <1>8, <2>1
  <2>5. \A i \in Expiring(s) : dirs'[i] = "none" \/ dirs[i] = "none"
    <3>1. \A i \in Expiring(s) : ~Fresh(i) /\ i \in Ids
      BY <1>1 DEF Expiring, IdsOK
    <3>2. Fresh(used + 1)
      BY <1>1, <2>1 DEF IdsOK
    <3>. QED  BY <3>1, <3>2, <1>6, <1>8
  <2>6. Gentle({}) /\ IdsOK'
    BY <2>4, <2>5, <1>1, <1>2, <1>3, <1>8, Cleaning
  <2>7. Shape'
    BY <1>1, <1>2, <1>3, <1>4, <1>8, <2>1, <2>0, <2>2, <2>4, Typed DEF Shape
  <2>8. Fresh(new.id)'
    BY <1>1, <1>2, <2>1, <2>2 DEF IdsOK, Fresh
  <2>9. KeptOf(new) = Kept(j) /\ WrittenOf(new) = {} /\ Written(j) = {}
    BY <2>2, <1>2 DEF Kept, KeptOf, Written, WrittenOf, MineOf
  <2>10. job[j].kind # "list" /\ job[j].out = "none"
    BY <1>1, <1>2 DEF Fields, Staging, JobRecord, Outs
  <2>11. \A i \in Ids : Fresh(i) => meta'[i].by # j
    BY <1>2, StorageAssumption DEF Fresh
  <2>12. Go(j, new) /\ ~Settled(j) /\ manifests' \subseteq manifests \cup {j}
    BY <1>2, <1>8, <2>0 DEF Settled
  <2>13. JobInv(j)'
    BY <2>1, <2>2, <2>3, <2>6, <2>7, <2>8, <2>9, <2>10, <2>11, <2>12, <1>1, <1>2, <1>8, ActingCall
  <2>14. j \notin manifests'
    BY <1>2, <2>12 DEF IInv, Published
  <2>. QED  BY <1>1, <1>2, <1>5, <1>8, <2>1, <2>2, <2>6, <2>7, <2>12, <2>13, <2>14, CallStep DEF Fresh
<1>. QED  BY <1>7, <1>8 DEF StageBegin

(* The directory of an id that has no manifest yet. *)
LEMMA WritingDir ==
  ASSUME IInv, NEW j \in Jobs, job[j].phase \in Unwritten, NEW d \in {"none", "file"},
         dirs' = [dirs EXCEPT ![job[j].id] = d], UNCHANGED <<meta, records, Outside, served, wiped>>
  PROVE  Gentle({}) /\ IdsOK' /\ ServedToOwner' /\ dirs' \in [Ids -> {"none", "part", "file", "full"}]
<1>. USE Numbers
<1>1. Shape /\ IdsOK /\ ServedToOwner /\ job[j] \in JobRecord /\ JobOK(j) /\ Fields(j, job[j])
  BY Parts DEF IInv
<1>2. job[j].id \in Ids /\ Fresh(job[j].id) /\ job[j].id <= used
  BY <1>1 DEF JobOK, Fields, JobRecord, Unwritten
<1>3. /\ dirs' \in [Ids -> {"none", "part", "file", "full"}]
      /\ \A i \in Ids : dirs'[i] = dirs[i] \/ (dirs'[i] = d /\ Fresh(i) /\ i <= used)
  BY <1>1, <1>2 DEF Shape
<1>4. Gentle({})
  BY <1>3 DEF Gentle, Lost, Outside
<1>5. IdsOK'
  <2>1. \A i \in Ids : Fresh(i)' = Fresh(i)
    BY DEF Fresh
  <2>2. \A t \in Stores : \A i \in Ids : records'[t][i] = "missing" => dirs'[i] = "none"
    BY <1>1, <1>3 DEF IdsOK, Outside
  <2>3. \A i \in Ids : i > used' => dirs'[i] = "none" /\ Fresh(i)'
    BY <1>1, <1>3, <2>1 DEF IdsOK, Outside, Shape
  <2>4. \A i \in Ids : IF Fresh(i)' THEN dirs'[i] # "full" /\ \A t \in Stores : records'[t][i] = "none"
                                    ELSE dirs'[i] \in {"none", "full"}
    BY <1>1, <1>3, <2>1 DEF IdsOK
  <2>5. /\ \A t \in Stores \ open' : \A i \in Ids : records'[t][i] = "none"
        /\ \A t \in Stores : \A i \in Ids : records'[t][i] = "expired" => meta'[i].until <= clock'
    BY <1>1 DEF IdsOK, Outside
  <2>6. \A x \in served' : ~Fresh(x.id)'
    BY <1>1, <2>1 DEF IdsOK, Shape
  <2>. QED  BY <2>2, <2>3, <2>4, <2>5, <2>6 DEF IdsOK
<1>6. ServedToOwner'
  BY <1>1 DEF ServedToOwner
<1>. QED  BY <1>3, <1>4, <1>5, <1>6

LEMMA StageWriteKeeps ==
  ASSUME IInv, NEW j \in Jobs, StageWrite(j)
  PROVE  IInv'
<1>1. Shape /\ job[j] \in JobRecord /\ JobOK(j) /\ Fields(j, job[j]) /\ StoreOf[j] \in open
  BY Parts DEF StageWrite
<1>2. UNCHANGED <<meta, records, Outside, served, wiped>> /\ job[j].phase = "write"
  BY DEF StageWrite
<1>3. CASE dirs' = [dirs EXCEPT ![job[j].id] = "none"] /\ StageFails(j)
  <2>1. Gentle({}) /\ IdsOK' /\ ServedToOwner' /\ dirs' \in [Ids -> {"none", "part", "file", "full"}]
    BY <1>2, <1>3, WritingDir DEF Unwritten
  <2>2. Shape'
    <3>1. Unwind(j, "failed", Mine(j)) \in JobRecord
      BY <1>1, <1>2, Unwinding, Parts DEF MineOf, Fields, Staging, Creators, JobRecord
    <3>2. job' \in [Jobs -> JobRecord]
      BY <3>1, <1>3, <1>1, Typed DEF StageFails
    <3>. QED  BY <3>2, <2>1, <1>1, <1>2 DEF Shape, Outside
  <2>. QED  BY <1>2, <1>3, <2>1, <2>2, FailingStage DEF StageFails, Fresh, Outside
<1>4. CASE dirs' = [dirs EXCEPT ![job[j].id] = "file"] /\ Go(j, To(j, "manifest"))
  <2>0. PICK new : new = To(j, "manifest")
    OBVIOUS
  <2>1. Gentle({}) /\ IdsOK' /\ ServedToOwner' /\ dirs' \in [Ids -> {"none", "part", "file", "full"}]
    BY <1>2, <1>4, WritingDir DEF Unwritten
  <2>2. /\ new.phase = "manifest" /\ new.id = job[j].id /\ new.kind = job[j].kind /\ new.who = job[j].who
        /\ new.conv = job[j].conv /\ new.src = job[j].src /\ new.arts = job[j].arts
        /\ new.left = job[j].left /\ new.drop = job[j].drop /\ new.out = job[j].out
        /\ new \in JobRecord
    BY <1>1, <2>0 DEF To, JobRecord, Phases
  <2>3. Fields(j, new)
    BY <2>2, <1>1, <1>2 DEF Fields, Staging
  <2>4. Shape'
    BY <1>1, <1>2, <1>4, <2>0, <2>1, <2>2, Typed DEF Shape, Outside
  <2>5. KeptOf(new) = Kept(j) /\ WrittenOf(new) = {} /\ Written(j) = {}
    BY <2>2, <1>2 DEF Kept, KeptOf, Written, WrittenOf, MineOf
  <2>6. job[j].kind # "list" /\ job[j].out = "none"
    BY <1>1, <1>2 DEF Fields, Staging, JobRecord, Outs
  <2>7. \A i \in Ids : Fresh(i) => meta'[i].by # j
    BY <1>2, StorageAssumption DEF Fresh
  <2>8. Fresh(new.id)' /\ new.id <= used' /\ used' = used /\ open' = open /\ manifests' = manifests
    BY <2>2, <1>1, <1>2 DEF JobOK, Fresh, Outside, Unwritten
  <2>9. Go(j, new) /\ ~Settled(j) /\ j \notin manifests'
    BY <1>2, <1>4, <2>0, <2>8 DEF Settled, IInv, Published
  <2>10. JobInv(j)'
    BY <2>1, <2>2, <2>3, <2>4, <2>5, <2>6, <2>7, <2>8, <2>9, <1>1, ActingCall
  <2>. QED  BY <1>1, <1>2, <2>1, <2>2, <2>4, <2>8, <2>9, <2>10, CallStep, Numbers
             DEF Fresh, Shape, Unwritten
<1>. QED  BY <1>3, <1>4 DEF StageWrite

(* The manifest makes the id known to those that restore. *)
LEMMA StageManifestKeeps ==
  ASSUME IInv, NEW j \in Jobs, StageManifest(j)
  PROVE  IInv'
<1>. USE Numbers
<1>1. Shape /\ IdsOK /\ ServedToOwner /\ job[j] \in JobRecord /\ JobOK(j) /\ Fields(j, job[j]) /\ StoreOf[j] \in open
  BY Parts DEF StageManifest, IInv
<1>2. UNCHANGED <<records, Outside, served, wiped>> /\ job[j].phase = "manifest"
  BY DEF StageManifest
<1>3. CASE dirs' = [dirs EXCEPT ![job[j].id] = "none"] /\ StageFails(j) /\ UNCHANGED meta
  <2>1. Gentle({}) /\ IdsOK' /\ ServedToOwner' /\ dirs' \in [Ids -> {"none", "part", "file", "full"}]
    BY <1>2, <1>3, WritingDir DEF Unwritten
  <2>2. Shape'
    <3>1. Unwind(j, "failed", Mine(j)) \in JobRecord
      BY <1>1, <1>2, Unwinding, Parts DEF MineOf, Fields, Staging, Creators, JobRecord
    <3>2. job' \in [Jobs -> JobRecord]
      BY <3>1, <1>3, <1>1, Typed DEF StageFails
    <3>. QED  BY <3>2, <2>1, <1>1, <1>2, <1>3 DEF Shape, Outside
  <2>. QED  BY <1>2, <1>3, <2>1, <2>2, FailingStage DEF StageFails, Fresh, Outside
<1>4. CASE /\ dirs' = [dirs EXCEPT ![job[j].id] = "full"] /\ Go(j, To(j, "record"))
           /\ meta' = [meta EXCEPT ![job[j].id] = [owner |-> job[j].who, conv |-> job[j].conv,
                                                   until |-> clock + Retention, by |-> j]]
  <2>1. PICK new : new = To(j, "record")
    OBVIOUS
  <2>2. PICK i : i = job[j].id
    OBVIOUS
  <2>3. i \in Ids /\ Fresh(i) /\ i <= used
    BY <2>2, <1>1, <1>2 DEF JobOK, Fields, JobRecord, Unwritten
  <2>4. /\ new.phase = "record" /\ new.id = i /\ new.kind = job[j].kind /\ new.who = job[j].who
        /\ new.conv = job[j].conv /\ new.src = job[j].src /\ new.arts = job[j].arts
        /\ new.left = job[j].left /\ new.drop = job[j].drop /\ new.out = job[j].out
        /\ new \in JobRecord
    BY <1>1, <2>1, <2>2 DEF To, JobRecord, Phases
  <2>5. job[j].kind # "list" /\ job[j].out = "none" /\ job[j].kind \in Creators
    BY <1>1, <1>2 DEF Fields, Staging, JobRecord, Outs, Creators
  <2>6. Kept(j) = MineOf(job[j]) /\ Written(j) = {} /\ KeptOf(new) = MineOf(job[j]) /\ WrittenOf(new) = {i}
    BY <2>4, <2>5, <1>2 DEF Kept, KeptOf, Written, WrittenOf, MineOf, Creators
  <2>7. i \notin MineOf(job[j])
    <3>1. \A k \in Kept(j) : meta[k].by = j
      BY Parts DEF KeptOK
    <3>. QED  BY <3>1, <2>3, <2>6, StorageAssumption DEF Fresh
  <2>8. Fields(j, new)
    BY <2>4, <2>7, <1>1, <1>2, <2>3 DEF Fields, Staging, MineOf
  <2>9. /\ meta' \in [Ids -> MetaRecord] /\ dirs' \in [Ids -> {"none", "part", "file", "full"}]
        /\ meta'[i] = [owner |-> new.who, conv |-> new.conv, until |-> meta'[i].until, by |-> j]
        /\ dirs'[i] = "full" /\ meta'[i].by = j
        /\ \A k \in Ids \ {i} : meta'[k] = meta[k] /\ dirs'[k] = dirs[k]
    <3>1. clock + Retention \in Nat
      BY <1>1, StorageAssumption DEF Shape
    <3>2. [owner |-> job[j].who, conv |-> job[j].conv, until |-> clock + Retention, by |-> j] \in MetaRecord
      BY <3>1, <1>1 DEF JobRecord, MetaRecord
    <3>. QED  BY <3>2, <1>1, <1>4, <2>2, <2>3, <2>4 DEF Shape
  <2>10. Shape'
    BY <1>1, <1>2, <1>4, <2>1, <2>4, <2>9, Typed DEF Shape, Outside
  <2>11. /\ ~Fresh(i)' /\ \A k \in Ids \ {i} : Fresh(k)' = Fresh(k)
         /\ \A k \in Ids : ~Fresh(k) => k # i
    BY <2>3, <2>9, StorageAssumption DEF Fresh
  <2>12. Gentle({})
    BY <2>9, <2>11, <1>2 DEF Gentle, Lost, Outside
  <2>13. IdsOK'
    <3>1. \A t \in Stores : records[t][i] = "none"
      BY <2>3, <1>1 DEF IdsOK
    <3>2. \A k \in Ids : k > used' => dirs'[k] = "none" /\ Fresh(k)'
      BY <1>1, <1>2, <2>3, <2>9, <2>11 DEF IdsOK, Outside, Shape
    <3>3. \A k \in Ids : IF Fresh(k)' THEN dirs'[k] # "full" /\ \A t \in Stores : records'[t][k] = "none"
                                      ELSE dirs'[k] \in {"none", "full"}
      BY <1>1, <1>2, <2>9, <2>11 DEF IdsOK
    <3>4. \A t \in Stores : \A k \in Ids : /\ records'[t][k] = "missing" => dirs'[k] = "none"
                                           /\ records'[t][k] = "expired" => meta'[k].until <= clock'
      BY <1>1, <1>2, <2>9, <3>1 DEF IdsOK, Outside
    <3>5. /\ \A t \in Stores \ open' : \A k \in Ids : records'[t][k] = "none"
          /\ \A x \in served' : ~Fresh(x.id)'
      BY <1>1, <1>2, <2>11 DEF IdsOK, Outside, Shape
    <3>. QED  BY <3>2, <3>3, <3>4, <3>5 DEF IdsOK
  <2>14. ServedToOwner'
    BY <1>1, <1>2, <2>9, <2>11 DEF ServedToOwner, IdsOK, Shape
  <2>15. Go(j, new) /\ ~Settled(j) /\ j \notin manifests' /\ used' = used /\ open' = open /\ manifests' = manifests
    BY <1>2, <1>4, <2>1 DEF Settled, IInv, Published, Outside
  <2>16. \A k \in Ids : Fresh(k) => meta'[k].by # j \/ k \in WrittenOf(new)
    BY <2>6, <2>9, StorageAssumption DEF Fresh
  <2>17. JobInv(j)'
    BY <2>4, <2>5, <2>6, <2>8, <2>9, <2>10, <2>12, <2>15, <2>16, <1>1, ActingCall DEF Unwritten
  <2>18. \A k \in Ids : Fresh(k) => \/ Fresh(k)'
                                    \/ meta'[k].by = j /\ job[j].phase \in Unwritten /\ k = job[j].id
    BY <2>2, <2>9, <2>11, <1>2 DEF Unwritten
  <2>. QED  BY <1>1, <1>2, <2>4, <2>10, <2>12, <2>13, <2>14, <2>15, <2>17, <2>18, CallStep
             DEF Unwritten, Shape
<1>. QED  BY <1>3, <1>4 DEF StageManifest

(* The store records the id: it becomes the source of the call or one of   *)
(* its files.                                                              *)
LEMMA StageRecordKeeps ==
  ASSUME IInv, NEW j \in Jobs, StageRecord(j)
  PROVE  IInv'
<1>. USE Numbers
<1>1. /\ Shape /\ IdsOK /\ ServedToOwner /\ job[j] \in JobRecord /\ JobOK(j) /\ Fields(j, job[j])
      /\ StoreOf[j] \in open /\ StoreOf[j] \in Stores /\ KeptOK(j)
  BY Parts DEF StageRecord, IInv
<1>2. UNCHANGED <<dirs, meta, Outside, served, wiped>> /\ job[j].phase = "record"
  BY DEF StageRecord
<1>3. PICK i : i = job[j].id
  OBVIOUS
<1>4. i \in Ids /\ i \notin job[j].arts \cup {job[j].src} /\ i # 0
  BY <1>1, <1>2, <1>3 DEF Fields, JobRecord
<1>5. job[j].kind \in Creators /\ job[j].out = "none"
  BY <1>1, <1>2 DEF Fields, Staging, JobRecord, Outs, Creators
<1>6. Kept(j) = MineOf(job[j]) /\ Written(j) = {i}
  BY <1>2, <1>3, <1>5 DEF Kept, KeptOf, Written, WrittenOf, Creators
<1>7. meta[i].by = j /\ ~Fresh(i)
  BY <1>1, <1>6, StorageAssumption DEF KeptOK, Fresh
<1>8. /\ records' \in [Stores -> [Ids -> Statuses]] /\ records'[StoreOf[j]][i] = "available"
      /\ \A t \in Stores : \A k \in Ids : records'[t][k] = records[t][k]
                                          \/ (k = i /\ t = StoreOf[j] /\ records'[t][k] = "available")
  <2>1. records' = [records EXCEPT ![StoreOf[j]][i] = "available"]
    BY <1>3 DEF StageRecord
  <2>. QED  BY <2>1, <1>1, <1>4 DEF Shape, Statuses
<1>9. PICK new \in JobRecord :
        /\ Go(j, new) /\ Fields(j, new) /\ new.kind # "list"
        /\ new.who = job[j].who /\ new.conv = job[j].conv
        /\ KeptOf(new) = MineOf(job[j]) \cup {i} /\ WrittenOf(new) = {}
        /\ new.phase \in {"done", "run", "stage", "staged"} /\ new.out \in {"none", "ok"}
  <2> DEFINE left == IF job[j].left = 0 THEN 0 ELSE job[j].left - 1
             kept == [job[j] EXCEPT !.arts = @ \cup {i}, !.id = 0]
  <2>1. left \in Nat
    BY <1>1 DEF JobRecord
  <2>2. CASE job[j].kind = "upload" /\ Go(j, [kept EXCEPT !.phase = "done", !.out = "ok"])
    <3>1. PICK new : new = [kept EXCEPT !.phase = "done", !.out = "ok"]
      OBVIOUS
    <3>2. /\ new.phase = "done" /\ new.id = 0 /\ new.kind = "upload" /\ new.who = job[j].who
          /\ new.conv = job[j].conv /\ new.src = job[j].src /\ new.arts = job[j].arts \cup {i}
          /\ new.left = job[j].left /\ new.drop = job[j].drop /\ new.out = "ok"
          /\ new \in JobRecord
      BY <1>1, <2>2, <3>1, <1>4 DEF JobRecord, Phases, Outs
    <3>3. Fields(j, new)
      BY <3>2, <2>2, <1>1, <1>2, <1>4 DEF Fields, Staging
    <3>4. KeptOf(new) = MineOf(job[j]) \cup {i} /\ WrittenOf(new) = {}
      BY <3>2, <1>4 DEF KeptOf, WrittenOf, MineOf
    <3>. QED  BY <2>2, <3>1, <3>2, <3>3, <3>4
  <2>3. CASE /\ job[j].kind = "mcp" /\ job[j].src = 0
             /\ Go(j, [To(j, "run") EXCEPT !.src = i, !.id = 0])
    <3>1. PICK new : new = [To(j, "run") EXCEPT !.src = i, !.id = 0]
      OBVIOUS
    <3>2. /\ new.phase = "run" /\ new.id = 0 /\ new.kind = "mcp" /\ new.who = job[j].who
          /\ new.conv = job[j].conv /\ new.src = i /\ new.arts = job[j].arts
          /\ new.left = job[j].left /\ new.drop = job[j].drop /\ new.out = job[j].out
          /\ new \in JobRecord
      BY <1>1, <2>3, <3>1, <1>4 DEF JobRecord, Phases, Outs, To
    <3>3. job[j].arts = {}
      BY <2>3, <1>1, <1>2 DEF Fields, Staging
    <3>4. Fields(j, new)
      <4>1. /\ new.kind \in Kinds[j] \ {"none"} /\ new.conv = NoConversation
            /\ new.arts = {} /\ new.src # 0 /\ new.out = "none" /\ new.kind = "mcp" /\ new.phase = "run"
        BY <3>2, <3>3, <2>3, <1>1, <1>2, <1>4, <1>5 DEF Fields
      <4>. QED  BY <4>1 DEF Fields, Staging
    <3>5. KeptOf(new) = MineOf(job[j]) \cup {i} /\ WrittenOf(new) = {}
      BY <3>2, <2>3, <1>4 DEF KeptOf, WrittenOf, MineOf
    <3>. QED  BY <2>3, <3>1, <3>2, <3>4, <3>5, <1>5
  <2>4. CASE /\ job[j].kind # "upload" /\ (job[j].kind = "mcp" => job[j].src # 0)
             /\ Go(j, [kept EXCEPT !.left = left, !.phase = IF left > 0 THEN "stage" ELSE "staged"])
    <3>1. PICK new : new = [kept EXCEPT !.left = left, !.phase = IF left > 0 THEN "stage" ELSE "staged"]
      OBVIOUS
    <3>2. /\ new.phase \in {"stage", "staged"} /\ new.id = 0 /\ new.kind = job[j].kind /\ new.who = job[j].who
          /\ new.conv = job[j].conv /\ new.src = job[j].src /\ new.arts = job[j].arts \cup {i}
          /\ new.left = left /\ new.drop = job[j].drop /\ new.out = job[j].out
          /\ new \in JobRecord
      BY <1>1, <2>1, <3>1, <1>4 DEF JobRecord, Phases, Outs
    <3>3. Fields(j, new)
      BY <3>2, <2>4, <1>1, <1>2, <1>4, <1>5 DEF Fields, Staging, Creators
    <3>4. KeptOf(new) = MineOf(job[j]) \cup {i} /\ WrittenOf(new) = {}
      BY <3>2, <1>4, <1>5 DEF KeptOf, WrittenOf, MineOf, Creators
    <3>. QED  BY <2>4, <3>1, <3>2, <3>3, <3>4, <1>5 DEF Creators
  <2>. QED  BY <2>2, <2>3, <2>4, <1>3 DEF StageRecord
<1>10. Shape'
  BY <1>1, <1>2, <1>8, <1>9, Typed DEF Shape, Outside
<1>11. Gentle({})
  BY <1>2, <1>8 DEF Gentle, Lost, Outside
<1>12. IdsOK'
  <2>1. \A k \in Ids : Fresh(k)' = Fresh(k)
    BY <1>2 DEF Fresh
  <2>2. \A k \in Ids : Fresh(k) => k # i
    BY <1>7
  <2>3. \A t \in Stores \ open' : t # StoreOf[j]
    BY <1>1, <1>2 DEF Outside
  <2>4. \A t \in Stores \ open' : \A k \in Ids : records'[t][k] = "none"
    BY <1>1, <1>2, <1>8, <2>3 DEF IdsOK, Outside
  <2>5. \A k \in Ids : k > used' => dirs'[k] = "none" /\ Fresh(k)'
    BY <1>1, <1>2, <2>1 DEF IdsOK, Outside
  <2>6. \A k \in Ids : IF Fresh(k)' THEN dirs'[k] # "full" /\ \A t \in Stores : records'[t][k] = "none"
                                    ELSE dirs'[k] \in {"none", "full"}
    BY <1>1, <1>2, <1>8, <2>1, <2>2 DEF IdsOK
  <2>7. \A t \in Stores : \A k \in Ids : /\ records'[t][k] = "missing" => dirs'[k] = "none"
                                         /\ records'[t][k] = "expired" => meta'[k].until <= clock'
    BY <1>1, <1>2, <1>8 DEF IdsOK, Outside
  <2>8. \A x \in served' : ~Fresh(x.id)'
    BY <1>1, <1>2, <2>1 DEF IdsOK, Shape
  <2>. QED  BY <2>4, <2>5, <2>6, <2>7, <2>8 DEF IdsOK
<1>13. ServedToOwner'
  BY <1>1, <1>2 DEF ServedToOwner
<1>14. ~Settled(j) /\ j \notin manifests' /\ used' = used /\ open' = open /\ manifests' = manifests
  BY <1>2 DEF Settled, IInv, Published, Outside
<1>15. \A k \in Ids : Fresh(k) => meta'[k].by # j /\ Fresh(k)'
  BY <1>2, StorageAssumption DEF Fresh
<1>16. JobInv(j)'
  BY <1>1, <1>5, <1>6, <1>8, <1>9, <1>10, <1>11, <1>14, <1>15, ActingCall DEF Unwritten
<1>. QED  BY <1>1, <1>9, <1>10, <1>11, <1>12, <1>13, <1>14, <1>15, <1>16, CallStep DEF Unwritten, Shape

(* A call that writes no file moves on. *)
LEMMA Proceeding ==
  ASSUME IInv, Shape', IdsOK', ServedToOwner',
         NEW j \in Jobs, NEW new \in JobRecord, NEW gone, Gentle(gone), Go(j, new),
         Fields(j, new), new.kind = "list" => ListOK(j)', new.phase \notin Staging \ {"stage"},
         ~Settled(j), \A i \in gone : meta[i].by = j,
         UNCHANGED <<meta, used>>, open \subseteq open',
         job[j].phase # "record", KeptOf(new) \subseteq Kept(j) \ gone,
         KeptOf(new) # {} => new.who = job[j].who /\ new.conv = job[j].conv,
         \/ Excused(j)'
         \/ /\ Kept(j) \ gone \subseteq KeptOf(new)
            /\ \A i \in gone \cap Ids : dirs'[i] = "none"
            /\ job[j].out \in {"lost", "unsafe"} => new.out \in {"lost", "unsafe"},
         new.phase \notin {"idle", "done"} => StoreOf[j] \in open',
         new.phase = "discard" /\ new.out = "failed" => LostOne(j)',
         manifests' \subseteq manifests \cup {j}, j \in manifests' => Settled(j)'
  PROVE  IInv'
<1>1. WrittenOf(new) = {} /\ Written(j) = {} /\ new.phase \notin Unwritten
  BY DEF Written, WrittenOf, Staging, Unwritten
<1>2. \A i \in Ids : Fresh(i) => Fresh(i)' /\ meta'[i].by # j
  BY StorageAssumption DEF Fresh
<1>3. used' = used /\ used \in Nat
  BY Numbers DEF IInv, Shape
<1>4. JobInv(j)'
  BY <1>1, <1>2, ActingCall
<1>. QED  BY <1>1, <1>2, <1>3, <1>4, CallStep

(* A step that moves no call. *)
LEMMA NoCallStep ==
  ASSUME IInv, Shape', IdsOK', ServedToOwner', Gentle({}),
         UNCHANGED <<meta, used, job, manifests>>,
         \A k \in Jobs : job[k].phase \notin {"idle", "done"} => StoreOf[k] \in open'
  PROVE  IInv'
<1>1. ASSUME NEW k \in Jobs PROVE JobInv(k)'
  <2>1. \A i \in Ids : Fresh(i) => meta'[i].by # k
    BY StorageAssumption DEF Fresh
  <2>2. job[k].phase \in Unwritten => Fresh(job[k].id)'
    BY Parts DEF JobOK, Fresh
  <2>3. used <= used'
    BY Numbers DEF IInv, Shape
  <2>. QED  BY <2>1, <2>2, <2>3, OtherCall
<1>2. IdsApart' /\ Published'
  BY DEF IInv, IdsApart, Published, Settled
<1>. QED  BY <1>1, <1>2 DEF IInv

(* A file of a call that its store does not serve is lost. *)
LEMMA UnreadableLost ==
  ASSUME IInv, NEW s \in open, NEW i \in Ids, NEW who, NEW conv, ~Readable(s, i, who, conv),
         meta[i].owner = who, meta[i].conv \in {NoConversation, conv},
         dirs[i] = "full" \/ Lost(i), CleanUp(s), UNCHANGED <<meta, clock>>
  PROVE  Lost(i)'
<1>1. Shape /\ IdsOK /\ s \in Stores
  BY DEF IInv, Shape
<1>2. SUFFICES ASSUME ~Lost(i), dirs[i] = "full" PROVE i \in wiped'
  BY DEF Lost, CleanUp
<1>3. i \notin Expiring(s)
  BY <1>2 DEF Expiring, Lost
<1>4. records[s][i] \notin {"missing", "expired"}
  BY <1>1, <1>2 DEF IdsOK, Lost
<1>5. records[s][i] # "available"
  BY <1>2, <1>3 DEF Readable, RecordForContext, Cleaned, Verified
<1>6. records[s][i] = "none"
  BY <1>1, <1>4, <1>5 DEF Shape, Statuses
<1>. QED  BY <1>2, <1>6 DEF CleanUp, Strange

LEMMA Untouched ==
  ASSUME Shape, UNCHANGED <<dirs, meta, records, open, used, clock, crashes, served, wiped>>,
         NEW j \in Jobs, NEW new \in JobRecord, Go(j, new), manifests' \subseteq Jobs
  PROVE  Shape'
BY Typed DEF Shape

LEMMA IdleCall ==
  ASSUME IInv, NEW j \in Jobs, job[j].phase = "idle"
  PROVE  /\ job[j].kind = "none" /\ job[j].who = "nobody" /\ job[j].conv = NoConversation
         /\ job[j].id = 0 /\ job[j].src = 0 /\ job[j].arts = {} /\ job[j].left = 0
         /\ job[j].drop = {} /\ job[j].out = "none"
         /\ job[j] \in JobRecord /\ Shape /\ StoreOf[j] \in Stores
         /\ Kept(j) = {} /\ ~Settled(j) /\ j \notin manifests
<1>1. job[j] = Idle /\ job[j] \in JobRecord /\ Shape /\ StoreOf[j] \in Stores
  BY Parts DEF Fields
<1>. QED  BY <1>1 DEF Idle, Kept, KeptOf, Settled, IInv, Published

(* upload_attachment *)
LEMMA UploadBeginKeeps ==
  ASSUME IInv, NEW j \in Jobs, UploadBegin(j)
  PROVE  IInv'
<1>1. Shape /\ job[j] \in JobRecord /\ Fields(j, job[j]) /\ job[j].phase = "idle" /\ StoreOf[j] \in open
      /\ "upload" \in Kinds[j]
  BY Parts DEF UploadBegin
<1>2. /\ job[j].kind = "none" /\ job[j].who = "nobody" /\ job[j].conv = NoConversation
      /\ job[j].id = 0 /\ job[j].src = 0 /\ job[j].arts = {} /\ job[j].left = 0
      /\ job[j].drop = {} /\ job[j].out = "none"
      /\ Kept(j) = {} /\ ~Settled(j) /\ j \notin manifests
  BY <1>1, IdleCall
<1>3. UNCHANGED <<dirs, meta, records, open, used, clock, crashes, manifests, served, wiped>>
  BY DEF UploadBegin, Outside
<1>4. PICK who \in Subjects, conv \in Homes :
         Go(j, [To(j, "stage") EXCEPT !.kind = "upload", !.who = who, !.conv = conv])
  BY DEF UploadBegin
<1>5. PICK new : new = [To(j, "stage") EXCEPT !.kind = "upload", !.who = who, !.conv = conv]
  OBVIOUS
<1>6. /\ new.phase = "stage" /\ new.kind = "upload" /\ new.who = who /\ new.conv = conv
      /\ new.id = 0 /\ new.src = 0 /\ new.arts = {} /\ new.left = 0 /\ new.drop = {} /\ new.out = "none"
      /\ new \in JobRecord
  BY <1>1, <1>2, <1>4, <1>5 DEF To, JobRecord, Phases, AllKinds, Owners, Bindings
<1>7. Fields(j, new)
  BY <1>1, <1>6 DEF Fields, Staging
<1>8. Kept(j) = {} /\ KeptOf(new) = {}
  BY <1>2, <1>6 DEF KeptOf, MineOf
<1>9. Gentle({}) /\ IdsOK' /\ ServedToOwner'
  BY <1>3, Aside
<1>10. Go(j, new) /\ Shape'
  BY <1>1, <1>3, <1>4, <1>5, <1>6, Untouched DEF Shape
<1>11. ~Settled(j) /\ j \notin manifests' /\ job[j].out = "none"
  BY <1>2, <1>3
<1>12. new.phase \notin Staging \ {"stage"} /\ new.phase \notin {"discard", "idle", "done"} /\ new.kind # "list"
  BY <1>6 DEF Staging
<1>. QED  BY <1>1, <1>3, <1>6, <1>7, <1>8, <1>9, <1>10, <1>11, <1>12, Proceeding

(* A confirmed agent call builds its container, and a store with it. *)
LEMMA AgentBeginKeeps ==
  ASSUME IInv, NEW j \in Jobs, AgentBegin(j)
  PROVE  IInv'
<1>1. /\ job[j].phase = "idle" /\ "agent" \in Kinds[j] /\ Open(StoreOf[j])
      /\ UNCHANGED <<meta, used, clock, crashes, manifests, served>>
  BY DEF AgentBegin, History
<1>2. PICK who \in Subjects, conv \in Homes \ {NoConversation} :
        Go(j, [To(j, "run") EXCEPT !.kind = "agent", !.who = who, !.conv = conv])
  BY DEF AgentBegin
<1>3. PICK new : new = [To(j, "run") EXCEPT !.kind = "agent", !.who = who, !.conv = conv]
  OBVIOUS
<1>4. /\ new.phase = "run" /\ new.kind = "agent" /\ new.who = who /\ new.conv = conv
      /\ new.id = 0 /\ new.src = 0 /\ new.arts = {} /\ new.left = 0 /\ new.drop = {} /\ new.out = "none"
      /\ new \in JobRecord
  <2>1. /\ job[j].kind = "none" /\ job[j].who = "nobody" /\ job[j].conv = NoConversation
        /\ job[j].id = 0 /\ job[j].src = 0 /\ job[j].arts = {} /\ job[j].left = 0
        /\ job[j].drop = {} /\ job[j].out = "none" /\ job[j] \in JobRecord
    BY <1>1, IdleCall
  <2>. QED  BY <2>1, <1>2, <1>3 DEF To, JobRecord, Phases, AllKinds, Owners, Bindings
<1>5. Fields(j, new)
  BY <1>1, <1>4 DEF Fields, Staging
<1>6. Kept(j) = {} /\ KeptOf(new) = {} /\ ~Settled(j) /\ j \notin manifests' /\ job[j].phase # "record"
  BY <1>1, <1>4, IdleCall DEF KeptOf, MineOf
<1>7. /\ Gentle({}) /\ IdsOK' /\ ServedToOwner'
      /\ dirs' \in [Ids -> {"none", "part", "file", "full"}]
      /\ records' \in [Stores -> [Ids -> Statuses]]
      /\ wiped' \subseteq Ids /\ open' \subseteq Stores
  BY <1>1, IdleCall, Opening
<1>8. Go(j, new) /\ Shape'
  BY <1>1, <1>2, <1>3, <1>4, <1>7, IdleCall, Typed DEF Shape
<1>9. StoreOf[j] \in open' /\ open \subseteq open'
  BY <1>1 DEF Open
<1>10. new.phase \notin Staging \ {"stage"} /\ new.phase # "discard" /\ new.kind # "list" /\ job[j].out = "none"
  BY <1>1, <1>4, IdleCall DEF Staging
<1>. QED  BY <1>1, <1>4, <1>5, <1>6, <1>7, <1>8, <1>9, <1>10, Proceeding

(* download_attachment *)
LEMMA DownloadAttachmentKeeps ==
  ASSUME IInv, NEW j \in Jobs, DownloadAttachment(j)
  PROVE  IInv'
<1>1. Shape /\ job[j] \in JobRecord /\ Fields(j, job[j]) /\ job[j].phase = "idle" /\ StoreOf[j] \in open /\ "read" \in Kinds[j]
  BY Parts DEF DownloadAttachment
<1>2. /\ job[j].kind = "none" /\ job[j].who = "nobody" /\ job[j].conv = NoConversation
      /\ job[j].id = 0 /\ job[j].src = 0 /\ job[j].arts = {} /\ job[j].left = 0
      /\ job[j].drop = {} /\ job[j].out = "none"
      /\ Kept(j) = {} /\ ~Settled(j) /\ j \notin manifests
  BY <1>1, IdleCall
<1>3. UNCHANGED <<meta, Outside>>
  BY DEF DownloadAttachment
<1>4. PICK i \in 1..used, who \in Subjects, conv \in Conversations :
        /\ Read(StoreOf[j], i, who, conv)
        /\ Go(j, [Ended(j, IF Readable(StoreOf[j], i, who, conv) THEN "ok" ELSE "failed") EXCEPT !.kind = "read"])
  BY DEF DownloadAttachment
<1>5. PICK new : new = [Ended(j, IF Readable(StoreOf[j], i, who, conv) THEN "ok" ELSE "failed") EXCEPT !.kind = "read"]
  OBVIOUS
<1>6. /\ new.phase = "done" /\ new.kind = "read" /\ new.who = "nobody" /\ new.conv = NoConversation
      /\ new.id = 0 /\ new.src = 0 /\ new.arts = {} /\ new.left = 0 /\ new.drop = {}
      /\ new.out \in {"ok", "failed"} /\ new \in JobRecord
  BY <1>1, <1>2, <1>5 DEF Ended, JobRecord, Phases, AllKinds, Owners, Bindings, Outs
<1>7. Fields(j, new)
  BY <1>1, <1>6 DEF Fields, Staging
<1>8. Kept(j) = {} /\ KeptOf(new) = {}
  BY <1>2, <1>6 DEF KeptOf, MineOf
<1>9. i \in Ids
  BY <1>1, Numbers DEF Shape, Ids
<1>10. /\ Gentle({}) /\ IdsOK' /\ ServedToOwner'
       /\ dirs' \in [Ids -> {"none", "part", "file", "full"}]
       /\ records' \in [Stores -> [Ids -> Statuses]]
       /\ wiped' \subseteq Ids
       /\ \A x \in served' : x.id \in Ids
  BY <1>1, <1>3, <1>4, <1>9, Reading
<1>11. Go(j, new) /\ Shape'
  BY <1>1, <1>3, <1>4, <1>5, <1>6, <1>10, Typed DEF Shape, Outside
<1>12. ~Settled(j) /\ j \notin manifests' /\ job[j].out = "none" /\ UNCHANGED <<meta, used, open, manifests>>
  BY <1>2, <1>3 DEF Outside
<1>13. new.phase \notin Staging \ {"stage"} /\ new.kind # "list"
  BY <1>6 DEF Staging
<1>. QED  BY <1>1, <1>6, <1>7, <1>8, <1>10, <1>11, <1>12, <1>13, Proceeding

(* _execute_mcp_call begins with a store of its own. *)
LEMMA McpBeginKeeps ==
  ASSUME IInv, NEW j \in Jobs, McpBegin(j)
  PROVE  IInv'
<1>1. /\ job[j].phase = "idle" /\ "mcp" \in Kinds[j] /\ Open(StoreOf[j])
      /\ UNCHANGED <<meta, used, clock, crashes, manifests, served>>
  BY DEF McpBegin, History
<1>2. PICK who \in Subjects : Go(j, [To(j, "stage") EXCEPT !.kind = "mcp", !.who = who])
  BY DEF McpBegin
<1>3. PICK new : new = [To(j, "stage") EXCEPT !.kind = "mcp", !.who = who]
  OBVIOUS
<1>4. /\ new.phase = "stage" /\ new.kind = "mcp" /\ new.who = who /\ new.conv = NoConversation
      /\ new.id = 0 /\ new.src = 0 /\ new.arts = {} /\ new.left = 0 /\ new.drop = {} /\ new.out = "none"
      /\ new \in JobRecord
  <2>1. /\ job[j].kind = "none" /\ job[j].who = "nobody" /\ job[j].conv = NoConversation
        /\ job[j].id = 0 /\ job[j].src = 0 /\ job[j].arts = {} /\ job[j].left = 0
        /\ job[j].drop = {} /\ job[j].out = "none" /\ job[j] \in JobRecord
    BY <1>1, IdleCall
  <2>. QED  BY <2>1, <1>2, <1>3 DEF To, JobRecord, Phases, AllKinds, Owners, Bindings
<1>5. Fields(j, new)
  BY <1>1, <1>4 DEF Fields, Staging
<1>6. Kept(j) = {} /\ KeptOf(new) = {} /\ ~Settled(j) /\ j \notin manifests' /\ job[j].phase # "record"
  BY <1>1, <1>4, IdleCall DEF KeptOf, MineOf
<1>7. /\ Gentle({}) /\ IdsOK' /\ ServedToOwner'
      /\ dirs' \in [Ids -> {"none", "part", "file", "full"}]
      /\ records' \in [Stores -> [Ids -> Statuses]]
      /\ wiped' \subseteq Ids /\ open' \subseteq Stores
  BY <1>1, IdleCall, Opening
<1>8. Go(j, new) /\ Shape'
  BY <1>1, <1>2, <1>3, <1>4, <1>7, IdleCall, Typed DEF Shape
<1>9. StoreOf[j] \in open' /\ open \subseteq open'
  BY <1>1 DEF Open
<1>10. new.phase \notin Staging \ {"stage"} /\ new.phase # "discard" /\ new.kind # "list" /\ job[j].out = "none"
  BY <1>1, <1>4, IdleCall DEF Staging
<1>. QED  BY <1>1, <1>4, <1>5, <1>6, <1>7, <1>8, <1>9, <1>10, Proceeding

(* A worker poll builds its store. *)
LEMMA PollBeginKeeps ==
  ASSUME IInv, NEW j \in Jobs, PollBegin(j)
  PROVE  IInv'
<1>1. /\ job[j].phase = "idle" /\ "result" \in Kinds[j] /\ Open(StoreOf[j])
      /\ UNCHANGED <<meta, used, clock, crashes, manifests, served>>
  BY DEF PollBegin, History
<1>2. PICK i \in Uploaded : Go(j, [To(j, "input") EXCEPT !.kind = "result", !.id = i,
                                     !.who = meta[i].owner, !.conv = meta[i].conv])
  BY DEF PollBegin
<1>3. i \in Ids /\ i # 0 /\ meta[i].owner \in Owners /\ meta[i].conv \in Bindings
  <2>1. Uploaded \subseteq Ids
    BY DEF IInv, Shape, Uploaded, JobRecord
  <2>. QED  BY <1>2, <2>1, Numbers DEF IInv, Shape, MetaRecord
<1>4. PICK new : new = [To(j, "input") EXCEPT !.kind = "result", !.id = i,
                          !.who = meta[i].owner, !.conv = meta[i].conv]
  OBVIOUS
<1>5. /\ new.phase = "input" /\ new.kind = "result" /\ new.who = meta[i].owner /\ new.conv = meta[i].conv
      /\ new.id = i /\ new.src = 0 /\ new.arts = {} /\ new.left = 0 /\ new.drop = {} /\ new.out = "none"
      /\ new \in JobRecord
  <2>1. /\ job[j].kind = "none" /\ job[j].who = "nobody" /\ job[j].conv = NoConversation
        /\ job[j].id = 0 /\ job[j].src = 0 /\ job[j].arts = {} /\ job[j].left = 0
        /\ job[j].drop = {} /\ job[j].out = "none" /\ job[j] \in JobRecord
    BY <1>1, IdleCall
  <2>. QED  BY <2>1, <1>3, <1>4 DEF To, JobRecord, Phases, AllKinds
<1>6. Fields(j, new)
  BY <1>1, <1>3, <1>5 DEF Fields, Staging
<1>7. Kept(j) = {} /\ KeptOf(new) = {} /\ ~Settled(j) /\ j \notin manifests' /\ job[j].phase # "record"
  BY <1>1, <1>5, IdleCall DEF KeptOf, MineOf
<1>8. /\ Gentle({}) /\ IdsOK' /\ ServedToOwner'
      /\ dirs' \in [Ids -> {"none", "part", "file", "full"}]
      /\ records' \in [Stores -> [Ids -> Statuses]]
      /\ wiped' \subseteq Ids /\ open' \subseteq Stores
  BY <1>1, IdleCall, Opening
<1>9. Go(j, new) /\ Shape'
  BY <1>1, <1>2, <1>4, <1>5, <1>8, IdleCall, Typed DEF Shape
<1>10. StoreOf[j] \in open' /\ open \subseteq open'
  BY <1>1 DEF Open
<1>11. new.phase \notin Staging \ {"stage"} /\ new.phase # "discard" /\ new.kind # "list" /\ job[j].out = "none"
  BY <1>1, <1>5, IdleCall DEF Staging
<1>. QED  BY <1>1, <1>5, <1>6, <1>7, <1>8, <1>9, <1>10, <1>11, Proceeding

(* The document of the task is read. *)
LEMMA ReadInputKeeps ==
  ASSUME IInv, NEW j \in Jobs, ReadInput(j)
  PROVE  IInv'
<1>1. /\ Shape /\ job[j] \in JobRecord /\ Fields(j, job[j]) /\ StoreOf[j] \in open
      /\ job[j].phase = "input" /\ UNCHANGED <<meta, Outside>>
  BY Parts DEF ReadInput
<1>2. /\ job[j].kind = "result" /\ job[j].arts = {} /\ job[j].src = 0 /\ job[j].out = "none"
      /\ job[j].id \in Ids /\ "result" \in Kinds[j]
  BY <1>1 DEF Fields, JobRecord, Outs
<1>3. Read(StoreOf[j], job[j].id, job[j].who, job[j].conv)
  BY DEF ReadInput
<1>4. PICK new : new = IF Readable(StoreOf[j], job[j].id, job[j].who, job[j].conv)
                       THEN [To(j, "run") EXCEPT !.id = 0] ELSE Ended(j, "failed")
  OBVIOUS
<1>5. /\ new.phase \in {"run", "done"} /\ new.kind = "result" /\ new.who = job[j].who /\ new.conv = job[j].conv
      /\ new.src = 0 /\ new.arts = {}
      /\ (new.phase = "run" /\ new.out = "none") \/ (new.phase = "done" /\ new.out = "failed")
      /\ new \in JobRecord
  BY <1>1, <1>2, <1>4 DEF To, Ended, JobRecord, Phases, Outs
<1>6. Fields(j, new)
  BY <1>2, <1>5 DEF Fields, Staging
<1>7. Kept(j) = {} /\ KeptOf(new) = {}
  BY <1>1, <1>2, <1>5 DEF Kept, KeptOf, MineOf
<1>8. /\ Gentle({}) /\ IdsOK' /\ ServedToOwner'
      /\ dirs' \in [Ids -> {"none", "part", "file", "full"}]
      /\ records' \in [Stores -> [Ids -> Statuses]]
      /\ wiped' \subseteq Ids
      /\ \A x \in served' : x.id \in Ids
  BY <1>1, <1>2, <1>3, Reading
<1>9. Go(j, new) /\ Shape'
  BY <1>1, <1>4, <1>5, <1>8, Typed DEF Shape, Outside, ReadInput
<1>10. ~Settled(j) /\ j \notin manifests' /\ UNCHANGED <<meta, used, open, manifests>> /\ job[j].phase # "record"
  BY <1>1 DEF Settled, IInv, Published, Outside
<1>11. new.phase \notin Staging \ {"stage"} /\ new.phase # "discard" /\ new.kind # "list"
  BY <1>5 DEF Staging
<1>. QED  BY <1>1, <1>2, <1>5, <1>6, <1>7, <1>8, <1>9, <1>10, <1>11, Proceeding

(* The agent fails, or gives its files. *)
LEMMA RunAgentKeeps ==
  ASSUME IInv, NEW j \in Jobs, RunAgent(j)
  PROVE  IInv'
<1>1. /\ Shape /\ job[j] \in JobRecord /\ Fields(j, job[j]) /\ StoreOf[j] \in open /\ StoreOf[j] \in Stores
      /\ job[j].phase = "run" /\ Mine(j) = MineOf(job[j])
  BY Parts DEF RunAgent
<1>2. UNCHANGED <<dirs, meta, records, open, used, clock, crashes, manifests, served, wiped>>
  BY DEF RunAgent, Outside
<1>3. /\ job[j].kind \in {"agent", "mcp", "result"} /\ job[j].arts = {} /\ job[j].out = "none"
      /\ job[j].kind \in Kinds[j] \ {"none"}
  BY <1>1 DEF Fields, JobRecord, Outs
<1>4. Gentle({}) /\ IdsOK' /\ ServedToOwner'
  BY <1>2, Aside
<1>5. CASE Go(j, Unwind(j, "failed", Mine(j)))
  <2>1. Unwind(j, "failed", Mine(j)) \in JobRecord
    <3>1. Mine(j) \in SUBSET Ids
      BY <1>1 DEF MineOf, JobRecord
    <3>2. job[j].kind \in Creators /\ job[j].phase # "idle"
      BY <1>1, <1>3 DEF Creators
    <3>. QED  BY <1>1, <3>1, <3>2, Unwinding
  <2>2. Shape'
    BY <1>1, <1>2, <1>5, <2>1, Untouched DEF Shape
  <2>. QED  BY <1>1, <1>2, <1>4, <1>5, <2>2, FailingStage DEF Fresh
<1>6. ASSUME NEW n \in 0..MaxArtifacts,
             Go(j, [To(j, IF n > 0 THEN "stage" ELSE "staged") EXCEPT !.left = n])
      PROVE  IInv'
  <2>1. PICK new : new = [To(j, IF n > 0 THEN "stage" ELSE "staged") EXCEPT !.left = n]
    OBVIOUS
  <2>2. /\ new.phase \in {"stage", "staged"} /\ new.kind = job[j].kind /\ new.who = job[j].who
        /\ new.conv = job[j].conv /\ new.id = job[j].id /\ new.src = job[j].src /\ new.arts = {}
        /\ new.drop = job[j].drop /\ new.out = "none" /\ new \in JobRecord
    <3>1. n \in Nat
      BY StorageAssumption
    <3>. QED  BY <1>1, <1>3, <2>1, <3>1 DEF To, JobRecord, Phases
  <2>3. Fields(j, new)
    BY <1>1, <1>3, <2>2 DEF Fields, Staging
  <2>4. Kept(j) = MineOf(job[j]) /\ KeptOf(new) = MineOf(job[j])
    BY <1>1, <1>3, <2>2 DEF Kept, KeptOf, MineOf
  <2>5. Go(j, new) /\ Shape'
    BY <1>1, <1>2, <1>6, <2>1, <2>2, Untouched DEF Shape
  <2>6. ~Settled(j) /\ j \notin manifests'
    BY <1>1, <1>2 DEF Settled, IInv, Published
  <2>7. new.phase \notin Staging \ {"stage"} /\ new.phase # "discard" /\ new.kind # "list"
    BY <1>3, <2>2 DEF Staging
  <2>. QED  BY <1>1, <1>2, <1>3, <1>4, <2>2, <2>3, <2>4, <2>5, <2>6, <2>7, Proceeding
<1>. QED  BY <1>5, <1>6 DEF RunAgent

(* The files of a call are handed to its caller. *)
LEMMA DeliverKeeps ==
  ASSUME IInv, NEW j \in Jobs, Deliver(j)
  PROVE  IInv'
<1>1. /\ Shape /\ job[j] \in JobRecord /\ Fields(j, job[j]) /\ StoreOf[j] \in open /\ StoreOf[j] \in Stores
      /\ job[j].phase = "staged" /\ Mine(j) = MineOf(job[j])
  BY Parts DEF Deliver
<1>2. UNCHANGED <<dirs, meta, records, open, used, clock, crashes, served, wiped>>
  BY DEF Deliver
<1>3. /\ job[j].kind \in {"agent", "mcp", "result"} /\ job[j].out = "none"
      /\ job[j].kind \in Kinds[j] \ {"none"} /\ job[j].kind = "mcp" => job[j].src # 0
  BY <1>1 DEF Fields, JobRecord, Outs
<1>4. Gentle({}) /\ IdsOK' /\ ServedToOwner'
  BY <1>2, Aside
<1>5. Kept(j) = MineOf(job[j]) /\ ~Settled(j) /\ j \notin manifests /\ MineOf(job[j]) \subseteq Ids
  BY <1>1, <1>3 DEF Kept, KeptOf, Settled, IInv, Published, MineOf, JobRecord
<1>6. CASE UNCHANGED manifests /\ Go(j, Unwind(j, "failed", Mine(j)))
  <2>1. Unwind(j, "failed", Mine(j)) \in JobRecord
    BY <1>1, <1>3, <1>5, Unwinding DEF Creators
  <2>2. Shape'
    BY <1>1, <1>2, <1>6, <2>1, Untouched DEF Shape
  <2>. QED  BY <1>1, <1>2, <1>4, <1>6, <2>2, FailingStage DEF Fresh
<1>7. ASSUME NEW new, NEW where \in {"project", "done"}, NEW out \in {"none", "ok"},
             new = [job[j] EXCEPT !.phase = where, !.out = out], Go(j, new),
             IF where = "project" THEN job[j].kind = "mcp" /\ out = "none"
                                  ELSE job[j].kind \in {"agent", "result"} /\ out = "ok",
             manifests' = manifests \/ (manifests' = manifests \cup {j} /\ job[j].kind = "result")
      PROVE  IInv'
  <2>1. /\ new.phase = where /\ new.kind = job[j].kind /\ new.who = job[j].who
        /\ new.conv = job[j].conv /\ new.id = job[j].id /\ new.src = job[j].src /\ new.arts = job[j].arts
        /\ new.drop = job[j].drop /\ new.out = out /\ new \in JobRecord
    BY <1>1, <1>7 DEF JobRecord, Phases, Outs
  <2>2. Fields(j, new)
    BY <1>1, <1>3, <1>7, <2>1 DEF Fields, Staging
  <2>3. KeptOf(new) = MineOf(job[j])
    BY <1>3, <1>7, <2>1 DEF KeptOf, MineOf
  <2>4. Shape'
    BY <1>1, <1>2, <1>7, <2>1, Untouched DEF Shape
  <2>5. j \in manifests' => Settled(j)'
    BY <1>1, <1>5, <1>7, <2>1, Typed DEF Settled
  <2>6. new.phase \notin Staging \ {"stage"} /\ new.phase # "discard" /\ new.kind # "list"
    BY <1>3, <1>7, <2>1 DEF Staging
  <2>. QED  BY <1>1, <1>2, <1>3, <1>4, <1>5, <1>7, <2>1, <2>2, <2>3, <2>4, <2>5, <2>6, Proceeding
<1>8. CASE /\ UNCHANGED manifests /\ Go(j, Unwind(j, "unsafe", {job[j].src} \ {0}))
  <2> DEFINE new == Unwind(j, "unsafe", {job[j].src} \ {0})
  <2>1. {job[j].src} \ {0} \subseteq MineOf(job[j])
    BY DEF MineOf
  <2>2. /\ new \in JobRecord /\ Fields(j, new) /\ new.kind = job[j].kind
        /\ new.who = job[j].who /\ new.conv = job[j].conv /\ new.out = "unsafe"
        /\ new.phase \in {"unwind", "done"} /\ KeptOf(new) = {job[j].src} \ {0}
    BY <1>1, <1>3, <1>5, <2>1, Unwinding DEF Creators
  <2>3. Go(j, new)
    BY <1>8
  <2> HIDE DEF new
  <2>4. Shape' /\ job'[j] = new
    BY <1>1, <1>2, <1>8, <2>2, <2>3, Untouched, Typed DEF Shape
  <2>5. Excused(j)'
    BY <2>2, <2>4 DEF Excused
  <2>6. new.phase \notin Staging \ {"stage"} /\ new.phase # "discard" /\ new.kind # "list"
    BY <1>3, <2>2 DEF Staging
  <2>. QED  BY <1>1, <1>2, <1>4, <1>5, <1>8, <2>1, <2>2, <2>3, <2>4, <2>5, <2>6, Proceeding
<1>9. CASE job[j].kind \in {"agent", "result"} /\ Go(j, Ended(j, "ok"))
  <2>1. manifests' = manifests \/ (manifests' = manifests \cup {j} /\ job[j].kind = "result")
    BY DEF Deliver
  <2>. QED  BY <1>7, <1>9, <2>1 DEF Ended
<1>10. CASE job[j].kind = "mcp" /\ Go(j, To(j, "project")) /\ UNCHANGED manifests
  <2>1. To(j, "project") = [job[j] EXCEPT !.phase = "project", !.out = "none"]
    BY <1>1, <1>3 DEF To, JobRecord
  <2>. QED  BY <1>7, <1>10, <2>1
<1>. QED  BY <1>6, <1>8, <1>9, <1>10 DEF Deliver

(* _project_artifact reads a file; one it cannot read is lost. *)
LEMMA ProjectArtifactKeeps ==
  ASSUME IInv, NEW j \in Jobs, ProjectArtifact(j)
  PROVE  IInv'
<1>1. /\ Shape /\ IdsOK /\ job[j] \in JobRecord /\ Fields(j, job[j]) /\ StoreOf[j] \in open
      /\ job[j].phase = "project" /\ KeptOK(j) /\ UNCHANGED <<meta, Outside>>
  BY Parts DEF ProjectArtifact
<1>2. /\ job[j].kind = "mcp" /\ job[j].out = "none" /\ job[j].src # 0 /\ job[j].src \in Ids
      /\ job[j].conv = NoConversation /\ job[j].kind \in Kinds[j] \ {"none"} /\ job[j].arts \subseteq Ids
      /\ job[j].src \notin job[j].arts
  BY <1>1 DEF Fields, JobRecord, Outs
<1>3. Kept(j) = MineOf(job[j]) /\ MineOf(job[j]) = job[j].arts \cup {job[j].src}
  BY <1>1, <1>2, Numbers DEF Kept, KeptOf, MineOf
<1>4. ~Settled(j) /\ j \notin manifests' /\ UNCHANGED <<meta, used, open, manifests>> /\ job[j].phase # "record"
  BY <1>1 DEF Settled, IInv, Published, Outside
<1>5. CASE /\ job[j].arts = {} /\ Go(j, Unwind(j, "ok", {job[j].src}))
           /\ UNCHANGED <<dirs, records, served, wiped>>
  <2> DEFINE new == Unwind(j, "ok", {job[j].src})
  <2>1. job[j].kind \in Creators /\ job[j].phase # "idle" /\ {job[j].src} \in SUBSET Ids
    BY <1>1, <1>2 DEF Creators
  <2>2. /\ new \in JobRecord /\ Fields(j, new) /\ new.kind = job[j].kind
        /\ new.who = job[j].who /\ new.conv = job[j].conv /\ new.out = "ok"
        /\ new.phase \in {"unwind", "done"} /\ KeptOf(new) = {job[j].src}
    BY <1>1, <1>2, <2>1, Unwinding
  <2>3. Go(j, new)
    BY <1>5
  <2> HIDE DEF new
  <2>4. Gentle({}) /\ IdsOK' /\ ServedToOwner'
    BY <1>1, <1>5, Aside DEF Outside
  <2>5. Shape'
    BY <1>1, <1>4, <1>5, <2>2, <2>3, Untouched DEF Shape, Outside
  <2>6. new.phase \notin Staging \ {"stage"} /\ new.phase # "discard" /\ new.kind # "list"
    BY <1>2, <2>2 DEF Staging
  <2>. QED  BY <1>1, <1>2, <1>3, <1>4, <1>5, <2>2, <2>3, <2>4, <2>5, <2>6, Proceeding
<1>6. ASSUME NEW i \in job[j].arts, NEW new, Read(StoreOf[j], i, job[j].who, NoConversation),
             new = [To(j, "discard") EXCEPT !.id = i, !.arts = @ \ {i},
                      !.out = IF Readable(StoreOf[j], i, job[j].who, NoConversation)
                              THEN "none" ELSE "failed"],
             Go(j, new)
      PROVE  IInv'
  <2>1. /\ new.phase = "discard" /\ new.kind = "mcp" /\ new.who = job[j].who /\ new.conv = job[j].conv
        /\ new.id = i /\ new.src = job[j].src /\ new.arts = job[j].arts \ {i} /\ new.drop = job[j].drop
        /\ new.out = IF Readable(StoreOf[j], i, job[j].who, NoConversation) THEN "none" ELSE "failed"
        /\ new \in JobRecord
    BY <1>1, <1>2, <1>6 DEF To, JobRecord, Phases, Outs
  <2>2. Fields(j, new)
    BY <1>2, <1>6, <2>1, Numbers DEF Fields, Staging
  <2>3. KeptOf(new) = Kept(j)
    BY <1>2, <1>3, <1>6, <2>1, Numbers DEF KeptOf, MineOf
  <2>4. /\ Gentle({}) /\ IdsOK' /\ ServedToOwner'
        /\ dirs' \in [Ids -> {"none", "part", "file", "full"}]
        /\ records' \in [Stores -> [Ids -> Statuses]]
        /\ wiped' \subseteq Ids
        /\ \A x \in served' : x.id \in Ids
    BY <1>1, <1>2, <1>6, Reading
  <2>5. Shape'
    BY <1>1, <1>6, <2>1, <2>4, Typed DEF Shape, Outside
  <2>6. new.out = "failed" => LostOne(j)'
    <3>1. SUFFICES ASSUME ~Readable(StoreOf[j], i, job[j].who, NoConversation) PROVE LostOne(j)'
      BY <2>1
    <3>2. /\ i \in Ids /\ meta[i].by = j /\ meta[i].owner = job[j].who /\ meta[i].conv = NoConversation
          /\ dirs[i] = "full" \/ Lost(i)
      BY <1>1, <1>2, <1>3, <1>6 DEF KeptOK
    <3>3. CleanUp(StoreOf[j]) /\ UNCHANGED <<meta, clock>>
      BY <1>1, <1>6 DEF Read, Outside
    <3>4. Lost(i)'
      BY <1>1, <3>1, <3>2, <3>3, UnreadableLost
    <3>. QED  BY <3>2, <3>3, <3>4 DEF LostOne
  <2>7. new.phase \notin Staging \ {"stage"} /\ new.kind # "list"
    BY <2>1 DEF Staging
  <2>. QED  BY <1>1, <1>2, <1>4, <1>6, <2>1, <2>2, <2>3, <2>4, <2>5, <2>6, <2>7, Proceeding
<1>. QED  BY <1>5, <1>6 DEF ProjectArtifact

(* A file of the call is discarded, unless it is lost. *)
LEMMA DiscardsOwn ==
  ASSUME IInv, NEW j \in Jobs, NEW i \in Kept(j), StoreOf[j] \in open, NEW conv,
         job[j].conv \in {NoConversation, conv},
         Discard(StoreOf[j], i, job[j].who, conv), UNCHANGED <<meta, Outside, served>>
  PROVE  /\ Gentle({i}) /\ IdsOK' /\ ServedToOwner' /\ i \in Ids /\ meta[i].by = j
         /\ dirs' \in [Ids -> {"none", "part", "file", "full"}]
         /\ records' \in [Stores -> [Ids -> Statuses]]
         /\ wiped' \subseteq Ids
         /\ dirs'[i] = "none" \/ LostOne(j)'
<1>1. Shape /\ KeptOK(j) /\ IdsOK /\ JobOK(j) /\ job[j] \in JobRecord /\ StoreOf[j] \in Stores
  BY Parts
<1>2. i \in Ids
  BY <1>1 DEF Kept, KeptOf, MineOf, JobOK, Fields, JobRecord
<1>3. meta[i].by = j /\ meta[i].owner = job[j].who /\ meta[i].conv = job[j].conv
  BY <1>1 DEF KeptOK
<1>4. /\ Gentle({i}) /\ IdsOK' /\ ServedToOwner'
      /\ dirs' \in [Ids -> {"none", "part", "file", "full"}]
      /\ records' \in [Stores -> [Ids -> Statuses]]
      /\ wiped' \subseteq Ids
      /\ RecordForContext(StoreOf[j], i, job[j].who, conv) => dirs'[i] = "none"
  BY <1>2, Discarding
<1>5. RecordForContext(StoreOf[j], i, job[j].who, conv) \/ Lost(i)
  BY <1>1, <1>3 DEF RecordForContext, KeptOK
<1>6. Lost(i) => LostOne(j)'
  <2>1. Lost(i) => Lost(i)'
    BY DEF Lost, Discard, CleanUp, Outside
  <2>. QED  BY <1>2, <1>3, <2>1 DEF LostOne
<1>. QED  BY <1>2, <1>3, <1>4, <1>5, <1>6

(* The projected file goes, whatever its read said. *)
LEMMA DiscardProjectedKeeps ==
  ASSUME IInv, NEW j \in Jobs, DiscardProjected(j)
  PROVE  IInv'
<1>1. /\ Shape /\ job[j] \in JobRecord /\ Fields(j, job[j]) /\ StoreOf[j] \in open /\ StoreOf[j] \in Stores
      /\ job[j].phase = "discard" /\ Tracked(j) /\ UNCHANGED <<meta, Outside, served>>
  BY Parts DEF DiscardProjected
<1>2. /\ job[j].kind = "mcp" /\ job[j].out \in {"none", "failed"} /\ job[j].src # 0 /\ job[j].src \in Ids
      /\ job[j].conv = NoConversation /\ job[j].kind \in Kinds[j] \ {"none"} /\ job[j].arts \subseteq Ids
      /\ job[j].src \notin job[j].arts /\ job[j].id \notin job[j].arts \cup {job[j].src}
  BY <1>1 DEF Fields, JobRecord
<1>3. PICK i : i = job[j].id
  OBVIOUS
<1>4. Kept(j) = job[j].arts \cup {job[j].src, i} /\ i \in Kept(j) /\ i \notin job[j].arts \cup {job[j].src}
  BY <1>1, <1>2, <1>3, Numbers DEF Kept, KeptOf, MineOf
<1>5. ~Settled(j) /\ j \notin manifests' /\ UNCHANGED <<meta, used, open, manifests>> /\ job[j].phase # "record"
  BY <1>1 DEF Settled, IInv, Published, Outside
<1>6. Discard(StoreOf[j], i, job[j].who, NoConversation)
  BY <1>3 DEF DiscardProjected
<1>7. /\ Gentle({i}) /\ IdsOK' /\ ServedToOwner' /\ i \in Ids /\ meta[i].by = j
      /\ dirs' \in [Ids -> {"none", "part", "file", "full"}]
      /\ records' \in [Stores -> [Ids -> Statuses]]
      /\ wiped' \subseteq Ids
      /\ dirs'[i] = "none" \/ LostOne(j)'
  BY <1>1, <1>2, <1>4, <1>6, DiscardsOwn
<1>8. ASSUME NEW new \in JobRecord, Go(j, new), Fields(j, new), new.phase \in {"unwind", "done", "project"},
             new.kind = "mcp", new.who = job[j].who, new.conv = job[j].conv,
             KeptOf(new) \subseteq job[j].arts \cup {job[j].src},
             LostOne(j)' \/ job[j].arts \cup {job[j].src} \subseteq KeptOf(new)
      PROVE  IInv'
  <2>1. Shape'
    BY <1>1, <1>7, <1>8, Typed DEF Shape, Outside
  <2>2. \/ Excused(j)'
        \/ /\ Kept(j) \ {i} \subseteq KeptOf(new)
           /\ \A k \in {i} \cap Ids : dirs'[k] = "none"
           /\ job[j].out \in {"lost", "unsafe"} => new.out \in {"lost", "unsafe"}
    BY <1>2, <1>4, <1>7, <1>8 DEF Excused
  <2>3. new.phase \notin Staging \ {"stage"} /\ new.phase # "discard" /\ new.kind # "list"
    BY <1>8 DEF Staging
  <2>4. KeptOf(new) \subseteq Kept(j) \ {i}
    BY <1>4, <1>8
  <2>. QED  BY <1>1, <1>5, <1>7, <1>8, <2>1, <2>2, <2>3, <2>4, Proceeding
<1>9. CASE job[j].out = "failed"
  <2> DEFINE new == Unwind(j, "failed", {job[j].src})
  <2>1. job[j].kind \in Creators /\ job[j].phase # "idle" /\ {job[j].src} \in SUBSET Ids
    BY <1>1, <1>2 DEF Creators
  <2>2. /\ new \in JobRecord /\ Fields(j, new) /\ new.kind = job[j].kind
        /\ new.who = job[j].who /\ new.conv = job[j].conv /\ new.out = "failed"
        /\ new.phase \in {"unwind", "done"} /\ KeptOf(new) = {job[j].src}
    BY <1>1, <1>2, <2>1, Unwinding
  <2>3. Go(j, new)
    BY <1>9 DEF DiscardProjected
  <2> HIDE DEF new
  <2>4. LostOne(j)'
    <3>1. PICK k \in Ids : meta[k].by = j /\ Lost(k)
      BY <1>1, <1>9 DEF Tracked, LostOne
    <3>2. ~Fresh(k)
      BY <3>1, StorageAssumption DEF Fresh
    <3>. QED  BY <1>7, <3>1, <3>2 DEF Gentle, LostOne
  <2>. QED  BY <1>2, <1>8, <2>2, <2>3, <2>4
<1>10. CASE job[j].out # "failed"
  <2>1. PICK new : new = [To(j, "project") EXCEPT !.id = 0]
    OBVIOUS
  <2>2. /\ new.phase = "project" /\ new.kind = "mcp" /\ new.who = job[j].who /\ new.conv = job[j].conv
        /\ new.id = 0 /\ new.src = job[j].src /\ new.arts = job[j].arts /\ new.drop = job[j].drop
        /\ new.out = "none" /\ new \in JobRecord
    BY <1>1, <1>2, <1>10, <2>1 DEF To, JobRecord, Phases
  <2>3. Fields(j, new)
    BY <1>2, <2>2 DEF Fields, Staging
  <2>4. KeptOf(new) = job[j].arts \cup {job[j].src}
    BY <1>2, <2>2, Numbers DEF KeptOf, MineOf
  <2>5. Go(j, new)
    BY <1>10, <2>1 DEF DiscardProjected
  <2>. QED  BY <1>8, <2>2, <2>3, <2>4, <2>5
<1>. QED  BY <1>9, <1>10

(* One of the discards that end a call. *)
LEMMA DiscardNextKeeps ==
  ASSUME IInv, NEW j \in Jobs, DiscardNext(j)
  PROVE  IInv'
<1>1. /\ Shape /\ job[j] \in JobRecord /\ Fields(j, job[j]) /\ StoreOf[j] \in open /\ StoreOf[j] \in Stores
      /\ job[j].phase = "unwind" /\ UNCHANGED <<meta, Outside, served>>
  BY Parts DEF DiscardNext
<1>2. /\ job[j].kind \in Creators /\ job[j].drop \subseteq Ids
      /\ job[j].out = "ok" => job[j].kind = "mcp"
  BY <1>1 DEF Fields, Creators, JobRecord
<1>3. PICK i \in job[j].drop :
        /\ Discard(StoreOf[j], i, job[j].who, job[j].conv)
        /\ Go(j, [To(j, IF job[j].drop = {i} THEN "done" ELSE "unwind") EXCEPT !.drop = @ \ {i}])
  BY DEF DiscardNext
<1>4. Kept(j) = job[j].drop
  BY <1>1, <1>2 DEF Kept, KeptOf, Creators
<1>5. /\ Gentle({i}) /\ IdsOK' /\ ServedToOwner' /\ i \in Ids /\ meta[i].by = j
      /\ dirs' \in [Ids -> {"none", "part", "file", "full"}]
      /\ records' \in [Stores -> [Ids -> Statuses]]
      /\ wiped' \subseteq Ids
      /\ dirs'[i] = "none" \/ LostOne(j)'
  <2>1. PICK conv : conv = job[j].conv
    OBVIOUS
  <2>2. i \in Kept(j) /\ Discard(StoreOf[j], i, job[j].who, conv) /\ job[j].conv \in {NoConversation, conv}
    BY <1>3, <1>4, <2>1
  <2>. QED  BY <1>1, <2>2, DiscardsOwn
<1>6. PICK new : new = [To(j, IF job[j].drop = {i} THEN "done" ELSE "unwind") EXCEPT !.drop = @ \ {i}]
  OBVIOUS
<1>7. /\ new.phase = IF job[j].drop = {i} THEN "done" ELSE "unwind"
      /\ new.kind = job[j].kind /\ new.who = job[j].who /\ new.conv = job[j].conv
      /\ new.id = job[j].id /\ new.src = job[j].src /\ new.arts = job[j].arts
      /\ new.drop = job[j].drop \ {i} /\ new.out = job[j].out /\ new \in JobRecord
  BY <1>1, <1>6 DEF To, JobRecord, Phases
<1>8. Fields(j, new)
  BY <1>1, <1>2, <1>7 DEF Fields, Staging, Creators
<1>9. KeptOf(new) = job[j].drop \ {i}
  BY <1>2, <1>7 DEF KeptOf, Creators
<1>10. Go(j, new) /\ Shape'
  BY <1>1, <1>3, <1>5, <1>6, <1>7, Typed DEF Shape, Outside
<1>11. ~Settled(j) /\ j \notin manifests' /\ UNCHANGED <<meta, used, open, manifests>> /\ job[j].phase # "record"
  BY <1>1 DEF Settled, IInv, Published, Outside
<1>12. new.phase \notin Staging \ {"stage"} /\ new.phase # "discard" /\ new.kind # "list"
  BY <1>2, <1>7 DEF Staging, Creators
<1>13. \/ Excused(j)'
       \/ /\ Kept(j) \ {i} \subseteq KeptOf(new)
          /\ \A k \in {i} \cap Ids : dirs'[k] = "none"
          /\ job[j].out \in {"lost", "unsafe"} => new.out \in {"lost", "unsafe"}
  BY <1>4, <1>5, <1>7, <1>9 DEF Excused
<1>. QED  BY <1>1, <1>4, <1>5, <1>7, <1>8, <1>9, <1>10, <1>11, <1>12, <1>13, Proceeding

(* The scope of an MCP call or a poll ends: its store is its own. *)
LEMMA CloseScopeKeeps ==
  ASSUME IInv, NEW j \in Jobs, CloseScope(j)
  PROVE  IInv'
<1>1. /\ Shape /\ Fields(j, job[j]) /\ job[j].phase = "done" /\ job[j].kind \in Scoped
      /\ StoreOf[j] \in open /\ StoreOf[j] \in Stores
      /\ open' = open \ {StoreOf[j]} /\ records' = Forget(StoreOf[j])
      /\ UNCHANGED <<dirs, meta, used, clock, crashes, job, manifests, served, wiped>>
  BY Parts DEF CloseScope, History
<1>2. /\ Gentle({}) /\ IdsOK' /\ ServedToOwner'
      /\ records' \in [Stores -> [Ids -> Statuses]] /\ open' \subseteq Stores
  <2>1. /\ records' \in [Stores -> [Ids -> Statuses]]
        /\ \A t \in Stores : IF t \in {StoreOf[j]} THEN \A i \in Ids : records'[t][i] = "none"
                                                  ELSE records'[t] = records[t]
    BY <1>1 DEF Forget, Shape, Statuses
  <2>. QED  BY <1>1, <2>1, Forgetting
<1>3. Shape'
  BY <1>1, <1>2 DEF Shape
<1>4. ASSUME NEW k \in Jobs, job[k].phase \notin {"idle", "done"} PROVE StoreOf[k] \in open'
  <2>1. StoreOf[j] # Api
    BY <1>1, StorageAssumption DEF Fields, Scoped
  <2>2. StoreOf[k] # StoreOf[j]
    BY <1>1, <1>4, <2>1, StorageAssumption
  <2>. QED  BY <1>1, <1>4, <2>2, Parts
<1>. QED  BY <1>1, <1>2, <1>3, <1>4, NoCallStep

(* The clock moves. *)
LEMMA TickKeeps ==
  ASSUME IInv, Tick
  PROVE  IInv'
<1>1. /\ Shape /\ IdsOK /\ ServedToOwner /\ clock' = clock + 1
      /\ UNCHANGED <<dirs, meta, records, open, used, crashes, job, manifests, served, wiped>>
  BY DEF IInv, Tick
<1>2. \A i \in Ids : meta[i].until <= clock => meta[i].until <= clock + 1
  BY <1>1 DEF Shape, MetaRecord
<1>3. Shape'
  BY <1>1 DEF Shape
<1>4. Gentle({})
  BY <1>1, <1>2 DEF Gentle, Lost
<1>5. IdsOK'
  BY <1>1, <1>2 DEF IdsOK, Fresh
<1>6. ServedToOwner'
  BY <1>1 DEF ServedToOwner
<1>. QED  BY <1>1, <1>3, <1>4, <1>5, <1>6, NoCallStep, Parts

(* The API builds its store. *)
LEMMA OpenApiKeeps ==
  ASSUME IInv, OpenApi
  PROVE  IInv'
<1>1. /\ Shape /\ Api \in Stores /\ Open(Api)
      /\ UNCHANGED <<meta, used, clock, crashes, job, manifests, served>>
  BY StorageAssumption DEF IInv, OpenApi, History
<1>2. /\ Gentle({}) /\ IdsOK' /\ ServedToOwner'
      /\ dirs' \in [Ids -> {"none", "part", "file", "full"}]
      /\ records' \in [Stores -> [Ids -> Statuses]]
      /\ wiped' \subseteq Ids /\ open' \subseteq Stores
  BY <1>1, Opening
<1>3. Shape'
  BY <1>1, <1>2 DEF Shape
<1>4. \A k \in Jobs : job[k].phase \notin {"idle", "done"} => StoreOf[k] \in open'
  BY <1>1, Parts DEF Open
<1>. QED  BY <1>1, <1>2, <1>3, <1>4, NoCallStep

(* What is listed stays that of a published result. *)
LEMMA StillListed ==
  ASSUME IInv, NEW k \in Jobs, job[k].kind = "list", NEW gone, Gentle(gone),
         \A r \in Jobs : Settled(r) => job'[r] = job[r], NEW i \in job[k].arts
  PROVE  /\ i \in Ids /\ ~Fresh(i) /\ meta'[i] = meta[i] /\ (Lost(i) => Lost(i)')
         /\ meta[i].by \in Jobs /\ Settled(meta[i].by)' /\ i \in job'[meta[i].by].arts
         /\ meta[i].owner = job[k].who /\ meta[i].conv = job[k].conv
         /\ dirs[i] = "full" \/ Lost(i)
<1>1. /\ i \in Ids /\ meta[i].by \in Jobs /\ Settled(meta[i].by) /\ i \in job[meta[i].by].arts
      /\ meta[i].owner = job[k].who /\ meta[i].conv = job[k].conv
  BY Parts DEF ListOK, JobRecord
<1>2. ~Fresh(i)
  BY <1>1, StorageAssumption DEF Fresh
<1>3. meta'[i] = meta[i] /\ (Lost(i) => Lost(i)')
  BY <1>1, <1>2 DEF Gentle
<1>4. job'[meta[i].by] = job[meta[i].by]
  BY <1>1
<1>5. dirs[i] = "full" \/ Lost(i)
  <2>1. PICK r \in Jobs : r = meta[i].by
    BY <1>1
  <2>2. i \in Kept(r)
    BY <1>1, <2>1, Numbers DEF Settled, Kept, KeptOf, MineOf
  <2>. QED  BY <2>1, <2>2, Parts DEF KeptOK
<1>. QED  BY <1>1, <1>2, <1>3, <1>4, <1>5 DEF Settled

(* list_resources begins with the files of a published result. *)
LEMMA ListBeginKeeps ==
  ASSUME IInv, NEW j \in Jobs, ListBegin(j)
  PROVE  IInv'
<1>1. /\ job[j].phase = "idle" /\ "list" \in Kinds[j] /\ StoreOf[j] \in open
      /\ UNCHANGED <<dirs, meta, records, open, used, clock, crashes, manifests, served, wiped>>
  BY DEF ListBegin, Outside
<1>2. PICK r \in manifests :
        Go(j, [To(j, "list") EXCEPT !.kind = "list", !.who = job[r].who,
                 !.conv = job[r].conv, !.arts = job[r].arts])
  BY DEF ListBegin
<1>3. /\ r \in Jobs /\ Settled(r) /\ job[r] \in JobRecord /\ KeptOK(r)
      /\ job[r].arts \subseteq Kept(r) /\ job[r].arts \subseteq Ids
  <2>1. r \in Jobs /\ Settled(r)
    BY <1>2 DEF IInv, Shape, Published
  <2>2. job[r] \in JobRecord /\ KeptOK(r)
    BY <2>1, Parts
  <2>. QED  BY <2>1, <2>2, Numbers DEF Settled, Kept, KeptOf, MineOf, JobRecord
<1>4. PICK new : new = [To(j, "list") EXCEPT !.kind = "list", !.who = job[r].who,
                          !.conv = job[r].conv, !.arts = job[r].arts]
  OBVIOUS
<1>5. /\ new.phase = "list" /\ new.kind = "list" /\ new.who = job[r].who /\ new.conv = job[r].conv
      /\ new.id = 0 /\ new.src = 0 /\ new.arts = job[r].arts /\ new.drop = {} /\ new.out = "none"
      /\ new \in JobRecord
  <2>1. job[j].id = 0 /\ job[j].src = 0 /\ job[j].drop = {} /\ job[j].out = "none" /\ job[j] \in JobRecord
    BY <1>1, IdleCall
  <2>. QED  BY <2>1, <1>3, <1>4 DEF To, JobRecord, Phases, AllKinds
<1>6. Fields(j, new)
  BY <1>1, <1>3, <1>5, Numbers DEF Fields, Staging
<1>7. Kept(j) = {} /\ KeptOf(new) = {} /\ ~Settled(j) /\ j \notin manifests' /\ job[j].phase # "record"
  BY <1>1, <1>5, IdleCall DEF KeptOf
<1>8. Gentle({}) /\ IdsOK' /\ ServedToOwner'
  BY <1>1, Aside
<1>9. Go(j, new) /\ Shape' /\ job'[j] = new
  BY <1>1, <1>2, <1>4, <1>5, IdleCall, Untouched, Typed DEF Shape
<1>10. ListOK(j)'
  <2>1. \A i \in job[r].arts : meta[i].by = r /\ meta[i].owner = job[r].who /\ meta[i].conv = job[r].conv
    BY <1>3 DEF KeptOK
  <2>2. job'[r] = job[r]
    BY <1>1, <1>2, <1>3, <1>7 DEF Go, IInv, Shape
  <2>. QED  BY <1>1, <1>3, <1>5, <1>9, <2>1, <2>2 DEF ListOK, Settled
<1>11. new.phase \notin Staging \ {"stage"} /\ new.phase # "discard" /\ job[j].out = "none"
  BY <1>1, <1>5, IdleCall DEF Staging
<1>. QED  BY <1>1, <1>5, <1>6, <1>7, <1>8, <1>9, <1>10, <1>11, Proceeding

(* A file is read; one that cannot be read is lost. *)
LEMMA ListNextKeeps ==
  ASSUME IInv, NEW j \in Jobs, ListNext(j)
  PROVE  IInv'
<1>1. /\ Shape /\ job[j] \in JobRecord /\ Fields(j, job[j]) /\ StoreOf[j] \in open
      /\ job[j].phase = "list" /\ UNCHANGED <<meta, Outside>>
  BY Parts DEF ListNext
<1>2. /\ job[j].kind = "list" /\ job[j].out = "none" /\ job[j].src = 0 /\ "list" \in Kinds[j]
      /\ job[j].arts \subseteq Ids
  BY <1>1 DEF Fields, JobRecord
<1>3. ~Settled(j) /\ j \notin manifests' /\ UNCHANGED <<meta, used, open, manifests, clock>> /\ job[j].phase # "record"
  BY <1>1 DEF Settled, IInv, Published, Outside
<1>4. ASSUME NEW new \in JobRecord, Go(j, new), new.kind = "list", new.who = job[j].who, new.conv = job[j].conv,
             new.id = job[j].id, new.src = 0, new.drop = job[j].drop, new.arts \subseteq job[j].arts,
             \/ new.phase = "list" /\ new.out = "none"
             \/ new.phase = "done" /\ new.out \in {"ok", "failed"},
             Gentle({}), IdsOK', ServedToOwner', Shape',
             new.out = "failed" => \E i \in new.arts : Lost(i)'
      PROVE  IInv'
  <2>1. Fields(j, new)
    BY <1>1, <1>2, <1>4, Numbers DEF Fields, Staging
  <2>2. Kept(j) = {} /\ KeptOf(new) = {}
    BY <1>2, <1>4 DEF Kept, KeptOf
  <2>3. job'[j] = new
    BY <1>1, <1>4, Typed
  <2>4. \A r \in Jobs : Settled(r) => job'[r] = job[r]
    BY <1>1, <1>3, <1>4 DEF Go, Shape
  <2>5. \A i \in new.arts : /\ i \in job[j].arts /\ meta'[i] = meta[i] /\ meta[i].by \in Jobs
                            /\ Settled(meta[i].by)' /\ i \in job'[meta[i].by].arts
                            /\ meta[i].owner = job[j].who /\ meta[i].conv = job[j].conv
    BY <1>2, <1>4, <2>4, StillListed
  <2>6. ListOK(j)'
    BY <1>3, <1>4, <2>3, <2>5 DEF ListOK
  <2>7. new.phase \notin Staging \ {"stage"} /\ new.phase # "discard"
    BY <1>4 DEF Staging
  <2>. QED  BY <1>1, <1>2, <1>3, <1>4, <2>1, <2>2, <2>6, <2>7, Proceeding
<1>5. CASE job[j].arts = {} /\ Go(j, Ended(j, "ok")) /\ UNCHANGED <<dirs, records, served, wiped>>
  <2>1. PICK new : new = Ended(j, "ok")
    OBVIOUS
  <2>2. /\ new.phase = "done" /\ new.kind = job[j].kind /\ new.who = job[j].who /\ new.conv = job[j].conv
        /\ new.id = job[j].id /\ new.src = job[j].src /\ new.arts = job[j].arts /\ new.drop = job[j].drop
        /\ new.out = "ok" /\ new \in JobRecord
    BY <1>1, <2>1 DEF Ended, JobRecord, Phases, Outs
  <2>3. Gentle({}) /\ IdsOK' /\ ServedToOwner'
    BY <1>1, <1>5, Aside DEF Outside
  <2>4. Shape'
    BY <1>1, <1>5, <2>1, <2>2, Untouched DEF Shape, Outside
  <2>. QED  BY <1>2, <1>4, <1>5, <2>1, <2>2, <2>3, <2>4
<1>6. ASSUME NEW i \in job[j].arts, NEW new, Read(StoreOf[j], i, job[j].who, job[j].conv),
             new = IF Readable(StoreOf[j], i, job[j].who, job[j].conv)
                   THEN [job[j] EXCEPT !.arts = @ \ {i}] ELSE Ended(j, "failed"),
             Go(j, new)
      PROVE  IInv'
  <2>1. /\ new.kind = job[j].kind /\ new.who = job[j].who /\ new.conv = job[j].conv
        /\ new.id = job[j].id /\ new.src = job[j].src /\ new.drop = job[j].drop /\ new \in JobRecord
        /\ IF Readable(StoreOf[j], i, job[j].who, job[j].conv)
           THEN new.phase = "list" /\ new.out = "none" /\ new.arts = job[j].arts \ {i}
           ELSE new.phase = "done" /\ new.out = "failed" /\ new.arts = job[j].arts
    BY <1>1, <1>2, <1>6 DEF Ended, JobRecord, Phases, Outs
  <2>2. /\ Gentle({}) /\ IdsOK' /\ ServedToOwner'
        /\ dirs' \in [Ids -> {"none", "part", "file", "full"}]
        /\ records' \in [Stores -> [Ids -> Statuses]]
        /\ wiped' \subseteq Ids
        /\ \A x \in served' : x.id \in Ids
    BY <1>1, <1>2, <1>6, Reading
  <2>3. Shape'
    BY <1>1, <1>6, <2>1, <2>2, Typed DEF Shape, Outside
  <2>4. new.out = "failed" => \E k \in new.arts : Lost(k)'
    <3>1. SUFFICES ASSUME ~Readable(StoreOf[j], i, job[j].who, job[j].conv) PROVE Lost(i)'
      BY <1>6, <2>1
    <3>2. \A r \in Jobs : Settled(r) => job'[r] = job[r]
      BY <1>1, <1>3, <1>6 DEF Go, Shape
    <3>3. meta[i].owner = job[j].who /\ meta[i].conv = job[j].conv /\ (dirs[i] = "full" \/ Lost(i)) /\ i \in Ids
      BY <1>2, <1>6, <2>2, <3>2, StillListed
    <3>4. CleanUp(StoreOf[j])
      BY <1>6 DEF Read
    <3>5. PICK conv : conv = job[j].conv
      OBVIOUS
    <3>6. ~Readable(StoreOf[j], i, job[j].who, conv) /\ meta[i].conv \in {NoConversation, conv}
      BY <3>1, <3>3, <3>5
    <3>. QED  BY <1>1, <1>3, <3>3, <3>4, <3>6, UnreadableLost
  <2>. QED  BY <1>2, <1>4, <1>6, <2>1, <2>2, <2>3, <2>4
<1>. QED  BY <1>5, <1>6 DEF ListNext

(* A process dies with its store and its calls. *)
LEMMA CrashKeeps ==
  ASSUME IInv, NEW s \in Stores, Crash(s)
  PROVE  IInv'
<1>. DEFINE gone == ProcessOf(s)
<1>1. /\ Shape /\ open' = open \ gone /\ crashes' = crashes + 1
      /\ UNCHANGED <<dirs, meta, used, clock, manifests, served, wiped>>
  BY DEF IInv, Crash, History
<1>2. /\ Gentle({}) /\ IdsOK' /\ ServedToOwner'
      /\ records' \in [Stores -> [Ids -> Statuses]] /\ open' \subseteq Stores
  <2>1. gone \in SUBSET Stores
    BY StorageAssumption DEF ProcessOf, InApiProcess
  <2>2. /\ records' \in [Stores -> [Ids -> Statuses]]
        /\ \A t \in Stores : IF t \in gone THEN \A i \in Ids : records'[t][i] = "none"
                                          ELSE records'[t] = records[t]
    BY <1>1 DEF Crash, Shape, Statuses
  <2>. QED  BY <1>1, <2>1, <2>2, Forgetting
<1>3. \A k \in Jobs : \/ job'[k] = job[k] /\ (job[k].phase \in {"idle", "done"} \/ StoreOf[k] \notin gone)
                      \/ /\ job'[k] = [job[k] EXCEPT !.phase = "done", !.out = "lost"]
                         /\ job[k].phase \notin {"idle", "done"}
  BY DEF Crash
<1>4. ASSUME NEW k \in Jobs, job'[k] = [job[k] EXCEPT !.phase = "done", !.out = "lost"]
      PROVE  /\ job'[k].phase = "done" /\ job'[k].kind = job[k].kind /\ job'[k].who = job[k].who
             /\ job'[k].conv = job[k].conv /\ job'[k].id = job[k].id /\ job'[k].src = job[k].src
             /\ job'[k].arts = job[k].arts /\ job'[k].drop = job[k].drop /\ job'[k].out = "lost"
             /\ job'[k] \in JobRecord
  BY <1>4, Parts DEF JobRecord, Phases, Outs
<1>5. Shape'
  <2>1. job' \in [Jobs -> JobRecord]
    <3>1. \A k \in Jobs : job'[k] \in JobRecord
      BY <1>3, <1>4, Parts
    <3>. QED  BY <3>1 DEF Crash
  <2>. QED  BY <1>1, <1>2, <2>1 DEF Shape
<1>6. \A r \in Jobs : Settled(r) => job'[r] = job[r]
  BY <1>3 DEF Settled
<1>7. ASSUME NEW k \in Jobs PROVE JobInv(k)'
  <2>1. CASE job'[k] = job[k] /\ (job[k].phase \in {"idle", "done"} \/ StoreOf[k] \notin gone)
    <3>1. \A i \in Ids : Fresh(i) => meta'[i].by # k
      BY <1>1, StorageAssumption DEF Fresh
    <3>2. job[k].phase \in Unwritten => Fresh(job[k].id)'
      <4>1. JobOK(k)
        BY Parts
      <4>. QED  BY <1>1, <2>1, <4>1 DEF JobOK, Fresh
    <3>3. used <= used'
      BY <1>1, Numbers DEF Shape
    <3>4. job[k].phase \notin {"idle", "done"} => StoreOf[k] \in open'
      BY <1>1, <2>1, Parts
    <3>. QED  BY <1>2, <1>5, <1>6, <2>1, <3>1, <3>2, <3>3, <3>4, OtherCall
  <2>2. CASE job'[k] = [job[k] EXCEPT !.phase = "done", !.out = "lost"] /\ job[k].phase \notin {"idle", "done"}
    <3>1. PICK new : new = job'[k]
      OBVIOUS
    <3>2. /\ new.phase = "done" /\ new.kind = job[k].kind /\ new.who = job[k].who
          /\ new.conv = job[k].conv /\ new.id = job[k].id /\ new.src = job[k].src
          /\ new.arts = job[k].arts /\ new.out = "lost"
      BY <1>4, <2>2, <3>1
    <3>3. Fields(k, job[k])
      BY Parts
    <3>4. Fields(k, new)
      BY <2>2, <3>2, <3>3 DEF Fields, Staging
    <3>5. KeptOf(new) = {} /\ WrittenOf(new) = {}
      BY <3>2 DEF KeptOf, WrittenOf
    <3>6. JobOK(k)' /\ KeptOK(k)' /\ Tracked(k)'
      <4>1. JobOK(k)'
        BY <3>1, <3>2, <3>4 DEF JobOK, Unwritten
      <4>2. Kept(k)' = {} /\ Written(k)' = {}
        BY <3>1, <3>5 DEF Kept, Written
      <4>3. KeptOK(k)'
        BY <4>2 DEF KeptOK
      <4>4. Tracked(k)'
        BY <3>1, <3>2 DEF Tracked, Excused
      <4>. QED  BY <4>1, <4>3, <4>4
    <3>7. ListOK(k)'
      <4>1. ASSUME job[k].kind = "list"
            PROVE  \A i \in job[k].arts : /\ meta'[i] = meta[i] /\ meta[i].by \in Jobs
                                          /\ Settled(meta[i].by)' /\ i \in job'[meta[i].by].arts
                                          /\ meta[i].owner = job[k].who /\ meta[i].conv = job[k].conv
        BY <1>2, <1>6, <4>1, StillListed
      <4>. QED  BY <1>1, <3>1, <3>2, <4>1 DEF ListOK
    <3>. QED  BY <3>6, <3>7 DEF JobInv
  <2>. QED  BY <1>3, <2>1, <2>2
<1>8. IdsApart'
  <2>1. \A k \in Jobs : job'[k].phase \in Unwritten => job'[k] = job[k]
    BY <1>3, <1>4 DEF Unwritten
  <2>. QED  BY <2>1 DEF IInv, IdsApart
<1>9. Published'
  BY <1>1, <1>6 DEF IInv, Shape, Published, Settled
<1>. QED  BY <1>2, <1>5, <1>7, <1>8, <1>9 DEF IInv

-----------------------------------------------------------------------------
(* The theorems.                                                           *)

LEMMA InitIInv == Init => IInv
<1>. SUFFICES ASSUME Init PROVE IInv
  OBVIOUS
<1>. USE Numbers DEF Init
<1>1. \A j \in Jobs : job[j] = Idle
  OBVIOUS
<1>2. Idle \in JobRecord
  BY DEF Idle, JobRecord, Phases, AllKinds, Owners, Bindings, Outs
<1>3. NoMeta \in MetaRecord
  BY DEF NoMeta, MetaRecord, Owners, Bindings
<1>4. Shape
  BY <1>2, <1>3 DEF Shape, Statuses
<1>5. IdsOK
  BY <1>3 DEF IdsOK, Fresh, NoMeta
<1>6. IdsApart /\ Published /\ ServedToOwner
  BY <1>1 DEF IdsApart, Published, ServedToOwner, Idle, Unwritten
<1>7. ASSUME NEW j \in Jobs PROVE JobInv(j)
  <2>1. /\ job[j] = Idle /\ job[j].phase = "idle" /\ job[j].kind = "none" /\ job[j].conv = NoConversation
        /\ job[j].src = 0 /\ job[j].arts = {} /\ job[j].out = "none"
    BY <1>1 DEF Idle
  <2>2. Fields(j, job[j])
    BY <2>1 DEF Fields, Staging
  <2>3. JobOK(j)
    BY <2>1, <2>2 DEF JobOK, Unwritten
  <2>4. Kept(j) = {} /\ Written(j) = {}
    BY <2>1 DEF Kept, KeptOf, Written, WrittenOf
  <2>5. Tracked(j)
    BY <2>1 DEF Tracked
  <2>. QED  BY <2>1, <2>3, <2>4, <2>5 DEF JobInv, KeptOK, ListOK
<1>. QED  BY <1>4, <1>5, <1>6, <1>7 DEF IInv

LEMMA StutterIInv == IInv /\ UNCHANGED vars => IInv'
<1>. SUFFICES ASSUME IInv, UNCHANGED vars PROVE IInv'
  OBVIOUS
<1>. USE DEF vars
<1>1. Shape' /\ Gentle({}) /\ IdsOK' /\ ServedToOwner'
  BY Aside DEF IInv, Shape
<1>2. \A k \in Jobs : job[k].phase \notin {"idle", "done"} => StoreOf[k] \in open'
  BY Parts
<1>. QED  BY <1>1, <1>2, NoCallStep

LEMMA NextIInv == IInv /\ [Next]_vars => IInv'
<1>1. ASSUME IInv, NEW j \in Jobs, Step(j) PROVE IInv'
  BY <1>1, StageBeginKeeps, StageWriteKeeps, StageManifestKeeps, StageRecordKeeps, UploadBeginKeeps,
     AgentBeginKeeps, DownloadAttachmentKeeps, McpBeginKeeps, PollBeginKeeps, ReadInputKeeps, RunAgentKeeps,
     DeliverKeeps, ProjectArtifactKeeps, DiscardProjectedKeeps, DiscardNextKeeps, CloseScopeKeeps,
     ListBeginKeeps, ListNextKeeps DEF Step
<1>. QED  BY <1>1, TickKeeps, OpenApiKeeps, CrashKeeps, StutterIInv DEF Next

LEMMA AlwaysIInv == Spec => []IInv
BY InitIInv, NextIInv, PTL DEF Spec

(* Whatever the stores restore, expire and remove while others stage, a    *)
(* read of FilesystemAttachmentStorage serves a file only to the subject   *)
(* that staged it, in its conversation and within its retention time, and  *)
(* list_resources misses a file of a published result only when the file   *)
(* expired or an instance that did not know it removed it.                 *)
THEOREM StoresStayConsistent == Spec => []StoresConsistent
<1>1. IInv => StoresConsistent
  <2>. SUFFICES ASSUME IInv PROVE StoresConsistent
    OBVIOUS
  <2>1. TypeOK
    BY DEF IInv, Shape, IdsOK, TypeOK
  <2>2. ListedUnlessLost
    BY DEF IInv, JobInv, ListOK, ListedUnlessLost, Lost
  <2>. QED  BY <2>1, <2>2 DEF StoresConsistent, IInv
<1>. QED  BY <1>1, AlwaysIInv, PTL

(* A file acknowledged to an uploader or to the caller of an agent stays   *)
(* in its directory until it expires, whichever processes die, and the     *)
(* instance of the API, restarted or not, knows its uploads, unless        *)
(* cleanup_expired or _restore_records of an instance that did not know    *)
(* the file removed it.                                                    *)
THEOREM AcknowledgedFilesSurvive == Spec => []AcknowledgedSurvives
<1>1. IInv => AcknowledgedSurvives
  <2>. SUFFICES ASSUME IInv, NEW j \in Jobs, NEW i \in job[j].arts,
                       job[j].kind \in {"upload", "agent"}, job[j].out = "ok",
                       meta[i].until > clock, i \notin wiped
                PROVE  /\ dirs[i] = "full"
                       /\ job[j].kind = "upload" /\ Api \in open => records[Api][i] = "available"
    BY DEF AcknowledgedSurvives
  <2>1. Shape /\ job[j] \in JobRecord /\ Fields(j, job[j]) /\ KeptOK(j)
    BY Parts
  <2>2. job[j].phase = "done" /\ job[j].kind \in Kinds[j] /\ i \in Ids
    BY <2>1 DEF Fields, JobRecord
  <2>3. job[j].kind = "upload" => StoreOf[j] = Api
    BY <2>2, StorageAssumption DEF Scoped
  <2>4. i \in Kept(j)
    BY <2>2, Numbers DEF Kept, KeptOf, MineOf
  <2>5. ~Lost(i)
    BY <2>1, <2>2 DEF Lost, Shape, MetaRecord
  <2>. QED  BY <2>1, <2>3, <2>4, <2>5 DEF KeptOK
<1>. QED  BY <1>1, AlwaysIInv, PTL

(* An MCP call that ends well and any call that ends in failure leaves no  *)
(* file of its own behind: the source, the projected artifacts and what    *)
(* was staged before the failure are discarded, unless one of the files    *)
(* expired or was removed by another instance under the call.              *)
THEOREM FailuresLeaveNothing == Spec => []NothingLeftBehind
<1>1. IInv => NothingLeftBehind
  <2>. SUFFICES ASSUME IInv, NEW j \in Jobs, job[j].phase = "done", Undisturbed(j),
                       job[j].out = "failed" \/ (job[j].kind = "mcp" /\ job[j].out = "ok"),
                       NEW i \in Ids, meta[i].by = j, dirs[i] # "none"
                PROVE  FALSE
    BY DEF NothingLeftBehind
  <2>1. Shape /\ Tracked(j)
    BY Parts
  <2>2. ~LostOne(j)
    BY <2>1 DEF LostOne, Undisturbed, Lost, Shape, MetaRecord
  <2>3. Kept(j) = {} /\ Written(j) = {}
    BY DEF Kept, KeptOf, Written, WrittenOf
  <2>. QED  BY <2>1, <2>2, <2>3 DEF Tracked, Excused
<1>. QED  BY <1>1, AlwaysIInv, PTL

-----------------------------------------------------------------------------
(* The worker pool: TaskWorkerPool for any number of workers, any lease    *)
(* and delay.  An execution is named by its attempt, so at most one is of  *)
(* the last attempt, and only the last attempt is ever active.  Unless two *)
(* executions are in the result store together, a manifest is written once *)
(* and every document from a result with the artifacts it lists.           *)

\* A row that does not exist has no attempts.  A lease that was not renewed is
\* at most one ttl away, a renewed one two; only the last attempt of an
\* executing task is active.
RowOK(t) ==
  /\ t \in Task
  /\ t.available <= RetryDelay
  /\ t.status = "absent" => AttemptCount(t) = 0
  /\ \A n \in DOMAIN t.attempts :
       /\ t.attempts[n].lease <= 2 * LeaseTTL
       /\ t.attempts[n].renewal = 0 => t.attempts[n].lease <= LeaseTTL
       /\ t.attempts[n].status = "active"
             => n = AttemptCount(t) /\ t.status \in Executing

Executions == {"read", "renew", "render", "check", "save", "stage", "look",
               "write", "commit"}

Alive(w) == pc[w] \notin Stage

\* An execution is of an attempt that exists.
AttemptOf(w) ==
  IF Alive(w) THEN work[w].attempt \in 1..AttemptCount(task)
              ELSE work[w].attempt = 0

\* An execution has a result before it stores one, and stores the manifest
\* before the document, the document before it reports success.
Storing(w) ==
  /\ pc[w] \in {"check", "save", "stage", "look", "write"}
        => work[w].result \in Results
  /\ pc[w] \in {"look", "write"} /\ ConversationBound
        => manifest # NoFingerprint
  /\ pc[w] = "commit" /\ work[w].outcome = "success"
        => /\ work[w].result \in Results
           /\ document # NoFingerprint
           /\ ConversationBound => manifest # NoFingerprint

\* What an execution that has the store for itself knows of the files.
Alone(w) ==
  /\ pc[w] = "stage" => manifest = NoFingerprint
  /\ pc[w] \in {"look", "write"} => SameArtifacts(manifest, work[w].result)
  /\ pc[w] = "write" => document = NoFingerprint
  /\ pc[w] = "commit" /\ work[w].outcome = "success"
        => /\ SameArtifacts(manifest, work[w].result)
           /\ SameArtifacts(document, work[w].result)

WorkerOK(w) ==
  /\ work[w].retryAt <= RetryDelay
  /\ AttemptOf(w)
  /\ Storing(w)
  /\ ConversationBound /\ ~overlap => Alone(w)

\* Executions are of different attempts, and one is in the store unless they
\* overlap there.
Apart(v, w) ==
  /\ Alive(v) /\ Alive(w) /\ work[v].attempt = work[w].attempt => v = w
  /\ InStore(v) /\ InStore(w) /\ ~overlap => v = w

FilesOK ==
  /\ {manifest, document} \subseteq Results \cup {NoFingerprint}
  /\ DeliverableExists
  /\ ConversationBound /\ ~overlap =>
       /\ document # NoFingerprint => SameArtifacts(document, manifest)
       /\ task.status = "succeeded" => SameArtifacts(manifest, task.result)

PoolInv ==
  /\ overlap \in BOOLEAN
  /\ RowOK(task)
  /\ pc \in [Workers -> Stage \cup Executions]
  /\ work \in [Workers -> Work]
  /\ FilesOK
  /\ \A w \in Workers : WorkerOK(w)
  /\ \A v, w \in Workers : Apart(v, w)

\* Having the same artifacts is symmetric and transitive, and a file that is
\* not there has none.
LEMMA SameArtifactsFacts ==
  /\ NoFingerprint \notin Results
  /\ \A f : ~SameArtifacts(NoFingerprint, f) /\ ~SameArtifacts(f, NoFingerprint)
  /\ \A f \in Results : SameArtifacts(f, f)
  /\ \A f, g : SameArtifacts(f, g) => SameArtifacts(g, f)
  /\ \A f, g, h : SameArtifacts(f, g) /\ SameArtifacts(g, h)
                    => SameArtifacts(f, h)
<1>1. NoFingerprint \notin Results
  BY NoFingerprintAssumption, PoolAssumption DEF Results
<1>. QED  BY <1>1 DEF SameArtifacts

-----------------------------------------------------------------------------
(* One lemma for each method of the aggregate that the pool calls.  Keeps: *)
(* what every step but a success does to the row.                          *)

Keeps(t, u) ==
  /\ RowOK(u)
  /\ AttemptCount(u) \in Nat
  /\ AttemptCount(u) >= AttemptCount(t)
  /\ u.status = "succeeded" => t.status = "succeeded" /\ u.result = t.result

\* The fields of a row that RowOK speaks about.
LEMMA RowFields ==
  ASSUME NEW t, RowOK(t)
  PROVE  /\ t \in Task
         /\ t.status \in TaskStatus /\ t.available \in Nat
         /\ t.attempts \in Seq(Attempt)
         /\ AttemptCount(t) \in Nat
         /\ DOMAIN t.attempts = 1..AttemptCount(t)
         /\ \A n \in DOMAIN t.attempts : t.attempts[n] \in Attempt
BY DEF RowOK, Task, AttemptCount

\* A row with the same attempts.
LEMMA SameAttempts ==
  ASSUME NEW t, RowOK(t), NEW u \in Task, u.attempts = t.attempts,
         u.available <= RetryDelay,
         t.status \in Executing => u.status \in Executing,
         u.status # "absent"
  PROVE  RowOK(u) /\ AttemptCount(u) = AttemptCount(t)
BY DEF RowOK, AttemptCount

\* The active attempt ends.
LEMMA Finished ==
  ASSUME NEW t, RowOK(t), NEW n, IsActive(t, n), NEW a \in Attempt,
         a.lease = t.attempts[n].lease, a.renewal = t.attempts[n].renewal,
         a.status # "active",
         NEW u \in Task, u.attempts = [t.attempts EXCEPT ![n] = a],
         u.available <= RetryDelay, u.status # "absent"
  PROVE  RowOK(u) /\ AttemptCount(u) = AttemptCount(t)
<1>1. n \in DOMAIN t.attempts /\ n = AttemptCount(t)
  BY DEF IsActive, RowOK
<1>2. /\ DOMAIN u.attempts = DOMAIN t.attempts
      /\ u.attempts[n] = a
      /\ \A i \in DOMAIN t.attempts : i # n => u.attempts[i] = t.attempts[i]
  BY <1>1, RowFields
<1>3. AttemptCount(u) = AttemptCount(t)
  BY <1>1, <1>2, RowFields DEF AttemptCount
<1>4. ASSUME NEW i \in DOMAIN u.attempts
      PROVE  /\ u.attempts[i].lease <= 2 * LeaseTTL
             /\ u.attempts[i].renewal = 0 => u.attempts[i].lease <= LeaseTTL
             /\ u.attempts[i].status # "active"
  <2>1. CASE i = n
    BY <2>1, <1>1, <1>2 DEF RowOK
  <2>2. CASE i # n
    BY <2>2, <1>1, <1>2, <1>4 DEF RowOK
  <2>. QED  BY <2>1, <2>2
<1>. QED  BY <1>3, <1>4 DEF RowOK

\* FinishAttempt keeps the times of the attempt.
LEMMA FinishedAttempt ==
  ASSUME NEW a \in Attempt, NEW s \in AttemptStatus, NEW c \in FailureCategory,
         NEW r \in Fingerprints \cup {NoFingerprint}
  PROVE  /\ FinishAttempt(a, s, c, r) \in Attempt
         /\ FinishAttempt(a, s, c, r).status = s
         /\ FinishAttempt(a, s, c, r).lease = a.lease
         /\ FinishAttempt(a, s, c, r).renewal = a.renewal
BY DEF FinishAttempt, Attempt

\* Task.create
LEMMA NewRow ==
  ASSUME NEW f \in Fingerprints
  PROVE  LET u == Stored(NewTask(f, 0)) IN
         RowOK(u) /\ u.status = "queued" /\ AttemptCount(u) = 0
<1> DEFINE u == Stored(NewTask(f, 0))
<1>1. /\ u.status = "queued" /\ u.attempts = <<>> /\ u.available = 0
      /\ DOMAIN u.attempts = {} /\ Len(u.attempts) = 0
  BY DEF Stored, NewTask, AbsentTask
<1>2. u \in Task
  <2>1. <<>> \in Seq(Event) /\ <<>> \in Seq(Attempt)
    OBVIOUS
  <2>. QED  BY <2>1 DEF Stored, NewTask, AbsentTask, Task, TaskStatus
<1> HIDE DEF u
<1>3. RowOK(u)
  BY <1>1, <1>2, PoolAssumption DEF RowOK
<1>. QED  BY <1>1, <1>3 DEF AttemptCount, u

\* Task.claim adds an attempt, which is the active one.
LEMMA ClaimedRow ==
  ASSUME NEW t, RowOK(t), NEW lease \in 1..LeaseTTL, CanClaim(t, 0, lease)
  PROVE  LET u == Stored(ClaimTask(t, 0, lease)) IN
         /\ RowOK(u) /\ u.status = "running"
         /\ AttemptCount(u) = AttemptCount(t) + 1
<1> DEFINE u == Stored(ClaimTask(t, 0, lease))
           a == [status |-> "active", created |-> 0, lease |-> lease,
                 renewal |-> 0, category |-> "none", result |-> NoFingerprint]
           c == AttemptCount(t)
<1>1. a \in Attempt /\ a.lease = lease
  BY PoolAssumption DEF Attempt, AttemptStatus, FailureCategory
<1>2. /\ u.status = "running" /\ u.attempts = Append(t.attempts, a)
      /\ u.available = t.available
  BY RowFields DEF Stored, ClaimTask, Task
<1> HIDE DEF a
<1>3. u \in Task
  <2>1. Append(t.attempts, a) \in Seq(Attempt) /\ <<>> \in Seq(Event)
    BY <1>1, RowFields
  <2>2. u = [t EXCEPT !.status = "running", !.attempts = Append(t.attempts, a),
                      !.events = <<>>]
    BY RowFields DEF Stored, ClaimTask, Task, a
  <2>. QED  BY <2>1, <2>2, RowFields DEF Task, TaskStatus
<1> HIDE DEF u
<1>4. /\ Len(u.attempts) = c + 1
      /\ DOMAIN u.attempts = 1..(c + 1)
      /\ \A i \in 1..c : u.attempts[i] = t.attempts[i]
      /\ u.attempts[c + 1] = a
  BY <1>1, <1>2, RowFields DEF AttemptCount
<1>5. ASSUME NEW i \in 1..(c + 1)
      PROVE  /\ u.attempts[i].lease <= 2 * LeaseTTL
             /\ u.attempts[i].renewal = 0 => u.attempts[i].lease <= LeaseTTL
             /\ u.attempts[i].status = "active" => i = c + 1
  <2>1. CASE i = c + 1
    BY <2>1, <1>1, <1>4, PoolAssumption
  <2>2. CASE i \in 1..c
    <3>1. t.status \notin Executing
      BY DEF CanClaim, Executing
    <3>. QED  BY <2>2, <3>1, <1>4, RowFields DEF RowOK
  <2>3. i = c + 1 \/ i \in 1..c
    BY RowFields
  <2>. QED  BY <2>1, <2>2, <2>3
<1>6. u.status \in Executing /\ u.available <= RetryDelay /\ u.status # "absent"
  BY <1>2 DEF Executing, RowOK
<1>7. RowOK(u)
  BY <1>3, <1>4, <1>5, <1>6 DEF RowOK, AttemptCount
<1>. QED  BY <1>2, <1>4, <1>7 DEF u, AttemptCount

\* TaskAttempt.renew: an attempt is renewed once, its lease grows by a ttl.
LEMMA RenewedRow ==
  ASSUME NEW t, RowOK(t), NEW n, NEW expiry,
         CanRenew(t, n, 1, expiry, 0),
         expiry = t.attempts[n].lease + LeaseTTL
  PROVE  Keeps(t, RenewTask(t, n, 1, expiry))
<1> DEFINE u == RenewTask(t, n, 1, expiry)
           a == [t.attempts[n] EXCEPT !.renewal = 1, !.lease = expiry]
<1>1. /\ n \in DOMAIN t.attempts /\ t.attempts[n].status = "active"
      /\ t.attempts[n].renewal < 1 /\ t.status \in Executing
      /\ t.attempts[n] \in Attempt
  BY RowFields DEF CanRenew, HoldsLease, IsActive
<1>2. t.attempts[n].renewal = 0 /\ t.attempts[n].lease <= LeaseTTL
  BY <1>1 DEF RowOK, Attempt
<1>3. /\ a \in Attempt /\ a.lease = expiry /\ a.renewal = 1
      /\ a.status = "active" /\ expiry <= 2 * LeaseTTL
  <2>1. expiry \in Nat /\ expiry <= 2 * LeaseTTL
    <3>1. t.attempts[n].lease \in Nat
      BY <1>1 DEF Attempt
    <3>. QED  BY <1>2, <3>1, PoolAssumption
  <2>. QED  BY <1>1, <2>1 DEF Attempt
<1> HIDE DEF a
<1>4. u = [t EXCEPT !.attempts = [t.attempts EXCEPT ![n] = a]]
  BY RowFields DEF RenewTask, Task, a
<1>5. /\ [t.attempts EXCEPT ![n] = a] \in Seq(Attempt)
      /\ Len([t.attempts EXCEPT ![n] = a]) = Len(t.attempts)
  BY <1>1, <1>3, RowFields
<1>6. /\ u \in Task /\ u.status = t.status /\ u.available = t.available
      /\ u.result = t.result /\ u.attempts = [t.attempts EXCEPT ![n] = a]
  BY <1>4, <1>5, RowFields DEF Task
<1> HIDE DEF u
<1>7. AttemptCount(u) = AttemptCount(t) /\ n = AttemptCount(t)
  BY <1>1, <1>5, <1>6 DEF AttemptCount, RowOK
<1>8. ASSUME NEW i \in DOMAIN u.attempts
      PROVE  /\ u.attempts[i].lease <= 2 * LeaseTTL
             /\ u.attempts[i].renewal = 0 => u.attempts[i].lease <= LeaseTTL
             /\ u.attempts[i].status = "active" => i = AttemptCount(t)
  <2>1. DOMAIN u.attempts = DOMAIN t.attempts
    BY <1>6, RowFields
  <2>2. CASE i = n
    BY <2>1, <2>2, <1>1, <1>3, <1>6, <1>7, RowFields
  <2>3. CASE i # n
    <3>1. u.attempts[i] = t.attempts[i]
      BY <2>1, <2>3, <1>6, RowFields
    <3>. QED  BY <2>1, <3>1, <1>8 DEF RowOK
  <2>. QED  BY <2>2, <2>3
<1>9. RowOK(u)
  BY <1>1, <1>6, <1>7, <1>8 DEF RowOK
<1>. QED  BY <1>6, <1>7, <1>9, RowFields DEF Keeps, u

\* Task.request_cancel, requeue_due and request_manual_retry.
LEMMA MovedRow ==
  ASSUME NEW t, RowOK(t), NEW u,
         \/ CanRequestCancel(t) /\ u = Stored(RequestCancelTask(t, Client))
         \/ CanRequeueDue(t, 0, 0) /\ u = Stored(RequeueDueTask(t, 0, 0))
         \/ CanManualRetry(t, Client) /\ u = Stored(ManualRetryTask(t, Client, 0))
  PROVE  Keeps(t, u)
<1>1. /\ u \in Task /\ u.attempts = t.attempts
      /\ u.available \in {0, t.available}
      /\ u.status \in {"queued", "cancelled", "cancel_requested"}
      /\ t.status \in Executing => u.status \in Executing
  <2>0. /\ t \in Task /\ t.available \in Nat /\ 0 \in Nat
        /\ t.attempts \in Seq(Attempt) /\ t.failed \in BOOLEAN
        /\ t.result \in Fingerprints \cup {NoFingerprint}
        /\ NoFingerprint \in Fingerprints \cup {NoFingerprint}
        /\ <<>> \in Seq(Event)
    BY RowFields DEF Task
  <2>1. CASE CanRequestCancel(t) /\ u = Stored(RequestCancelTask(t, Client))
    <3>1. u = [t EXCEPT !.cancelAsked = TRUE, !.events = <<>>, !.status =
                 IF t.status = "running" THEN "cancel_requested" ELSE "cancelled"]
      BY <2>0, <2>1 DEF Stored, RequestCancelTask, Task
    <3>2. u \in Task
      BY <2>0, <3>1 DEF Task, TaskStatus
    <3>. QED  BY <2>0, <2>1, <3>1, <3>2 DEF CanRequestCancel, Executing, Task
  <2>2. CASE CanRequeueDue(t, 0, 0) /\ u = Stored(RequeueDueTask(t, 0, 0))
    <3>1. u = [t EXCEPT !.status = "queued", !.available = 0, !.events = <<>>]
      BY <2>0, <2>2 DEF Stored, RequeueDueTask, Task
    <3>. QED  BY <2>0, <2>2, <3>1 DEF CanRequeueDue, Executing, Task, TaskStatus
  <2>3. CASE CanManualRetry(t, Client) /\ u = Stored(ManualRetryTask(t, Client, 0))
    <3>1. u = [t EXCEPT !.status = "queued", !.available = 0, !.failed = FALSE,
                        !.result = NoFingerprint, !.events = <<>>]
      BY <2>0, <2>3 DEF Stored, ManualRetryTask, Task
    <3>. QED  BY <2>0, <2>3, <3>1 DEF CanManualRetry, Executing, Task, TaskStatus
  <2>. QED  BY <2>1, <2>2, <2>3
<1>2. u.available <= RetryDelay
  BY <1>1, PoolAssumption DEF RowOK
<1>3. RowOK(u) /\ AttemptCount(u) = AttemptCount(t)
  BY <1>1, <1>2, SameAttempts
<1>. QED  BY <1>1, <1>3, RowFields DEF Keeps

\* Task.confirm_cancel
LEMMA CancelledRow ==
  ASSUME NEW t, RowOK(t), NEW n, CanConfirmCancel(t, n, 0)
  PROVE  Keeps(t, Stored(ConfirmCancelTask(t, n)))
<1> DEFINE u == Stored(ConfirmCancelTask(t, n))
           a == FinishAttempt(t.attempts[n], "cancelled", "none", NoFingerprint)
<1>1. IsActive(t, n) /\ n \in DOMAIN t.attempts /\ t.attempts[n] \in Attempt
  BY RowFields DEF CanConfirmCancel, HoldsLease, IsActive
<1>2. /\ a \in Attempt /\ a.lease = t.attempts[n].lease
      /\ a.renewal = t.attempts[n].renewal /\ a.status = "cancelled"
  BY <1>1, FinishedAttempt DEF AttemptStatus, FailureCategory
<1> HIDE DEF a
<1>3. u = [t EXCEPT !.status = "cancelled", !.events = <<>>,
                    !.attempts = [t.attempts EXCEPT ![n] = a]]
  BY RowFields DEF Stored, ConfirmCancelTask, Task, a
<1>4. [t.attempts EXCEPT ![n] = a] \in Seq(Attempt) /\ <<>> \in Seq(Event)
  BY <1>1, <1>2, RowFields
<1>5. /\ u \in Task /\ u.available <= RetryDelay /\ u.status = "cancelled"
      /\ u.attempts = [t.attempts EXCEPT ![n] = a]
  BY <1>3, <1>4, RowFields DEF Task, TaskStatus, RowOK
<1> HIDE DEF u
<1>6. RowOK(u) /\ AttemptCount(u) = AttemptCount(t)
  BY <1>1, <1>2, <1>5, Finished
<1>. QED  BY <1>5, <1>6, RowFields DEF Keeps, u

\* Task.fail: a transient failure waits for its retry, while attempts are left.
LEMMA FailedRow ==
  ASSUME NEW t, RowOK(t), NEW n, NEW c \in {"transient", "permanent"},
         NEW r \in Fingerprints \cup {NoFingerprint}, NEW at \in Int,
         at <= RetryDelay, CanFail(t, n, c, at, 0)
  PROVE  Keeps(t, Stored(FailTask(t, n, c, r, at)))
<1> DEFINE u == Stored(FailTask(t, n, c, r, at))
           a == FinishAttempt(t.attempts[n], "failed", c, r)
           retry == IsRetryable(t, c)
           s == IF retry THEN "retry_wait" ELSE "failed"
           v == IF retry THEN at ELSE t.available
           q == [t.attempts EXCEPT ![n] = a]
<1>1. IsActive(t, n) /\ n \in DOMAIN t.attempts /\ t.attempts[n] \in Attempt
  BY RowFields DEF CanFail, HoldsLease, IsActive
<1>2. /\ a \in Attempt /\ a.lease = t.attempts[n].lease
      /\ a.renewal = t.attempts[n].renewal /\ a.status = "failed"
  <2>1. /\ "failed" \in AttemptStatus /\ c \in FailureCategory
        /\ r \in Fingerprints \cup {NoFingerprint}
    BY DEF AttemptStatus, FailureCategory
  <2>. QED  BY <1>1, <2>1, FinishedAttempt
<1>3. v \in Nat /\ v <= RetryDelay /\ s \in TaskStatus
      /\ s \notin {"succeeded", "absent"}
  BY RowFields DEF CanFail, RowOK, TaskStatus
<1> HIDE DEF a
<1>4. u = [t EXCEPT !.status = s, !.available = v, !.result = r,
                    !.failed = TRUE, !.attempts = q, !.events = <<>>]
  BY RowFields DEF Stored, FailTask, Task, a
<1>5. q \in Seq(Attempt)
  BY <1>1, <1>2, RowFields
<1> HIDE DEF s, v, retry, u, q
<1>6. /\ u \in Task /\ u.available <= RetryDelay /\ u.status = s
      /\ u.attempts = q
  <2>1. /\ t \in Task /\ <<>> \in Seq(Event)
        /\ r \in Fingerprints \cup {NoFingerprint}
    BY RowFields
  <2>. QED  BY <1>3, <1>4, <1>5, <2>1 DEF Task
<1>7. u.status \notin {"succeeded", "absent"}
  BY <1>3, <1>6
<1>8. RowOK(u) /\ AttemptCount(u) = AttemptCount(t)
  BY <1>1, <1>2, <1>6, <1>7, Finished DEF q
<1>. QED  BY <1>7, <1>8, RowFields DEF Keeps, u

\* Task.recover_expired_attempt, without a delay.
LEMMA RecoveredRow ==
  ASSUME NEW t, RowOK(t), NEW n, CanRecover(t, n, 0)
  PROVE  Keeps(t, Stored(RecoverTask(t, n, 0, 0)))
<1> DEFINE u == Stored(RecoverTask(t, n, 0, 0))
           a == FinishAttempt(t.attempts[n], "expired", "lease_expired", NoFingerprint)
           s == RecoveryOutcome(t, 0, 0)
           v == IF s = "queued" THEN 0 ELSE t.available
           f == t.failed \/ s = "failed"
           q == [t.attempts EXCEPT ![n] = a]
<1>1. IsActive(t, n) /\ n \in DOMAIN t.attempts /\ t.attempts[n] \in Attempt
  BY RowFields DEF CanRecover, IsActive
<1>2. /\ a \in Attempt /\ a.lease = t.attempts[n].lease
      /\ a.renewal = t.attempts[n].renewal /\ a.status = "expired"
  BY <1>1, FinishedAttempt DEF AttemptStatus, FailureCategory
<1>3. s \in {"cancelled", "failed", "queued"}
  BY DEF RecoveryOutcome
<1>4. v \in Nat /\ v <= RetryDelay
  BY RowFields, PoolAssumption DEF RowOK
<1> HIDE DEF a
<1>5. u = [t EXCEPT !.status = s, !.available = v, !.result = t.result,
                    !.failed = f, !.attempts = q, !.events = <<>>]
  BY <1>3, RowFields DEF Stored, RecoverTask, Task, a
<1>6. q \in Seq(Attempt)
  BY <1>1, <1>2, RowFields
<1>7. f \in BOOLEAN /\ s \in TaskStatus /\ t \in Task
      /\ t.result \in Fingerprints \cup {NoFingerprint} /\ <<>> \in Seq(Event)
  BY <1>3, RowFields DEF Task, TaskStatus
<1> HIDE DEF s, v, f, q, u
<1>8. u \in Task /\ u.available = v /\ u.status = s /\ u.attempts = q
  BY <1>4, <1>5, <1>6, <1>7 DEF Task
<1>9. u.status \notin {"succeeded", "absent"}
  BY <1>3, <1>8
<1>10. RowOK(u) /\ AttemptCount(u) = AttemptCount(t)
  BY <1>1, <1>2, <1>4, <1>8, <1>9, Finished DEF q
<1>. QED  BY <1>9, <1>10, RowFields DEF Keeps, u

\* Task.complete
LEMMA CompletedRow ==
  ASSUME NEW t, RowOK(t), NEW n, NEW r \in Fingerprints \cup {NoFingerprint},
         CanComplete(t, n, 0)
  PROVE  LET u == Stored(CompleteTask(t, n, r)) IN
         /\ RowOK(u) /\ AttemptCount(u) = AttemptCount(t)
         /\ u.status = "succeeded" /\ u.result = r
<1> DEFINE u == Stored(CompleteTask(t, n, r))
           a == FinishAttempt(t.attempts[n], "succeeded", "none", r)
           q == [t.attempts EXCEPT ![n] = a]
<1>1. IsActive(t, n) /\ n \in DOMAIN t.attempts /\ t.attempts[n] \in Attempt
  BY RowFields DEF CanComplete, HoldsLease, IsActive
<1>2. /\ a \in Attempt /\ a.lease = t.attempts[n].lease
      /\ a.renewal = t.attempts[n].renewal /\ a.status = "succeeded"
  <2>1. /\ "succeeded" \in AttemptStatus /\ "none" \in FailureCategory
        /\ r \in Fingerprints \cup {NoFingerprint}
    BY DEF AttemptStatus, FailureCategory
  <2>. QED  BY <1>1, <2>1, FinishedAttempt
<1> HIDE DEF a
<1>3. u = [t EXCEPT !.status = "succeeded", !.available = t.available,
                    !.result = r, !.failed = FALSE, !.attempts = q,
                    !.events = <<>>]
  BY RowFields DEF Stored, CompleteTask, Task, a
<1>4. q \in Seq(Attempt) /\ "succeeded" \in TaskStatus
  BY <1>1, <1>2, RowFields DEF TaskStatus
<1> HIDE DEF q, u
<1>5. /\ u \in Task /\ u.available = t.available /\ u.status = "succeeded"
      /\ u.result = r /\ u.attempts = q
  <2>1. /\ t \in Task /\ t.available \in Nat /\ <<>> \in Seq(Event)
        /\ r \in Fingerprints \cup {NoFingerprint}
    BY RowFields
  <2>. QED  BY <1>3, <1>4, <2>1 DEF Task
<1>6. RowOK(u) /\ AttemptCount(u) = AttemptCount(t)
  <2>1. u.available <= RetryDelay
    BY <1>5 DEF RowOK
  <2>. QED  BY <1>1, <1>2, <1>5, <2>1, Finished DEF q
<1>. QED  BY <1>5, <1>6 DEF u

\* Time passes: leases and the retry time come nearer.
LEMMA LaterRow ==
  ASSUME NEW t, RowOK(t)
  PROVE  Keeps(t, [t EXCEPT !.available = Sooner(@, 0),
                            !.attempts = [n \in DOMAIN t.attempts |->
                               [t.attempts[n] EXCEPT !.lease = Sooner(@, 0)]]])
<1> DEFINE b == [n \in DOMAIN t.attempts |->
                   [t.attempts[n] EXCEPT !.lease = Sooner(@, 0)]]
           u == [t EXCEPT !.available = Sooner(@, 0), !.attempts = b]
<1>1. ASSUME NEW n \in DOMAIN t.attempts
      PROVE  /\ b[n] \in Attempt /\ b[n].lease <= t.attempts[n].lease
             /\ b[n].renewal = t.attempts[n].renewal
             /\ b[n].status = t.attempts[n].status
  <2>1. t.attempts[n] \in Attempt
    BY RowFields
  <2>. QED  BY <2>1 DEF Attempt, Sooner
<1>2. DOMAIN b = 1..AttemptCount(t) /\ b \in Seq(Attempt) /\ Len(b) = AttemptCount(t)
  <2>1. DOMAIN b = 1..AttemptCount(t) /\ b \in [1..AttemptCount(t) -> Attempt]
    BY <1>1, RowFields
  <2>2. AttemptCount(t) \in Nat
    BY RowFields
  <2> HIDE DEF b
  <2>3. b \in Seq(Attempt)
    BY <2>1, <2>2
  <2>. QED  BY <2>1, <2>2, <2>3
<1> HIDE DEF b
<1>3. /\ u \in Task /\ u.available <= RetryDelay /\ u.status = t.status
      /\ u.result = t.result /\ u.attempts = b
  <2>1. t.available \in Nat /\ t.available <= RetryDelay
    BY RowFields DEF RowOK
  <2>2. Sooner(t.available, 0) \in Nat /\ Sooner(t.available, 0) <= RetryDelay
    BY <2>1, PoolAssumption DEF Sooner
  <2>. QED  BY <1>2, <2>2, RowFields DEF Task
<1> HIDE DEF u
<1>4. RowOK(u)
  <2>1. ASSUME NEW n \in DOMAIN u.attempts
        PROVE  /\ u.attempts[n].lease <= 2 * LeaseTTL
               /\ u.attempts[n].renewal = 0 => u.attempts[n].lease <= LeaseTTL
               /\ u.attempts[n].status = "active"
                     => n = AttemptCount(t) /\ t.status \in Executing
    <3>1. n \in DOMAIN t.attempts /\ t.attempts[n] \in Attempt /\ b[n] \in Attempt
      BY <1>1, <1>2, <1>3, <2>1, RowFields
    <3>2. t.attempts[n].lease \in Nat /\ b[n].lease \in Nat
      BY <3>1 DEF Attempt
    <3>3. u.attempts[n] = b[n]
      BY <1>3
    <3>. QED  BY <1>1, <3>1, <3>2, <3>3, PoolAssumption DEF RowOK
  <2>. QED  BY <1>2, <1>3, <2>1 DEF RowOK, AttemptCount
<1>. QED  BY <1>2, <1>3, <1>4, RowFields DEF Keeps, AttemptCount, u, b

-----------------------------------------------------------------------------
(* Steps that leave the executions alone, and steps of one execution.      *)

\* The schedulers, the owner and an idle worker change the row at most.
LEMMA ScheduleStep ==
  ASSUME PoolInv, Keeps(task, task'), UNCHANGED <<work, files, overlap>>,
         pc' \in [Workers -> Stage \cup Executions],
         \A v \in Workers : \/ pc'[v] = pc[v]
                            \/ pc[v] \in Stage /\ pc'[v] \in Stage
  PROVE  PoolInv'
<1>1. RowOK(task)' /\ AttemptCount(task)' >= AttemptCount(task)
  BY DEF Keeps
<1>2. FilesOK'
  BY DEF FilesOK, DeliverableExists, Keeps, PoolInv, files
<1>3. ASSUME NEW v \in Workers PROVE WorkerOK(v)'
  <2>1. WorkerOK(v) /\ work'[v] = work[v] /\ manifest' = manifest
        /\ document' = document /\ overlap' = overlap
    BY DEF PoolInv, files
  <2>2. AttemptOf(v)'
    <3>1. 1..AttemptCount(task) \subseteq 1..AttemptCount(task)'
      BY <1>1, RowFields DEF PoolInv
    <3>2. Alive(v)' <=> Alive(v)
      BY DEF Alive
    <3>. QED  BY <2>1, <3>1, <3>2 DEF WorkerOK, AttemptOf
  <2>3. CASE pc'[v] = pc[v]
    BY <2>1, <2>2, <2>3 DEF WorkerOK, Storing, Alone
  <2>4. CASE pc[v] \in Stage /\ pc'[v] \in Stage
    BY <2>1, <2>2, <2>4 DEF WorkerOK, Storing, Alone, Stage
  <2>. QED  BY <2>3, <2>4
<1>4. ASSUME NEW v \in Workers, NEW w \in Workers PROVE Apart(v, w)'
  <2>1. Apart(v, w) /\ work' = work /\ overlap' = overlap
    BY DEF PoolInv
  <2>2. /\ (Alive(v)' <=> Alive(v)) /\ (Alive(w)' <=> Alive(w))
        /\ (InStore(v)' <=> InStore(v)) /\ (InStore(w)' <=> InStore(w))
    BY DEF Alive, InStore, Stage
  <2>. QED  BY <2>1, <2>2 DEF Apart
<1>. QED  BY <1>1, <1>2, <1>3, <1>4 DEF PoolInv

\* An execution that enters the store finds nobody there, unless they overlap.
MayBe(w, x) ==
  x \in {"save", "stage", "look", "write"} /\ ~overlap'
     => InStore(w) \/ \A v \in Workers : ~InStore(v)

\* One execution goes on; what is stored stays stored, and what another one
\* that succeeded relies on stays the same.
LEMMA ExecutionStep ==
  ASSUME PoolInv, NEW w \in Workers, Alive(w), Keeps(task, task'),
         NEW x \in Executions,
         pc' = [pc EXCEPT ![w] = x],
         NEW new \in Work, work' = [work EXCEPT ![w] = new],
         new.attempt = work[w].attempt, new.retryAt <= RetryDelay,
         overlap' \in BOOLEAN, overlap => overlap', MayBe(w, x), FilesOK',
         manifest # NoFingerprint => manifest' # NoFingerprint,
         document # NoFingerprint => document' # NoFingerprint,
         InStore(w) \/ (manifest' = manifest /\ document' = document),
         ConversationBound /\ ~overlap
            => /\ manifest' = manifest \/ manifest = NoFingerprint
               /\ document' = document \/ document = NoFingerprint,
         Storing(w)', ConversationBound /\ ~overlap' => Alone(w)'
  PROVE  PoolInv'
<1>1. RowOK(task)' /\ AttemptCount(task)' >= AttemptCount(task)
  BY DEF Keeps
<1>2. /\ pc' \in [Workers -> Stage \cup Executions] /\ work' \in [Workers -> Work]
      /\ pc'[w] = x /\ work'[w] = new
      /\ \A v \in Workers : v # w => pc'[v] = pc[v] /\ work'[v] = work[v]
  BY DEF PoolInv
<1>3. \A v \in Workers : /\ Alive(v)' <=> Alive(v)
                         /\ work'[v].attempt = work[v].attempt
  BY <1>2 DEF Alive, Stage, Executions
<1>4. ASSUME NEW v \in Workers PROVE AttemptOf(v)'
  <2>1. 1..AttemptCount(task) \subseteq 1..AttemptCount(task)'
    BY <1>1, RowFields DEF PoolInv
  <2>2. AttemptOf(v)
    BY DEF PoolInv, WorkerOK
  <2>. QED  BY <2>1, <2>2, <1>3 DEF AttemptOf
<1>5. ASSUME NEW v \in Workers PROVE WorkerOK(v)'
  <2>1. WorkerOK(v) /\ AttemptOf(v)'
    BY <1>4 DEF PoolInv
  <2>2. CASE v = w
    BY <2>1, <2>2, <1>2 DEF WorkerOK
  <2>3. CASE v # w
    <3>1. pc'[v] = pc[v] /\ work'[v] = work[v]
      BY <2>3, <1>2
    <3>2. Storing(v)'
      BY <2>1, <3>1 DEF WorkerOK, Storing
    <3>3. ASSUME ConversationBound, ~overlap' PROVE Alone(v)'
      <4>1. ~overlap /\ Alone(v)
        BY <2>1, <3>3 DEF WorkerOK
      <4>2. CASE InStore(v)
        <5>1. ~InStore(w)
          BY <2>3, <4>1, <4>2 DEF PoolInv, Apart
        <5>. QED  BY <3>1, <4>1, <5>1 DEF Alone
      <4>3. CASE pc[v] = "commit" /\ work[v].outcome = "success"
        <5>1. manifest # NoFingerprint /\ document # NoFingerprint
          BY <4>1, <4>3, SameArtifactsFacts DEF Alone
        <5>2. manifest' = manifest /\ document' = document
          BY <3>3, <4>1, <5>1
        <5>. QED  BY <3>1, <4>1, <5>2 DEF Alone
      <4>4. CASE ~InStore(v) /\ ~(pc[v] = "commit" /\ work[v].outcome = "success")
        BY <3>1, <4>4 DEF Alone, InStore
      <4>. QED  BY <4>2, <4>3, <4>4
    <3>. QED  BY <2>1, <3>1, <3>2, <3>3 DEF WorkerOK
  <2>. QED  BY <2>2, <2>3
<1>6. ASSUME NEW v \in Workers, NEW u \in Workers PROVE Apart(v, u)'
  <2>1. Apart(v, u) /\ Apart(u, v)
    BY DEF PoolInv
  <2>2. \A z \in Workers : z # w => (InStore(z)' <=> InStore(z))
    BY <1>2 DEF InStore
  <2>3. InStore(w)' /\ ~overlap'
           => ~overlap /\ (InStore(w) \/ \A z \in Workers : ~InStore(z))
    BY <1>2 DEF InStore, MayBe
  <2>4. Alive(v)' /\ Alive(u)' /\ work'[v].attempt = work'[u].attempt => v = u
    BY <2>1, <1>3 DEF Apart
  <2>5. InStore(v)' /\ InStore(u)' /\ ~overlap' => v = u
    BY <2>1, <2>2, <2>3 DEF Apart
  <2>. QED  BY <2>4, <2>5 DEF Apart
<1>. QED  BY <1>1, <1>2, <1>5, <1>6 DEF PoolInv

\* The row as it is.
LEMMA SameRow ==
  ASSUME PoolInv, task' = task
  PROVE  Keeps(task, task')
BY RowFields DEF PoolInv, Keeps, RowOK

\* What ExecutionStep needs of a step that leaves row and files alone.
LEMMA ThinkingStep ==
  ASSUME PoolInv, NEW w \in Workers, Alive(w),
         UNCHANGED <<task, files, overlap>>,
         NEW x \in Executions,
         pc' = [pc EXCEPT ![w] = x],
         NEW new \in Work, work' = [work EXCEPT ![w] = new],
         new.attempt = work[w].attempt, new.retryAt <= RetryDelay,
         MayBe(w, x), Storing(w)', ConversationBound /\ ~overlap => Alone(w)'
  PROVE  PoolInv'
<1>1. FilesOK'
  BY DEF PoolInv, FilesOK, DeliverableExists, files
<1>2. Keeps(task, task')
  BY SameRow
<1>3. /\ overlap' = overlap /\ manifest' = manifest /\ document' = document
      /\ overlap' \in BOOLEAN
  BY DEF files, PoolInv
<1>4. /\ overlap => overlap'
      /\ manifest # NoFingerprint => manifest' # NoFingerprint
      /\ document # NoFingerprint => document' # NoFingerprint
      /\ InStore(w) \/ (manifest' = manifest /\ document' = document)
      /\ ConversationBound /\ ~overlap
            => /\ manifest' = manifest \/ manifest = NoFingerprint
               /\ document' = document \/ document = NoFingerprint
      /\ ConversationBound /\ ~overlap' => Alone(w)'
  BY <1>3
<1>. QED  BY <1>1, <1>2, <1>3, <1>4, ExecutionStep

\* The record of an execution that ends.
LEMMA EndsRecord ==
  ASSUME PoolInv, NEW w \in Workers,
         NEW outcome \in Outcome,
         NEW r \in Fingerprints \cup {NoFingerprint}, NEW at \in {0, RetryDelay},
         Ends(w, outcome, r, at)
  PROVE  \E new \in Work :
           /\ work' = [work EXCEPT ![w] = new]
           /\ new.attempt = work[w].attempt /\ new.retryAt <= RetryDelay
           /\ new.outcome = outcome /\ new.result = r
           /\ pc' = [pc EXCEPT ![w] = "commit"]
           /\ work'[w] = new /\ pc'[w] = "commit"
<1> DEFINE new == [work[w] EXCEPT !.outcome = outcome, !.result = r, !.retryAt = at]
<1>1. work[w] \in Work /\ DOMAIN work = Workers /\ DOMAIN pc = Workers
  BY DEF PoolInv, WorkerOK
<1>2. /\ new \in Work /\ new.attempt = work[w].attempt /\ new.retryAt <= RetryDelay
      /\ new.outcome = outcome /\ new.result = r
  <2>1. at \in Int /\ at <= RetryDelay /\ r \in Fingerprints \cup {NoFingerprint}
    BY PoolAssumption
  <2>. QED  BY <1>1, <2>1 DEF Work
<1>3. work' = [work EXCEPT ![w] = new] /\ pc' = [pc EXCEPT ![w] = "commit"]
  BY DEF Ends, GoTo
<1> HIDE DEF new
<1>. QED  BY <1>1, <1>2, <1>3

\* An execution that ends without success has nothing to show.
LEMMA EndsStep ==
  ASSUME PoolInv, NEW w \in Workers, Alive(w),
         NEW outcome \in Outcome \ {"success"},
         NEW r \in Fingerprints \cup {NoFingerprint}, NEW at \in {0, RetryDelay},
         Ends(w, outcome, r, at), UNCHANGED <<task, files, overlap>>
  PROVE  PoolInv'
<1>1. PICK new \in Work :
         /\ work' = [work EXCEPT ![w] = new]
         /\ new.attempt = work[w].attempt /\ new.retryAt <= RetryDelay
         /\ new.outcome = outcome /\ new.result = r
         /\ pc' = [pc EXCEPT ![w] = "commit"]
         /\ work'[w] = new /\ pc'[w] = "commit"
  <2>1. outcome \in Outcome /\ r \in Fingerprints \cup {NoFingerprint}
    OBVIOUS
  <2>. QED  BY <2>1, EndsRecord
<1>2. Storing(w)' /\ Alone(w)' /\ MayBe(w, "commit")
  BY <1>1 DEF Storing, Alone, MayBe
<1>. QED  BY <1>1, <1>2, ThinkingStep DEF Executions

\* An execution that moves on with what it knows.
LEMMA GoesOn ==
  ASSUME PoolInv, NEW w \in Workers, Alive(w),
         NEW x \in Executions,
         GoTo(w, x), UNCHANGED <<task, work, files, overlap>>,
         MayBe(w, x), Storing(w)', ConversationBound /\ ~overlap => Alone(w)'
  PROVE  PoolInv'
<1>1. PICK new : new = work[w]
  OBVIOUS
<1>2. /\ new \in Work /\ new.attempt = work[w].attempt /\ new.retryAt <= RetryDelay
      /\ work' = [work EXCEPT ![w] = new]
  BY <1>1 DEF PoolInv, WorkerOK
<1>3. /\ pc' = [pc EXCEPT ![w] = x] /\ UNCHANGED <<task, files, overlap>>
      /\ x \in Executions
  BY DEF GoTo
<1>. QED  BY <1>2, <1>3, ThinkingStep

-----------------------------------------------------------------------------
(* One lemma for the steps of each kind.                                   *)

\* Recovery, retry and an idle poll.
LEMMA StagesKeep ==
  ASSUME PoolInv, NEW w \in Workers,
         RecoveryStage(w) \/ RetryStage(w) \/ PollIdle(w)
  PROVE  PoolInv'
<1>1. RowOK(task) /\ Keeps(task, task)
  BY RowFields DEF PoolInv, Keeps
<1>2. Keeps(task, task')
  <2>1. CASE RecoveryStage(w)
    BY <2>1, <1>1, RecoveredRow DEF RecoveryStage
  <2>2. CASE RetryStage(w)
    BY <2>2, <1>1, MovedRow DEF RetryStage
  <2>3. CASE PollIdle(w)
    BY <2>3, <1>1 DEF PollIdle
  <2>. QED  BY <2>1, <2>2, <2>3
<1>3. PICK x \in Stage : pc[w] \in Stage /\ pc' = [pc EXCEPT ![w] = x]
                         /\ UNCHANGED <<work, files, overlap>>
  BY DEF RecoveryStage, RetryStage, PollIdle, GoTo, Stage
<1>4. /\ pc' \in [Workers -> Stage \cup Executions]
      /\ \A v \in Workers : \/ pc'[v] = pc[v]
                            \/ pc[v] \in Stage /\ pc'[v] \in Stage
  BY <1>3 DEF PoolInv
<1>. QED  BY <1>2, <1>3, <1>4, ScheduleStep

\* The owner submits, cancels or retries.
LEMMA OwnerKeeps ==
  ASSUME PoolInv, Submit \/ Cancel \/ ManualRetry
  PROVE  PoolInv'
<1>1. Keeps(task, task')
  <2>1. CASE Submit
    <3>1. Snapshot \in Fingerprints /\ task' = Stored(NewTask(Snapshot, 0))
      BY <2>1, PoolAssumption DEF Submit
    <3>2. RowOK(task') /\ task'.status = "queued" /\ AttemptCount(task') = 0
      BY <3>1, NewRow
    <3>3. AttemptCount(task) = 0
      BY <2>1 DEF Submit, PoolInv, RowOK
    <3>. QED  BY <3>2, <3>3 DEF Keeps
  <2>2. CASE Cancel
    BY <2>2, MovedRow DEF Cancel, PoolInv
  <2>3. CASE ManualRetry
    BY <2>3, MovedRow DEF ManualRetry, PoolInv
  <2>. QED  BY <2>1, <2>2, <2>3
<1>2. UNCHANGED <<pc, work, files, overlap>>
  BY DEF Submit, Cancel, ManualRetry
<1>3. /\ pc' \in [Workers -> Stage \cup Executions]
      /\ \A v \in Workers : pc'[v] = pc[v]
  BY <1>2 DEF PoolInv
<1>. QED  BY <1>1, <1>2, <1>3, ScheduleStep

\* Reading, rendering and checking.
LEMMA ThinkingKeeps ==
  ASSUME PoolInv, NEW w \in Workers,
         ReadSnapshot(w) \/ Render(w) \/ CheckBeforeSave(w)
  PROVE  PoolInv'
<1>1. /\ pc[w] \in {"read", "render", "check"} /\ Alive(w)
      /\ UNCHANGED <<task, files>>
      /\ NoFingerprint \in Fingerprints \cup {NoFingerprint}
      /\ FailureCode \in Fingerprints \cup {NoFingerprint}
  BY PoolAssumption
     DEF ReadSnapshot, Render, CheckBeforeSave, Alive, Stage
<1>2. ASSUME NEW outcome \in Outcome \ {"success"},
             NEW r \in Fingerprints \cup {NoFingerprint},
             NEW at \in {0, RetryDelay}, Ends(w, outcome, r, at),
             UNCHANGED overlap
      PROVE  PoolInv'
  BY <1>1, <1>2, EndsStep
<1>3. CASE /\ \/ Ends(w, "cancelled", NoFingerprint, 0)
              \/ Fails(w)
              \/ Ends(w, "transient", FailureCode, RetryDelay)
           /\ UNCHANGED overlap
  <2>1. /\ "cancelled" \in Outcome \ {"success"}
        /\ "permanent" \in Outcome \ {"success"}
        /\ "transient" \in Outcome \ {"success"}
    BY DEF Outcome
  <2>. QED  BY <1>1, <1>2, <1>3, <2>1 DEF Fails
<1>4. CASE GoTo(w, "renew") /\ UNCHANGED <<work, overlap>>
  <2>1. Storing(w)' /\ Alone(w)' /\ MayBe(w, "renew")
    BY <1>4 DEF PoolInv, GoTo, Storing, Alone, MayBe
  <2>. QED  BY <1>1, <1>4, <2>1, GoesOn DEF Executions
<1>5. CASE /\ GoTo(w, "save") /\ UNCHANGED work /\ pc[w] = "check"
           /\ overlap' = (overlap \/ \E v \in Workers : InStore(v))
  <2>1. pc'[w] = "save" /\ work' = work /\ Storing(w)
    BY <1>5 DEF PoolInv, GoTo, WorkerOK
  <2>2. Storing(w)' /\ Alone(w)' /\ MayBe(w, "save")
    BY <2>1, <1>5 DEF Storing, Alone, MayBe
  <2>3. PICK new : new = work[w]
    OBVIOUS
  <2>4. /\ new \in Work /\ new.attempt = work[w].attempt
        /\ new.retryAt <= RetryDelay /\ work' = [work EXCEPT ![w] = new]
        /\ pc' = [pc EXCEPT ![w] = "save"] /\ "save" \in Executions
    BY <1>5, <2>3 DEF PoolInv, WorkerOK, GoTo, Executions
  <2>5. overlap' \in BOOLEAN /\ (overlap => overlap')
    BY <1>5 DEF PoolInv
  <2>6. FilesOK'
    BY <1>1, <2>5 DEF PoolInv, FilesOK, DeliverableExists, files
  <2>7. /\ Keeps(task, task') /\ manifest' = manifest /\ document' = document
    BY <1>1, SameRow DEF files
  <2>. QED  BY <1>1, <2>2, <2>4, <2>5, <2>6, <2>7, ExecutionStep
<1>6. ASSUME NEW f \in Results, work' = [work EXCEPT ![w].result = f],
             GoTo(w, "check"), UNCHANGED overlap
      PROVE  PoolInv'
  <2>1. PICK new : new = [work[w] EXCEPT !.result = f]
    OBVIOUS
  <2>2. /\ work[w] \in Work /\ work[w].retryAt <= RetryDelay
        /\ f \in Fingerprints
    BY PoolAssumption DEF PoolInv, WorkerOK, Results
  <2>3. /\ new \in Work /\ new.attempt = work[w].attempt
        /\ new.retryAt <= RetryDelay /\ new.result = f
    BY <2>1, <2>2 DEF Work
  <2>4. work' = [work EXCEPT ![w] = new] /\ pc' = [pc EXCEPT ![w] = "check"]
    BY <1>6, <2>1 DEF GoTo
  <2>5. work'[w] = new /\ pc'[w] = "check"
    BY <2>4 DEF PoolInv
  <2>6. Storing(w)' /\ Alone(w)' /\ MayBe(w, "check")
    BY <1>6, <2>3, <2>5 DEF Storing, Alone, MayBe
  <2>. QED  BY <1>1, <1>6, <2>3, <2>4, <2>6, ThinkingStep DEF Executions
<1>. QED  BY <1>3, <1>4, <1>5, <1>6 DEF ReadSnapshot, Render, CheckBeforeSave

\* The renewal of the lease.
LEMMA RenewKeeps ==
  ASSUME PoolInv, NEW w \in Workers, RenewLease(w)
  PROVE  PoolInv'
<1> DEFINE n == work[w].attempt
           expiry == task.attempts[n].lease + LeaseTTL
<1>1. Alive(w) /\ UNCHANGED <<files, overlap>>
  BY DEF RenewLease, Alive, Stage
<1>2. CASE CanRenew(task, n, 1, expiry, 0)
  <2>1. /\ task' = RenewTask(task, n, 1, expiry)
        /\ pc' = [pc EXCEPT ![w] = "render"] /\ UNCHANGED work
    BY <1>2 DEF RenewLease, GoTo
  <2>2. Keeps(task, task')
    BY <1>2, <2>1, RenewedRow DEF PoolInv
  <2>3. PICK new : new = work[w]
    OBVIOUS
  <2>4. /\ new \in Work /\ new.attempt = work[w].attempt
        /\ new.retryAt <= RetryDelay /\ work' = [work EXCEPT ![w] = new]
    BY <2>1, <2>3 DEF PoolInv, WorkerOK
  <2>5. FilesOK'
    BY <1>1, <2>2 DEF PoolInv, FilesOK, DeliverableExists, Keeps, files
  <2>6. Storing(w)' /\ Alone(w)' /\ MayBe(w, "render")
    <3>1. pc'[w] = "render"
      BY <2>1 DEF PoolInv
    <3>. QED  BY <3>1 DEF Storing, Alone, MayBe
  <2>7. /\ overlap' = overlap /\ overlap' \in BOOLEAN
        /\ manifest' = manifest /\ document' = document
    BY <1>1 DEF PoolInv, files
  <2>8. /\ overlap => overlap'
        /\ manifest # NoFingerprint => manifest' # NoFingerprint
        /\ document # NoFingerprint => document' # NoFingerprint
        /\ InStore(w) \/ (manifest' = manifest /\ document' = document)
        /\ ConversationBound /\ ~overlap
              => /\ manifest' = manifest \/ manifest = NoFingerprint
                 /\ document' = document \/ document = NoFingerprint
        /\ ConversationBound /\ ~overlap' => Alone(w)'
        /\ "render" \in Executions
    BY <2>6, <2>7 DEF Executions
  <2>. QED  BY <1>1, <2>1, <2>2, <2>4, <2>5, <2>6, <2>7, <2>8, ExecutionStep
<1>3. CASE ~CanRenew(task, n, 1, expiry, 0)
  <2>1. Ends(w, "permanent", FailureCode, 0) /\ UNCHANGED task
    BY <1>3 DEF RenewLease, Fails
  <2>2. "permanent" \in Outcome \ {"success"}
        /\ FailureCode \in Fingerprints \cup {NoFingerprint}
    BY PoolAssumption DEF Outcome
  <2>. QED  BY <1>1, <2>1, <2>2, EndsStep
<1>. QED  BY <1>2, <1>3

\* The looks for a manifest and for a document.
LEMMA LooksKeep ==
  ASSUME PoolInv, NEW w \in Workers, LookForManifest(w) \/ LookForDocument(w)
  PROVE  PoolInv'
<1>1. /\ pc[w] \in {"save", "look"} /\ Alive(w) /\ w \in DOMAIN pc
      /\ UNCHANGED <<task, files, overlap>>
      /\ work[w].result \in Fingerprints \cup {NoFingerprint}
      /\ FailureCode \in Fingerprints \cup {NoFingerprint}
      /\ work[w].result \in Results /\ Storing(w) /\ InStore(w)
      /\ \A x : MayBe(w, x)
      /\ ConversationBound /\ ~overlap => Alone(w)
      /\ "permanent" \in Outcome \ {"success"}
  BY PoolAssumption
     DEF LookForManifest, LookForDocument, Alive, Stage, PoolInv, WorkerOK, Work,
     Storing, Outcome, InStore, MayBe
<1>2. CASE LookForManifest(w)
  <2>1. CASE /\ ConversationBound => SameArtifacts(manifest, work[w].result)
             /\ GoTo(w, "look") /\ UNCHANGED work
    <3>1. pc'[w] = "look" /\ work' = work /\ manifest' = manifest
      BY <1>1, <2>1 DEF GoTo, PoolInv, files
    <3>2. Storing(w)' /\ (ConversationBound => Alone(w)')
      BY <1>1, <2>1, <3>1, SameArtifactsFacts DEF Storing, Alone
    <3>. QED  BY <1>1, <2>1, <3>2, GoesOn DEF Executions
  <2>2. CASE /\ ConversationBound /\ manifest = NoFingerprint
             /\ GoTo(w, "stage") /\ UNCHANGED work
    <3>1. pc'[w] = "stage" /\ work' = work /\ manifest' = manifest
      BY <1>1, <2>2 DEF GoTo, PoolInv, files
    <3>2. Storing(w)' /\ Alone(w)'
      BY <1>1, <2>2, <3>1 DEF Storing, Alone
    <3>. QED  BY <1>1, <2>2, <3>2, GoesOn DEF Executions
  <2>3. CASE Fails(w)
    BY <1>1, <2>3, EndsStep DEF Fails
  <2>. QED  BY <1>2, <2>1, <2>2, <2>3 DEF LookForManifest
<1>3. CASE LookForDocument(w)
  <2>1. CASE document = NoFingerprint
    <3>1. pc' = [pc EXCEPT ![w] = "write"] /\ work' = work /\ pc[w] = "look"
          /\ manifest' = manifest /\ document' = document
      BY <1>1, <1>3, <2>1 DEF GoTo, LookForDocument, files
    <3>2. pc'[w] = "write"
      BY <3>1 DEF PoolInv
    <3>3. Storing(w)' /\ (ConversationBound /\ ~overlap => Alone(w)')
      BY <1>1, <2>1, <3>1, <3>2 DEF Storing, Alone
    <3>. QED  BY <1>1, <3>1, <3>3, GoesOn DEF Executions, GoTo
  <2>2. CASE document # NoFingerprint
    <3>1. Ends(w, "success", work[w].result, 0) /\ pc[w] = "look"
      BY <1>3, <2>2 DEF LookForDocument
    <3>2. PICK new \in Work :
             /\ work' = [work EXCEPT ![w] = new]
             /\ new.attempt = work[w].attempt /\ new.retryAt <= RetryDelay
             /\ new.outcome = "success" /\ new.result = work[w].result
             /\ pc' = [pc EXCEPT ![w] = "commit"]
             /\ work'[w] = new /\ pc'[w] = "commit"
      <4>1. "success" \in Outcome
        BY DEF Outcome
      <4>. QED  BY <1>1, <3>1, <4>1, EndsRecord
    <3>3. manifest' = manifest /\ document' = document
      BY <1>1 DEF files
    <3>4. ConversationBound /\ ~overlap
             => /\ SameArtifacts(manifest, work[w].result)
                /\ SameArtifacts(document, work[w].result)
      <4>1. ConversationBound /\ ~overlap => SameArtifacts(document, manifest)
        BY <2>2 DEF PoolInv, FilesOK
      <4>. QED  BY <1>1, <3>1, <4>1, SameArtifactsFacts DEF Alone
    <3>5. Storing(w)' /\ (ConversationBound /\ ~overlap => Alone(w)')
      BY <1>1, <2>2, <3>1, <3>2, <3>3, <3>4 DEF Storing, Alone
    <3>. QED  BY <1>1, <3>2, <3>5, ThinkingStep DEF Executions
  <2>. QED  BY <2>1, <2>2
<1>. QED  BY <1>2, <1>3

\* The manifest is written.
LEMMA WriteManifestKeeps ==
  ASSUME PoolInv, NEW w \in Workers, WriteManifest(w)
  PROVE  PoolInv'
<1>1. /\ pc[w] = "stage" /\ Alive(w)
      /\ task' = task /\ document' = document /\ overlap' = overlap
      /\ work[w].result \in Fingerprints \cup {NoFingerprint}
      /\ FailureCode \in Fingerprints \cup {NoFingerprint}
      /\ work[w].result \in Results /\ InStore(w) /\ (\A x : MayBe(w, x))
      /\ overlap' \in BOOLEAN
      /\ ConversationBound /\ ~overlap => manifest = NoFingerprint
      /\ "permanent" \in Outcome \ {"success"}
  BY PoolAssumption DEF WriteManifest, Alive, Stage, PoolInv, WorkerOK, Work, Storing, Outcome,
     Alone, InStore, MayBe
<1>2. CASE manifest' = work[w].result /\ GoTo(w, "look") /\ UNCHANGED work
  <2>1. PICK new : new = work[w]
    OBVIOUS
  <2>2. /\ new \in Work /\ new.attempt = work[w].attempt
        /\ new.retryAt <= RetryDelay /\ work' = [work EXCEPT ![w] = new]
        /\ pc' = [pc EXCEPT ![w] = "look"] /\ pc'[w] = "look" /\ work' = work
    BY <1>2, <2>1 DEF PoolInv, WorkerOK, GoTo
  <2>3. Storing(w)' /\ (ConversationBound => Alone(w)')
    BY <1>1, <1>2, <2>2, SameArtifactsFacts DEF Storing, Alone
  <2>4. FilesOK'
    <3>1. FilesOK
      BY DEF PoolInv
    <3>2. ConversationBound /\ ~overlap
             => document = NoFingerprint /\ task.status # "succeeded"
      BY <1>1, <3>1, SameArtifactsFacts DEF FilesOK, DeliverableExists
    <3>. QED  BY <1>1, <1>2, <3>1, <3>2, SameArtifactsFacts DEF FilesOK, DeliverableExists
  <2>5. Keeps(task, task')
    BY <1>1, SameRow
  <2>6. manifest' # NoFingerprint
    BY <1>1, <1>2, SameArtifactsFacts
  <2>. QED  BY <1>1, <1>2, <2>2, <2>3, <2>4, <2>5, <2>6, ExecutionStep
            DEF Executions
<1>3. CASE Fails(w) /\ UNCHANGED manifest
  BY <1>1, <1>3, EndsStep DEF files, Fails
<1>. QED  BY <1>2, <1>3 DEF WriteManifest

\* The document is written.
LEMMA WriteDocumentKeeps ==
  ASSUME PoolInv, NEW w \in Workers, WriteDocument(w)
  PROVE  PoolInv'
<1>1. /\ pc[w] = "write" /\ Alive(w)
      /\ task' = task /\ manifest' = manifest /\ overlap' = overlap
      /\ work[w].result \in Fingerprints \cup {NoFingerprint}
      /\ FailureCode \in Fingerprints \cup {NoFingerprint}
      /\ work[w].result \in Results /\ InStore(w) /\ (\A x : MayBe(w, x))
      /\ overlap' \in BOOLEAN
      /\ ConversationBound => manifest # NoFingerprint
      /\ ConversationBound /\ ~overlap => document = NoFingerprint
      /\ ConversationBound /\ ~overlap => SameArtifacts(manifest, work[w].result)
      /\ "permanent" \in Outcome \ {"success"} /\ "success" \in Outcome
  BY PoolAssumption DEF WriteDocument, Alive, Stage, PoolInv, WorkerOK, Work, Storing, Outcome,
     Alone, InStore, MayBe
<1>2. CASE document' = work[w].result /\ Ends(w, "success", work[w].result, 0)
  <2>1. PICK new \in Work :
           /\ work' = [work EXCEPT ![w] = new]
           /\ new.attempt = work[w].attempt /\ new.retryAt <= RetryDelay
           /\ new.outcome = "success" /\ new.result = work[w].result
           /\ pc' = [pc EXCEPT ![w] = "commit"]
           /\ work'[w] = new /\ pc'[w] = "commit"
    BY <1>1, <1>2, EndsRecord
  <2>2. Storing(w)' /\ (ConversationBound /\ ~overlap => Alone(w)')
    BY <1>1, <1>2, <2>1, SameArtifactsFacts DEF Storing, Alone
  <2>3. FilesOK'
    <3>1. FilesOK
      BY DEF PoolInv
    <3>. QED  BY <1>1, <1>2, <3>1, SameArtifactsFacts
              DEF FilesOK, DeliverableExists
  <2>4. Keeps(task, task')
    BY <1>1, SameRow
  <2>5. document' # NoFingerprint
    BY <1>1, <1>2, SameArtifactsFacts
  <2>. QED  BY <1>1, <1>2, <2>1, <2>2, <2>3, <2>4, <2>5, ExecutionStep
            DEF Executions
<1>3. CASE Fails(w) /\ UNCHANGED document
  BY <1>1, <1>3, EndsStep DEF files, Fails
<1>. QED  BY <1>2, <1>3 DEF WriteDocument

\* A claim starts an execution of a new attempt.
LEMMA ClaimKeeps ==
  ASSUME PoolInv, NEW w \in Workers, NEW lease \in 1..LeaseTTL, Claim(w, lease)
  PROVE  PoolInv'
<1>1. /\ pc[w] = "poll" /\ ~Alive(w) /\ CanClaim(task, 0, lease)
      /\ task' = Stored(ClaimTask(task, 0, lease))
      /\ pc' = [pc EXCEPT ![w] = "read"]
      /\ manifest' = manifest /\ document' = document
      /\ overlap' = overlap
  BY DEF Claim, GoTo, Alive, Stage, files
<1>2. /\ RowOK(task)' /\ task'.status = "running"
      /\ AttemptCount(task)' = AttemptCount(task) + 1
      /\ AttemptCount(task) \in Nat
  BY <1>1, ClaimedRow, RowFields DEF PoolInv
<1>3. PICK new : new = [NoWork EXCEPT !.attempt = AttemptCount(task) + 1]
  OBVIOUS
<1>4. /\ new \in Work /\ new.attempt = AttemptCount(task) + 1
      /\ new.retryAt <= RetryDelay
  BY <1>2, <1>3, PoolAssumption DEF NoWork, Work, Outcome
<1>5. /\ work' = [work EXCEPT ![w] = new]
      /\ work' \in [Workers -> Work] /\ pc' \in [Workers -> Stage \cup Executions]
      /\ work'[w] = new /\ pc'[w] = "read"
      /\ \A v \in Workers : v # w => work'[v] = work[v] /\ pc'[v] = pc[v]
  BY <1>1, <1>3, <1>4 DEF Claim, PoolInv, Executions
<1>6. FilesOK'
  BY <1>1, <1>2 DEF PoolInv, FilesOK, DeliverableExists
<1>7. ASSUME NEW v \in Workers PROVE WorkerOK(v)'
  <2>1. CASE v = w
    <3>1. Alive(w)' /\ Storing(w)' /\ Alone(w)'
      BY <1>5 DEF Alive, Stage, Storing, Alone
    <3>. QED  BY <2>1, <3>1, <1>2, <1>4, <1>5 DEF WorkerOK, AttemptOf
  <2>2. CASE v # w
    <3>1. WorkerOK(v) /\ work'[v] = work[v] /\ pc'[v] = pc[v]
      BY <2>2, <1>5 DEF PoolInv
    <3>2. AttemptOf(v)'
      BY <3>1, <1>2 DEF WorkerOK, AttemptOf, Alive
    <3>3. overlap => overlap'
      BY <1>1
    <3>. QED  BY <3>1, <3>2, <3>3, <1>1 DEF WorkerOK, Storing, Alone
  <2>. QED  BY <2>1, <2>2
<1>8. ASSUME NEW v \in Workers, NEW u \in Workers PROVE Apart(v, u)'
  <2>1. \A x \in Workers \ {w} : /\ Alive(x)' <=> Alive(x)
                                 /\ work'[x] = work[x]
                                 /\ Alive(x) => work[x].attempt # new.attempt
    <3>1. ASSUME NEW x \in Workers, Alive(x)
          PROVE  work[x].attempt \in 1..AttemptCount(task)
      BY <3>1 DEF PoolInv, WorkerOK, AttemptOf
    <3>. QED  BY <1>2, <1>4, <1>5, <3>1 DEF Alive
  <2>2. /\ \A x \in Workers \ {w} : InStore(x)' <=> InStore(x)
        /\ ~InStore(w)'
    BY <1>5 DEF InStore
  <2>3. CASE v = w \/ u = w
    BY <2>1, <2>2, <2>3, <1>5 DEF Apart
  <2>4. CASE v # w /\ u # w
    <3>1. Apart(v, u)
      BY DEF PoolInv
    <3>. QED  BY <1>1, <2>1, <2>2, <2>4, <3>1 DEF Apart
  <2>. QED  BY <2>3, <2>4
<1>9. overlap' \in BOOLEAN
  BY <1>1 DEF PoolInv
<1>. QED  BY <1>2, <1>5, <1>6, <1>7, <1>8, <1>9 DEF PoolInv

\* A worker lets go of its execution: the row may change, and a success is
\* one that has its files.
LEMMA LetGo ==
  ASSUME PoolInv, NEW w \in Workers, Alive(w),
         RowOK(task'), AttemptCount(task') >= AttemptCount(task),
         work' = [work EXCEPT ![w] = NoWork],
         pc' = [pc EXCEPT ![w] = "recovery"],
         UNCHANGED <<files, overlap>>, FilesOK'
  PROVE  PoolInv'
<1>1. /\ NoWork \in Work /\ NoWork.attempt = 0 /\ NoWork.retryAt <= RetryDelay
  BY PoolAssumption DEF NoWork, Work, Outcome
<1>2. /\ work' \in [Workers -> Work] /\ pc' \in [Workers -> Stage \cup Executions]
      /\ work'[w] = NoWork /\ pc'[w] = "recovery"
      /\ \A v \in Workers : v # w => work'[v] = work[v] /\ pc'[v] = pc[v]
      /\ manifest' = manifest /\ document' = document /\ overlap' = overlap
  BY <1>1 DEF PoolInv, Stage, files
<1>3. 1..AttemptCount(task) \subseteq 1..AttemptCount(task)'
  BY RowFields DEF PoolInv
<1>4. ASSUME NEW v \in Workers PROVE WorkerOK(v)'
  <2>1. CASE v = w
    <3>1. ~Alive(w)' /\ Storing(w)' /\ Alone(w)'
      BY <1>2 DEF Alive, Stage, Storing, Alone
    <3>. QED  BY <2>1, <3>1, <1>1, <1>2 DEF WorkerOK, AttemptOf
  <2>2. CASE v # w
    <3>1. WorkerOK(v) /\ work'[v] = work[v] /\ pc'[v] = pc[v]
      BY <2>2, <1>2 DEF PoolInv
    <3>2. AttemptOf(v)'
      BY <3>1, <1>3 DEF WorkerOK, AttemptOf, Alive
    <3>. QED  BY <3>1, <3>2, <1>2 DEF WorkerOK, Storing, Alone
  <2>. QED  BY <2>1, <2>2
<1>5. ASSUME NEW v \in Workers, NEW u \in Workers PROVE Apart(v, u)'
  <2>1. Apart(v, u) /\ ~Alive(w)' /\ ~InStore(w)'
    BY <1>2 DEF PoolInv, Alive, Stage, InStore
  <2>. QED  BY <2>1, <1>2 DEF Apart, Alive, InStore
<1>. QED  BY <1>2, <1>4, <1>5 DEF PoolInv

\* The process dies.
LEMMA DeathKeeps ==
  ASSUME PoolInv, NEW w \in Workers, WorkerDies(w)
  PROVE  PoolInv'
<1>1. /\ Alive(w) /\ UNCHANGED <<task, files, overlap>>
      /\ work' = [work EXCEPT ![w] = NoWork]
      /\ pc' = [pc EXCEPT ![w] = "recovery"]
  BY DEF WorkerDies, GoTo, Alive
<1>2. Keeps(task, task')
  BY <1>1, SameRow
<1>3. FilesOK'
  BY <1>1 DEF PoolInv, FilesOK, DeliverableExists, files
<1>. QED  BY <1>1, <1>2, <1>3, LetGo DEF Keeps

\* The row that is stored with any log but the one it has.
LEMMA StoredRow ==
  ASSUME NEW t, RowOK(t)
  PROVE  Keeps(t, Stored(t))
<1>1. PICK u : u = Stored(t)
  OBVIOUS
<1>2. /\ u \in Task /\ u.attempts = t.attempts /\ u.available = t.available
      /\ u.status = t.status /\ u.result = t.result
  <2>1. <<>> \in Seq(Event) /\ t \in Task
    BY RowFields
  <2>. QED  BY <1>1, <2>1 DEF Stored, Task
<1>3. RowOK(u) /\ AttemptCount(u) = AttemptCount(t)
  BY <1>2 DEF RowOK, AttemptCount
<1>. QED  BY <1>1, <1>2, <1>3, RowFields DEF Keeps

\* What an execution ended with is committed or dropped.
LEMMA CommitKeeps ==
  ASSUME PoolInv, NEW w \in Workers, Commit(w)
  PROVE  PoolInv'
<1> DEFINE e == work[w]
           n == work[w].attempt
<1>1. /\ pc[w] = "commit" /\ Alive(w) /\ UNCHANGED <<files, overlap>>
      /\ task' = Stored(CommitTo(task, work[w]))
      /\ work' = [work EXCEPT ![w] = NoWork]
      /\ pc' = [pc EXCEPT ![w] = "recovery"]
      /\ manifest' = manifest /\ document' = document /\ overlap' = overlap
  BY DEF Commit, GoTo, Alive, Stage, files
<1>2. /\ RowOK(task) /\ work[w] \in Work /\ work[w].retryAt <= RetryDelay
      /\ Storing(w) /\ FilesOK
      /\ ConversationBound /\ ~overlap => Alone(w)
  BY DEF PoolInv, WorkerOK
<1>3. CASE e.outcome = "success" /\ CanComplete(task, n, 0)
  <2>1. task' = Stored(CompleteTask(task, n, e.result))
    BY <1>1, <1>3 DEF CommitTo
  <2>2. e.result \in Fingerprints \cup {NoFingerprint}
    BY <1>2 DEF Work
  <2>3. /\ RowOK(task') /\ AttemptCount(task') = AttemptCount(task)
        /\ task'.status = "succeeded" /\ task'.result = e.result
    BY <1>2, <1>3, <2>1, <2>2, CompletedRow
  <2>4. /\ document # NoFingerprint
        /\ ConversationBound => manifest # NoFingerprint
        /\ ConversationBound /\ ~overlap => SameArtifacts(manifest, e.result)
    BY <1>1, <1>2, <1>3 DEF Storing, Alone
  <2>5. FilesOK'
    BY <1>1, <1>2, <2>3, <2>4 DEF FilesOK, DeliverableExists
  <2>6. AttemptCount(task') >= AttemptCount(task)
    BY <1>2, <2>3, RowFields
  <2>. QED  BY <1>1, <2>3, <2>5, <2>6, LetGo
<1>4. CASE ~(e.outcome = "success" /\ CanComplete(task, n, 0))
  <2>1. Keeps(task, task')
    <3>1. CASE e.outcome = "cancelled" /\ CanConfirmCancel(task, n, 0)
      <4>1. task' = Stored(ConfirmCancelTask(task, n))
        BY <1>1, <3>1 DEF CommitTo
      <4>. QED  BY <1>2, <3>1, <4>1, CancelledRow
    <3>2. CASE /\ e.outcome \in {"transient", "permanent"}
               /\ CanFail(task, n, e.outcome, e.retryAt, 0)
      <4>1. task' = Stored(FailTask(task, n, e.outcome, e.result, e.retryAt))
        BY <1>1, <3>2 DEF CommitTo
      <4>2. e.result \in Fingerprints \cup {NoFingerprint} /\ e.retryAt \in Int
        BY <1>2 DEF Work
      <4>. QED  BY <1>2, <3>2, <4>1, <4>2, FailedRow
    <3>3. CASE /\ ~(e.outcome = "cancelled" /\ CanConfirmCancel(task, n, 0))
               /\ ~(/\ e.outcome \in {"transient", "permanent"}
                    /\ CanFail(task, n, e.outcome, e.retryAt, 0))
      <4>1. task' = Stored(task)
        BY <1>1, <1>4, <3>3 DEF CommitTo
      <4>. QED  BY <1>2, <4>1, StoredRow
    <3>. QED  BY <3>1, <3>2, <3>3
  <2>2. FilesOK'
    BY <1>1, <1>2, <2>1 DEF FilesOK, DeliverableExists, Keeps
  <2>. QED  BY <1>1, <2>1, <2>2, LetGo DEF Keeps
<1>. QED  BY <1>3, <1>4

\* Time passes.
LEMMA PoolTickKeeps ==
  ASSUME PoolInv, PoolTick
  PROVE  PoolInv'
<1>1. Keeps(task, task')
  BY LaterRow DEF PoolInv, PoolTick
<1>2. /\ UNCHANGED <<pc, files, overlap>>
      /\ manifest' = manifest /\ document' = document
  BY DEF PoolTick, files
<1>3. ASSUME NEW w \in Workers
      PROVE  /\ work'[w] \in Work /\ work'[w].retryAt <= RetryDelay
             /\ work'[w].attempt = work[w].attempt
             /\ work'[w].outcome = work[w].outcome
             /\ work'[w].result = work[w].result
  <2>1. work'[w] = [work[w] EXCEPT !.retryAt = Sooner(@, -1)]
    BY DEF PoolTick
  <2>2. work[w] \in Work /\ work[w].retryAt <= RetryDelay
    BY DEF PoolInv, WorkerOK
  <2>3. Sooner(work[w].retryAt, -1) \in Int
        /\ Sooner(work[w].retryAt, -1) <= RetryDelay
    BY <2>2, PoolAssumption DEF Work, Sooner
  <2>. QED  BY <2>1, <2>2, <2>3 DEF Work
<1>4. work' \in [Workers -> Work]
  BY <1>3 DEF PoolTick
<1>5. FilesOK'
  BY <1>1, <1>2 DEF PoolInv, FilesOK, DeliverableExists, Keeps
<1>6. 1..AttemptCount(task) \subseteq 1..AttemptCount(task)'
  BY <1>1, RowFields DEF PoolInv, Keeps
<1>7. ASSUME NEW w \in Workers PROVE WorkerOK(w)'
  <2>1. AttemptOf(w) /\ Storing(w) /\ (ConversationBound /\ ~overlap => Alone(w))
    BY DEF PoolInv, WorkerOK
  <2>2. AttemptOf(w)'
    BY <1>2, <1>3, <1>6, <2>1 DEF AttemptOf, Alive
  <2>3. Storing(w)' /\ (ConversationBound /\ ~overlap => Alone(w)')
    BY <1>2, <1>3, <2>1 DEF Storing, Alone
  <2>. QED  BY <1>2, <1>3, <2>2, <2>3 DEF WorkerOK
<1>8. ASSUME NEW v \in Workers, NEW w \in Workers PROVE Apart(v, w)'
  BY <1>2, <1>3 DEF PoolInv, Apart, Alive, InStore
<1>9. RowOK(task)'
  BY <1>1 DEF Keeps
<1>. QED  BY <1>2, <1>4, <1>5, <1>7, <1>8, <1>9 DEF PoolInv

-----------------------------------------------------------------------------
(* The invariant and what follows from it.                                 *)

LEMMA InitPool == PoolInit => PoolInv
<1> SUFFICES ASSUME PoolInit PROVE PoolInv
  OBVIOUS
<1>1. RowOK(task)
  <2>1. /\ task.attempts = <<>> /\ task.available = 0
        /\ DOMAIN task.attempts = {} /\ Len(task.attempts) = 0
    BY DEF PoolInit, AbsentTask
  <2>2. task \in Task
    <3>1. <<>> \in Seq(Event) /\ <<>> \in Seq(Attempt)
      OBVIOUS
    <3>. QED  BY <3>1 DEF PoolInit, AbsentTask, Task, TaskStatus
  <2>. QED  BY <2>1, <2>2, PoolAssumption DEF RowOK, AttemptCount
<1>2. task.status = "absent"
  BY DEF PoolInit, AbsentTask
<1>3. FilesOK
  BY <1>2 DEF PoolInit, FilesOK, DeliverableExists
<1>4. /\ NoWork \in Work /\ NoWork.attempt = 0 /\ NoWork.retryAt <= RetryDelay
  BY PoolAssumption DEF NoWork, Work, Outcome
<1>5. pc \in [Workers -> Stage \cup Executions] /\ work \in [Workers -> Work]
  BY <1>4 DEF PoolInit, Stage
<1>6. ASSUME NEW w \in Workers
      PROVE  /\ ~Alive(w) /\ pc[w] = "recovery" /\ work[w] = NoWork
             /\ ~InStore(w)
  BY DEF PoolInit, Alive, Stage, InStore
<1>7. ASSUME NEW w \in Workers PROVE WorkerOK(w)
  BY <1>4, <1>6 DEF WorkerOK, AttemptOf, Storing, Alone
<1>. QED  BY <1>1, <1>3, <1>5, <1>6, <1>7 DEF PoolInit, PoolInv, Apart

LEMMA NextPool == PoolInv /\ [PoolNext]_poolVars => PoolInv'
<1> SUFFICES ASSUME PoolInv, [PoolNext]_poolVars PROVE PoolInv'
  OBVIOUS
<1>1. ASSUME NEW w \in Workers, WorkerStep(w) PROVE PoolInv'
  <2>1. CASE RecoveryStage(w) \/ RetryStage(w) \/ PollIdle(w)
    BY <2>1, StagesKeep
  <2>2. CASE \E lease \in 1..LeaseTTL : Claim(w, lease)
    BY <2>2, ClaimKeeps
  <2>3. CASE ReadSnapshot(w) \/ Render(w) \/ CheckBeforeSave(w)
    BY <2>3, ThinkingKeeps
  <2>4. CASE RenewLease(w)
    BY <2>4, RenewKeeps
  <2>5. CASE LookForManifest(w) \/ LookForDocument(w)
    BY <2>5, LooksKeep
  <2>6. CASE WriteManifest(w)
    BY <2>6, WriteManifestKeeps
  <2>7. CASE WriteDocument(w)
    BY <2>7, WriteDocumentKeeps
  <2>8. CASE Commit(w)
    BY <2>8, CommitKeeps
  <2>. QED  BY <1>1, <2>1, <2>2, <2>3, <2>4, <2>5, <2>6, <2>7, <2>8 DEF WorkerStep
<1>2. CASE Submit \/ Cancel \/ ManualRetry
  BY <1>2, OwnerKeeps
<1>3. CASE PoolTick
  BY <1>3, PoolTickKeeps
<1>4. CASE UNCHANGED poolVars
  <2>1. Keeps(task, task')
    BY <1>4, SameRow DEF poolVars
  <2>2. pc' \in [Workers -> Stage \cup Executions] /\ pc' = pc
    BY <1>4 DEF poolVars, PoolInv
  <2>. QED  BY <1>4, <2>1, <2>2, ScheduleStep DEF poolVars, files
<1>5. ASSUME NEW w \in Workers, WorkerDies(w) PROVE PoolInv'
  BY <1>5, DeathKeeps
<1>. QED  BY <1>1, <1>2, <1>3, <1>4, <1>5 DEF PoolNext

\* Row, executions and files agree at every moment, for any number of worker
\* processes that die, lose their leases and overlap.
THEOREM PoolInvariant == PoolSpec => []PoolInv
BY InitPool, NextPool, PTL DEF PoolSpec

\* The invariant implies what the run checks of one committer and the files.
LEMMA PoolImplied == PoolInv => PoolConsistent /\ DeliveredIsCommitted
<1> SUFFICES ASSUME PoolInv PROVE PoolConsistent /\ DeliveredIsCommitted
  OBVIOUS
<1>1. PoolTypeOK
  BY DEF PoolInv, RowOK, FilesOK, PoolTypeOK, Executions
<1>2. OneCommitter
  <2>1. SUFFICES ASSUME NEW v \in Workers, NEW w \in Workers,
                        HoldsLease(task, work[v].attempt, 0),
                        HoldsLease(task, work[w].attempt, 0)
                 PROVE  v = w
    BY DEF OneCommitter
  <2>2. /\ work[v].attempt = AttemptCount(task) /\ work[w].attempt = AttemptCount(task)
        /\ work[v].attempt \in DOMAIN task.attempts
    BY <2>1 DEF HoldsLease, IsActive, PoolInv, RowOK
  <2>3. work[v].attempt # 0 /\ work[w].attempt # 0
    BY <2>2, RowFields DEF PoolInv
  <2>4. Alive(v) /\ Alive(w)
    BY <2>3 DEF PoolInv, WorkerOK, AttemptOf
  <2>. QED  BY <2>2, <2>4 DEF PoolInv, Apart
<1>3. DeliverableExists
  BY DEF PoolInv, FilesOK
<1>4. DeliveredIsCommitted
  <2>1. SUFFICES ASSUME task.status = "succeeded", ConversationBound, ~overlap
                 PROVE  /\ SameArtifacts(manifest, task.result)
                        /\ SameArtifacts(document, task.result)
    BY DEF DeliveredIsCommitted
  <2>2. /\ SameArtifacts(manifest, task.result)
        /\ SameArtifacts(document, manifest)
    BY <1>3, <2>1 DEF PoolInv, FilesOK, DeliverableExists
  <2>. QED  BY <2>2, SameArtifactsFacts
<1>. QED  BY <1>1, <1>2, <1>3, <1>4 DEF PoolConsistent

\* At most one execution can commit, and a succeeded task has its files,
\* however many executions crash, expire or overlap.
THEOREM PoolStaysConsistent == PoolSpec => []PoolConsistent
BY PoolInvariant, PoolImplied, PTL

\* Unless two executions were in the result store together, the artifacts
\* delivered are those of the result that was committed, whatever crashed
\* executions left behind.
THEOREM DeliveredStaysCommitted == PoolSpec => []DeliveredIsCommitted
BY PoolInvariant, PoolImplied, PTL
=============================================================================
