---------------------- MODULE InteractionGatewayProofs ----------------------
(***************************************************************************)
(* Proofs about InteractionGateway: however requests interleave with each  *)
(* other, with changes of the catalogue and with restarts, what a proposal *)
(* starts is what its owner was shown and starts once, and what runs stays *)
(* within what was approved.                                               *)
(*                                                                         *)
(* The argument: a proposal that was saved is either still in the store or *)
(* gone for ever, so the request that took it out is the only one that     *)
(* ever acts on it; from there on the request carries what was shown; and  *)
(* the number of the catalogue change tells whether the record the policy  *)
(* was checked against is still the one that is read.                      *)
(***************************************************************************)
EXTENDS InteractionGateway, FiniteSetTheorems, TLAPS

-----------------------------------------------------------------------------
(* The inductive invariant *)

Statuses ==
  {"none", "needs_clarification", "unrecognized", "authorized", "pending",
   "rejected", "cancelled", "completed", "failed", "unavailable",
   "confirmation_required", "accepted", "lost"}

Request ==
  [kind : Kinds, phase : Phases, who : Subjects \cup {NoRequest},
   cands : SUBSET Codes, code : Codes \cup {NoCode}, key : Keys \cup {NoCode},
   inputs : Inputs, pid : Requests \cup {NoProposal}, policyAt : Nat,
   status : Statuses]

(* Phases of a request that took a proposal, or needs none, and will act.  *)
Acting == {"dispatch", "approve", "policy", "current", "bridge", "runtime"}

Recognising == {"ensure", "list", "build", "search", "load", "llm", "fallback",
                "resolve", "direct", "propose"}

(* Phases of a request that holds the refresh lock of its scope.           *)
Building == {"list", "build"}

Coded == Acting \cup {"resolve", "direct", "propose"}

Open(c, s) == \E cap \in Offers[c] : IsAllowed(cap, s)

(* The phases of each kind of request, and what a request holds in them.   *)
Fit(q) ==
  /\ q \in Request
  /\ q.phase = "idle" => q = Idle
  /\ q.phase # "idle" => q.who \in Subjects
  /\ q.phase \in Coded => q.code \in Codes
  /\ \A c \in q.cands : Open(c, Permits[q.who])
  /\ q.phase \in Recognising => q.kind = "intent"
  /\ q.phase = "consume" => q.kind \in {"confirm", "agent"}
  /\ q.phase = "dispatch" => q.kind = "confirm"
  /\ q.phase = "approve" => q.kind = "agent"
  /\ q.phase \in {"policy", "current"} => q.kind \in {"agent", "mcp"}
  /\ q.phase = "runtime" => q.kind \in {"confirm", "agent", "mcp"}
  /\ q.phase = "bridge" => q.kind = "agent"
  /\ q.pid = NoProposal <=> q.kind \in {"intent", "mcp"}

(* A request that acts on a proposal carries what was shown, and no one    *)
(* else can take that proposal any more.  A plain confirmation carries an  *)
(* agent's key only out of a proposal of a torn read.                      *)
Carries(q, show, prop) ==
  q.pid # NoProposal =>
    /\ show[q.pid] # NoProposal
    /\ q.phase \in Acting =>
         /\ q.code = show[q.pid].code
         /\ q.inputs = show[q.pid].inputs
         /\ q.who = show[q.pid].who
         /\ prop[q.pid] = NoProposal
    /\ q.phase \in {"dispatch", "approve", "policy"} => q.key = show[q.pid].key
    /\ q.phase = "dispatch" \/ (q.phase = "runtime" /\ q.kind = "confirm") =>
         /\ q.key = show[q.pid].key
         /\ Binding[q.key] # "agent" \/ show[q.pid].torn

(* While the catalogue has not changed since the policy was checked, the   *)
(* record is the approved one.                                             *)
Approved(q, show, cat, chg) ==
  /\ q.policyAt <= chg
  /\ q.policyAt = chg /\ q.pid # NoProposal =>
       /\ q.phase = "current" => cat[q.code].key = show[q.pid].key
       /\ q.phase = "runtime" => q.key = show[q.pid].key
  /\ q.policyAt = chg /\ q.pid = NoProposal /\ q.phase \in {"current", "runtime"} =>
       cat[q.code].policy = "never"

Types ==
  /\ catalog \in [Codes -> Capability]
  /\ \A c \in Codes : catalog[c] \in Offers[c]
  /\ changes \in Nat
  /\ clock \in Nat
  /\ index \in [Scopes -> (SUBSET Codes) \cup {NoIndex}]
  /\ builder \in [Scopes -> Requests \cup {NoRequest}]
  /\ proposals \in [Requests -> Proposal \cup {NoProposal}]
  /\ shown \in [Requests -> Proposal \cup {NoProposal}]
  /\ tasks \in [Requests -> Task \cup {NoProposal}]
  /\ req \in [Requests -> Request]
  /\ checked \in [Requests -> SUBSET Nat]

(* While the catalogue has not changed since the first SELECT of a read,   *)
(* every record validates.                                                 *)
Checks ==
  \A r \in Requests : \A n \in checked[r] :
    n <= changes /\ (n = changes => ~Raises)

Fits == \A r \in Requests : Fit(req[r])

Backs ==
  \A r \in Requests :
    /\ Carries(req[r], shown, proposals)
    /\ Approved(req[r], shown, catalog, changes)

(* A proposal was made by a request that is done, under a bound key unless *)
(* its read was torn.                                                      *)
Entries ==
  \A p \in Requests :
    /\ shown[p] # NoProposal =>
         /\ req[p].phase = "done"
         /\ Binding[shown[p].key] = shown[p].type \/ shown[p].torn
    /\ proposals[p] # NoProposal => proposals[p] = shown[p]

Tasked ==
  \A r \in Requests :
    /\ req[r].status = "accepted" => tasks[r] # NoProposal
    /\ tasks[r] # NoProposal =>
         /\ req[r].phase = "done" /\ req[r].pid # NoProposal
         /\ tasks[r] = [code |-> shown[req[r].pid].code,
                        inputs |-> shown[req[r].pid].inputs,
                        owner |-> shown[req[r].pid].who]
         /\ \E f \in DOMAIN tasks[r].inputs : tasks[r].inputs[f] = "resolved"

(* What is recorded of a run, against the request it ran in.               *)
Recorded(x, q, show) ==
  /\ q.phase = "done" /\ x.pid = q.pid
  /\ x.pid # NoProposal =>
       /\ x.code = show[x.pid].code /\ x.inputs = show[x.pid].inputs
       /\ x.who = show[x.pid].who
       /\ x.via = "handler" => x.key = show[x.pid].key
  /\ x.via = "agent" /\ q.kind = "confirm" => show[x.pid].torn
  /\ x.via = "agent" /\ q.kind = "agent" => x.key = show[x.pid].key \/ x.at > q.policyAt

Records == \A x \in ran : x.by \in Requests /\ Recorded(x, req[x.by], shown)

Claims(r) ==
  /\ req[r].pid # NoProposal
  /\ req[r].phase \in Acting \/ tasks[r] # NoProposal \/ \E x \in ran : x.by = r

(* One request at most acts, or acted, on a proposal, and it took it.      *)
Once ==
  /\ \A r \in Requests : Claims(r) => proposals[req[r].pid] = NoProposal
  /\ \A r, q \in Requests : Claims(r) /\ Claims(q) /\ req[r].pid = req[q].pid => r = q

(* The refresh lock of a scope is held by exactly the request that builds. *)
Builders ==
  /\ \A s \in Scopes : builder[s] # NoRequest =>
       req[builder[s]].phase \in Building /\ Scope(builder[s]) = s
  /\ \A r \in Requests : req[r].phase \in Building => builder[Scope(r)] = r

Indexes ==
  /\ \A s \in Scopes : index[s] # NoIndex => \A c \in index[s] : Open(c, s)
  /\ \A r \in Requests : req[r].phase = "search" => index[Scope(r)] # NoIndex

IInv ==
  /\ Types /\ Checks /\ Fits /\ Backs /\ Entries /\ Tasked /\ Records /\ Once
  /\ Builders /\ Indexes

-----------------------------------------------------------------------------
(* Steps of one request *)

(* A step may use up what the first SELECT of its request saw.             *)
CheckUsed(r) == checked' \in {checked, [checked EXCEPT ![r] = {}]}

Step(r, x) ==
  /\ req' = [req EXCEPT ![r] = x]
  /\ Fit(x)
  /\ req[r].phase # "done"
  /\ CheckUsed(r)
  /\ UNCHANGED <<catalog, changes, clock>>

(* What was shown stays, and what was taken never comes back.              *)
Kept ==
  \A p \in Requests : shown[p] # NoProposal =>
    /\ shown'[p] = shown[p]
    /\ proposals[p] = NoProposal => proposals'[p] = NoProposal

(* A refresh lock that is held stays held.                                 *)
SameLock(q, x) ==
  /\ q.phase \in Building <=> x.phase \in Building
  /\ x.phase \in Building => x.who = q.who

(* Whether a request may go on to act.                                     *)
MayAct(r, x) ==
  x.pid # NoProposal /\ x.phase \in Acting =>
    \/ req[r].phase \in Acting /\ req[r].pid = x.pid
    \/ proposals[x.pid] # NoProposal /\ proposals'[x.pid] = NoProposal

LEMMA ReqAfter ==
  ASSUME Types, NEW r \in Requests, NEW x, Step(r, x)
  PROVE  /\ req' \in [Requests -> Request]
         /\ req'[r] = x
         /\ \A q \in Requests : q # r => req'[q] = req[q]
<1>1. x \in Request
  BY DEF Step, Fit
<1>. QED  BY <1>1 DEF Types, Step

LEMMA ChecksKept ==
  ASSUME Types, Checks, NEW r \in Requests, CheckUsed(r), UNCHANGED <<catalog, changes>>
  PROVE  checked' \in [Requests -> SUBSET Nat] /\ Checks'
<1>1. checked' \in [Requests -> SUBSET Nat]
  BY DEF CheckUsed, Types
<1>2. \A q \in Requests : checked'[q] \subseteq checked[q]
  BY DEF CheckUsed, Types
<1>3. Raises' <=> Raises
  BY DEF Raises
<1>. QED  BY <1>1, <1>2, <1>3 DEF Checks

LEMMA FitsKept ==
  ASSUME Types, Fits, NEW r \in Requests, NEW x, Step(r, x)
  PROVE  Fits'
<1>1. SUFFICES ASSUME NEW q \in Requests PROVE Fit(req'[q])
  BY DEF Fits, Fit, Request, Open, IsAllowed, Idle
<1>2. CASE q = r
  BY <1>2, ReqAfter DEF Step
<1>3. CASE q # r
  BY <1>3, ReqAfter DEF Fits
<1>. QED  BY <1>2, <1>3

LEMMA CarriesOn ==
  ASSUME Types, Kept, NEW q \in Request, Carries(q, shown, proposals)
  PROVE  Carries(q, shown', proposals')
BY DEF Carries, Kept, Request

LEMMA ApprovedOn ==
  ASSUME Types, Kept, NEW q \in Request, Carries(q, shown, proposals),
         Approved(q, shown, catalog, changes)
  PROVE  Approved(q, shown', catalog, changes)
BY DEF Carries, Approved, Kept, Request

LEMMA BacksKept ==
  ASSUME Types, Backs, Kept, NEW r \in Requests, NEW x, Step(r, x),
         Carries(x, shown', proposals'), Approved(x, shown', catalog, changes)
  PROVE  Backs'
<1>1. catalog' = catalog /\ changes' = changes
  BY DEF Step
<1>2. ASSUME NEW q \in Requests
      PROVE  Carries(req'[q], shown', proposals') /\ Approved(req'[q], shown', catalog', changes')
  <2>1. CASE q = r
    BY <1>1, <2>1, ReqAfter
  <2>2. CASE q # r
    <3>1. req'[q] = req[q] /\ req[q] \in Request
      BY <2>2, ReqAfter DEF Types
    <3>2. Carries(req[q], shown, proposals) /\ Approved(req[q], shown, catalog, changes)
      BY DEF Backs
    <3>3. Carries(req[q], shown', proposals') /\ Approved(req[q], shown', catalog, changes)
      BY <3>1, <3>2, CarriesOn, ApprovedOn
    <3>. QED  BY <1>1, <3>1, <3>3
  <2>. QED  BY <2>1, <2>2
<1>. QED  BY <1>2 DEF Backs

LEMMA EntriesKept ==
  ASSUME Types, Entries, NEW r \in Requests, NEW x, Step(r, x),
         \A p \in Requests : shown'[p] = shown[p] /\ proposals'[p] \in {proposals[p], NoProposal}
  PROVE  Entries'
<1>1. ASSUME NEW p \in Requests, shown'[p] # NoProposal
      PROVE  /\ req'[p].phase = "done"
             /\ Binding[shown'[p].key] = shown'[p].type \/ shown'[p].torn
  <2>1. /\ shown'[p] = shown[p] /\ req[p].phase = "done"
        /\ Binding[shown[p].key] = shown[p].type \/ shown[p].torn
    BY <1>1 DEF Entries
  <2>2. p # r
    BY <2>1 DEF Step
  <2>. QED  BY <2>1, <2>2, ReqAfter
<1>2. ASSUME NEW p \in Requests, proposals'[p] # NoProposal
      PROVE  proposals'[p] = shown'[p]
  BY <1>2 DEF Entries
<1>. QED  BY <1>1, <1>2 DEF Entries

LEMMA TaskedKept ==
  ASSUME Types, Tasked, Backs, Kept, NEW r \in Requests, NEW x, Step(r, x),
         tasks' = tasks, x.status # "accepted"
  PROVE  Tasked'
<1>1. ASSUME NEW q \in Requests
      PROVE  /\ req'[q].status = "accepted" => tasks'[q] # NoProposal
             /\ tasks'[q] # NoProposal =>
                  /\ req'[q].phase = "done" /\ req'[q].pid # NoProposal
                  /\ tasks'[q] = [code |-> shown'[req'[q].pid].code,
                                  inputs |-> shown'[req'[q].pid].inputs,
                                  owner |-> shown'[req'[q].pid].who]
                  /\ \E f \in DOMAIN tasks'[q].inputs : tasks'[q].inputs[f] = "resolved"
  <2>1. CASE q = r
    <3>1. tasks[r] = NoProposal
      BY DEF Tasked, Step
    <3>. QED  BY <2>1, <3>1, ReqAfter
  <2>2. CASE q # r
    <3>1. req'[q] = req[q] /\ req[q].pid \in Requests \cup {NoProposal}
      BY <2>2, ReqAfter DEF Types, Request
    <3>2. req[q].pid # NoProposal => shown'[req[q].pid] = shown[req[q].pid]
      BY <3>1 DEF Backs, Carries, Kept
    <3>. QED  BY <3>1, <3>2 DEF Tasked
  <2>. QED  BY <2>1, <2>2
<1>. QED  BY <1>1 DEF Tasked

LEMMA RecordedOn ==
  ASSUME Types, Kept, NEW q \in Request, Fit(q), Carries(q, shown, proposals),
         NEW y, Recorded(y, q, shown)
  PROVE  Recorded(y, q, shown')
<1>1. y.pid = q.pid
  BY DEF Recorded
<1>2. q.pid # NoProposal => shown'[q.pid] = shown[q.pid]
  BY DEF Carries, Kept, Request
<1>3. q.kind \in {"confirm", "agent"} => q.pid # NoProposal
  BY DEF Fit
<1>. QED  BY <1>1, <1>2, <1>3 DEF Recorded

LEMMA RecordsKept ==
  ASSUME Types, Fits, Records, Backs, Kept, NEW r \in Requests, NEW x, Step(r, x), ran' = ran
  PROVE  Records'
<1>1. ASSUME NEW y \in ran
      PROVE  y.by \in Requests /\ Recorded(y, req'[y.by], shown')
  <2>1. y.by \in Requests /\ Recorded(y, req[y.by], shown)
    BY DEF Records
  <2>2. y.by # r
    BY <2>1 DEF Recorded, Step
  <2>3. req'[y.by] = req[y.by] /\ req[y.by] \in Request
    BY <2>1, <2>2, ReqAfter DEF Types
  <2>4. Carries(req[y.by], shown, proposals) /\ Fit(req[y.by])
    BY <2>1 DEF Backs, Fits
  <2>. QED  BY <2>1, <2>3, <2>4, RecordedOn
<1>. QED  BY <1>1 DEF Records

(* A request takes a claim on a proposal only out of the store.            *)
LEMMA OnceKept ==
  ASSUME Types, Once, Backs, Tasked, Records, Kept, NEW r \in Requests, NEW x, Step(r, x),
         tasks' = tasks, ran' = ran, MayAct(r, x)
  PROVE  Once'
<1>1. tasks[r] = NoProposal /\ \A y \in ran : y.by # r
  BY DEF Tasked, Records, Recorded, Step
<1>2. ASSUME NEW q \in Requests, q # r
      PROVE  /\ Claims(q)' <=> Claims(q)
             /\ req'[q].pid = req[q].pid
  BY <1>2, ReqAfter DEF Claims
<1>3. ASSUME NEW q \in Requests, Claims(q)
      PROVE  proposals[req[q].pid] = NoProposal /\ proposals'[req[q].pid] = NoProposal
  <2>1. req[q].pid \in Requests /\ proposals[req[q].pid] = NoProposal
    BY <1>3 DEF Once, Claims, Types, Request
  <2>2. shown[req[q].pid] # NoProposal
    BY <1>3 DEF Claims, Backs, Carries
  <2>. QED  BY <2>1, <2>2 DEF Kept
<1>4. Claims(r)' => /\ x.pid # NoProposal /\ x.phase \in Acting
                    /\ req'[r].pid = x.pid
  BY <1>1, ReqAfter DEF Claims
<1>5. CASE req[r].phase \in Acting /\ req[r].pid = x.pid
  <2>1. Claims(r)' => Claims(r)
    BY <1>4, <1>5 DEF Claims
  <2>2. \A q \in Requests : Claims(q)' => Claims(q) /\ req'[q].pid = req[q].pid
    BY <1>2, <1>4, <1>5, <2>1
  <2>. QED  BY <1>3, <2>2 DEF Once
<1>6. CASE proposals[x.pid] # NoProposal /\ proposals'[x.pid] = NoProposal
  <2>1. \A q \in Requests : q # r /\ Claims(q)' => Claims(q) /\ req'[q].pid = req[q].pid /\ req[q].pid # x.pid
    BY <1>2, <1>3, <1>6
  <2>2. Claims(r)' => req'[r].pid = x.pid
    BY <1>4
  <2>3. \A q \in Requests : Claims(q)' => proposals'[req'[q].pid] = NoProposal
    BY <1>3, <1>6, <2>1, <2>2
  <2>4. \A p, q \in Requests : Claims(p)' /\ Claims(q)' /\ req'[p].pid = req'[q].pid => p = q
    BY <2>1, <2>2 DEF Once
  <2>. QED  BY <2>3, <2>4 DEF Once
<1>7. CASE ~(x.pid # NoProposal /\ x.phase \in Acting)
  <2>1. \A q \in Requests : Claims(q)' => Claims(q) /\ req'[q].pid = req[q].pid
    BY <1>2, <1>4, <1>7
  <2>. QED  BY <1>3, <2>1 DEF Once
<1>. QED  BY <1>5, <1>6, <1>7 DEF MayAct

LEMMA BuildersKept ==
  ASSUME Types, Builders, NEW r \in Requests, NEW x, Step(r, x), builder' = builder,
         SameLock(req[r], x)
  PROVE  Builders'
<1>1. ASSUME NEW s \in Scopes, builder[s] # NoRequest
      PROVE  req'[builder[s]].phase \in Building /\ Permits[req'[builder[s]].who] = s
  <2>1. req[builder[s]].phase \in Building /\ Permits[req[builder[s]].who] = s /\ builder[s] \in Requests
    BY <1>1 DEF Builders, Scope, Types
  <2>. QED  BY <2>1, ReqAfter DEF SameLock
<1>2. ASSUME NEW q \in Requests, req'[q].phase \in Building
      PROVE  builder[Permits[req'[q].who]] = q
  <2>1. req[q].phase \in Building /\ req'[q].who = req[q].who
    BY <1>2, ReqAfter DEF SameLock
  <2>. QED  BY <2>1 DEF Builders, Scope
<1>. QED  BY <1>1, <1>2 DEF Builders, Scope

LEMMA IndexesKept ==
  ASSUME Types, Indexes, NEW r \in Requests, NEW x, Step(r, x), index' = index,
         x.phase = "search" => index[Permits[x.who]] # NoIndex
  PROVE  Indexes'
<1>1. ASSUME NEW q \in Requests, req'[q].phase = "search"
      PROVE  index[Permits[req'[q].who]] # NoIndex
  BY <1>1, ReqAfter DEF Indexes, Scope
<1>2. ASSUME NEW s \in Scopes, index'[s] # NoIndex, NEW c \in index'[s]
      PROVE  Open(c, s)
  BY <1>2 DEF Indexes
<1>. QED  BY <1>1, <1>2 DEF Indexes, Scope, Open

(* A step that moves one request and nothing else.                         *)
LEMMA MoveKeeps ==
  ASSUME IInv, NEW r \in Requests, NEW x, Step(r, x),
         UNCHANGED <<index, builder, proposals, shown, ran, tasks>>,
         Carries(x, shown, proposals), Approved(x, shown, catalog, changes),
         x.status # "accepted", MayAct(r, x), SameLock(req[r], x),
         x.phase = "search" => index[Permits[x.who]] # NoIndex
  PROVE  IInv'
<1>1. Kept
  BY DEF Kept
<1>2. Types' /\ Checks'
  BY ReqAfter, ChecksKept DEF IInv, Types, Step
<1>3. Fits' /\ Backs'
  BY <1>1, FitsKept, BacksKept DEF IInv
<1>4. Entries'
  BY EntriesKept DEF IInv
<1>5. Tasked' /\ Records' /\ Once'
  BY <1>1, TaskedKept, RecordsKept, OnceKept DEF IInv
<1>6. Builders' /\ Indexes'
  BY BuildersKept, IndexesKept DEF IInv
<1>. QED  BY <1>2, <1>3, <1>4, <1>5, <1>6 DEF IInv

LEMMA FinishedFits ==
  ASSUME Types, Fits, Backs, NEW r \in Requests, req[r].phase # "idle", NEW status \in Statuses
  PROVE  LET x == Finished(r, status) IN
         /\ Fit(x)
         /\ Carries(x, shown, proposals) /\ Approved(x, shown, catalog, changes)
         /\ x.phase = "done" /\ x.status = status /\ x.kind = req[r].kind
         /\ x.who = req[r].who /\ x.pid = req[r].pid /\ x.policyAt = req[r].policyAt
<1> DEFINE x == Finished(r, status)
<1>1. /\ x.phase = "done" /\ x.status = status /\ x.kind = req[r].kind
      /\ x.who = req[r].who /\ x.pid = req[r].pid /\ x.policyAt = req[r].policyAt
      /\ x.cands = {} /\ x.code = NoCode /\ x.key = NoCode /\ x.inputs = NoInputs
  BY DEF Finished, Idle
<1>2. req[r] \in Request /\ Fit(req[r]) /\ Carries(req[r], shown, proposals)
      /\ Approved(req[r], shown, catalog, changes)
  BY DEF Types, Fits, Backs
<1>3. NoInputs \in Inputs
  <2>1. NoInputs \in [{} -> Values]
    BY DEF NoInputs
  <2>2. {} \in SUBSET Fields
    OBVIOUS
  <2>. QED  BY <2>1, <2>2 DEF Inputs
<1>4. x \in Request
  <2>1. Idle \in Request
    <3>1. "intent" \in Kinds /\ "idle" \in Phases /\ "none" \in Statuses /\ 0 \in Nat
      BY DEF Kinds, Phases, Statuses
    <3>2. {} \in SUBSET Codes
      OBVIOUS
    <3>. QED  BY <1>3, <3>1, <3>2 DEF Idle, Request
  <2>2. /\ req[r].kind \in Kinds /\ "done" \in Phases /\ req[r].who \in Subjects \cup {NoRequest}
        /\ req[r].pid \in Requests \cup {NoProposal} /\ req[r].policyAt \in Nat
    BY <1>2 DEF Request, Phases
  <2> DEFINE k == req[r].kind  w == req[r].who  p == req[r].pid  a == req[r].policyAt
  <2>3. x = [Idle EXCEPT !.kind = k, !.who = w, !.pid = p, !.policyAt = a,
                         !.phase = "done", !.status = status]
    BY DEF Finished
  <2> HIDE DEF k, w, p, a, x
  <2>. QED  BY <2>1, <2>2, <2>3 DEF Request, k, w, p, a
<1> HIDE DEF x
<1>5. Fit(x)
  BY <1>1, <1>2, <1>4 DEF Fit, Coded, Acting, Recognising
<1>6. Carries(x, shown, proposals) /\ Approved(x, shown, catalog, changes)
  BY <1>1, <1>2, <1>4 DEF Carries, Approved, Acting
<1>. QED  BY <1>1, <1>5, <1>6 DEF x

(* An answer ends the request; only an accepted call leaves a task.        *)
LEMMA AnswerKeeps ==
  ASSUME IInv, NEW r \in Requests, req[r].phase \notin {"idle", "done"} \cup Building,
         NEW status \in Statuses, status # "accepted", Answer(r, status), CheckUsed(r),
         UNCHANGED <<catalog, changes, clock, index, builder, proposals, shown, ran, tasks>>
  PROVE  IInv'
<1> DEFINE x == Finished(r, status)
<1>1. /\ Fit(x) /\ Carries(x, shown, proposals) /\ Approved(x, shown, catalog, changes)
      /\ x.phase = "done" /\ x.status = status
  BY FinishedFits DEF IInv
<1>2. Step(r, x)
  BY <1>1 DEF Step, Answer
<1> HIDE DEF x
<1>3. MayAct(r, x) /\ SameLock(req[r], x)
  BY <1>1 DEF MayAct, Acting, SameLock, Building
<1>. QED  BY <1>1, <1>2, <1>3, MoveKeeps

(* A read that fails answers the request.                                  *)
LEMMA FailIs ==
  ASSUME NEW r, req[r].phase \in Reading, Fail(r)
  PROVE  \E status \in Statuses \ {"accepted"} : Answer(r, status)
<1>1. Unavailable[req[r].phase] \in Statuses \ {"accepted"}
  BY DEF Unavailable, Reading, Statuses
<1>. QED  BY <1>1 DEF Fail

LEMMA FailKeeps ==
  ASSUME IInv, NEW r \in Requests, req[r].phase \in Reading \ {"list"}, Fail(r), CheckUsed(r),
         UNCHANGED <<catalog, changes, clock, index, builder, proposals, shown, ran, tasks>>
  PROVE  IInv'
<1>1. PICK status \in Statuses \ {"accepted"} : Answer(r, status)
  BY FailIs
<1>2. req[r].phase \notin {"idle", "done"} \cup Building
  BY DEF Reading, Building
<1>. QED  BY <1>1, <1>2, AnswerKeeps

(* A request that is recognised goes on to another phase of recognition.   *)
LEMMA RecognitionKeeps ==
  ASSUME IInv, NEW r \in Requests, req[r].phase \in Recognising,
         NEW x \in Request, x.phase \in Recognising,
         req[r].phase \in Building <=> x.phase \in Building,
         x.kind = req[r].kind, x.who = req[r].who, x.pid = req[r].pid,
         x.policyAt = req[r].policyAt, x.status = req[r].status,
         x.phase \in Coded => x.code \in Codes,
         \A c \in x.cands : Open(c, Permits[x.who]),
         x.phase = "search" => index[Scope(r)] # NoIndex,
         req' = [req EXCEPT ![r] = x], CheckUsed(r),
         UNCHANGED <<catalog, changes, clock, index, builder, proposals, shown, ran, tasks>>
  PROVE  IInv'
<1>1. Fit(req[r]) /\ Carries(req[r], shown, proposals) /\ Approved(req[r], shown, catalog, changes)
  BY DEF IInv, Fits, Backs
<1>2. req[r].kind = "intent" /\ req[r].pid = NoProposal /\ req[r].who \in Subjects
      /\ req[r].phase \notin {"done", "idle"}
  BY <1>1 DEF Fit, Recognising
<1>3. x.status # "accepted"
  BY <1>2 DEF IInv, Tasked
<1>4. Fit(x)
  BY <1>2 DEF Fit, Recognising, Coded
<1>5. Carries(x, shown, proposals) /\ Approved(x, shown, catalog, changes) /\ MayAct(r, x)
      /\ SameLock(req[r], x)
  BY <1>1, <1>2 DEF Carries, Approved, MayAct, Recognising, SameLock
<1>6. Step(r, x)
  BY <1>2, <1>4 DEF Step
<1>. QED  BY <1>2, <1>3, <1>5, <1>6, MoveKeeps DEF Recognising, Scope

LEMMA GotoKeeps ==
  ASSUME IInv, NEW r \in Requests, req[r].phase \in Recognising \ Building,
         NEW ph \in Recognising \ Building, Goto(r, ph), CheckUsed(r),
         ph \in Coded => req[r].phase \in Coded,
         ph = "search" => index[Scope(r)] # NoIndex,
         UNCHANGED <<catalog, changes, clock, index, builder, proposals, shown, ran, tasks>>
  PROVE  IInv'
<1> DEFINE q == req[r]
           x == [q EXCEPT !.phase = ph, !.cands = {}]
<1>1. q \in Request /\ Fit(q) /\ req \in [Requests -> Request]
  BY DEF IInv, Types, Fits
<1>2. req' = [req EXCEPT ![r] = x]
  BY <1>1 DEF Goto, Request
<1> HIDE DEF q
<1>3. x \in Request
  BY <1>1 DEF Request, Phases, Recognising
<1>4. /\ x.kind = q.kind /\ x.who = q.who /\ x.pid = q.pid /\ x.policyAt = q.policyAt
      /\ x.status = q.status /\ x.code = q.code /\ x.phase = ph /\ x.cands = {}
  BY <1>1 DEF Request
<1>5. ph \in Coded => x.code \in Codes
  BY <1>1, <1>4 DEF Fit, q
<1> HIDE DEF x
<1>. QED  BY <1>2, <1>3, <1>4, <1>5, RecognitionKeeps DEF q

-----------------------------------------------------------------------------
(* Inputs and the catalogue *)

LEMMA InputsAre ==
  ASSUME NEW inputs
  PROVE  inputs \in Inputs <=> \E fs \in SUBSET Fields : inputs \in [fs -> Values]
BY DEF Inputs

LEMMA MergedIsInputs ==
  ASSUME NEW a \in Inputs, NEW b \in Inputs
  PROVE  Merged(a, b) \in Inputs
<1>1. PICK fa \in SUBSET Fields : a \in [fa -> Values]
  BY InputsAre
<1>2. PICK fb \in SUBSET Fields : b \in [fb -> Values]
  BY InputsAre
<1>3. Merged(a, b) \in [fa \cup fb -> Values]
  BY <1>1, <1>2 DEF Merged
<1>. QED  BY <1>3, InputsAre

LEMMA ResolvedIsInputs ==
  ASSUME NEW cap, NEW a \in Inputs
  PROVE  Resolved(cap, a) \in Inputs
<1>1. PICK fa \in SUBSET Fields : a \in [fa -> Values]
  BY InputsAre
<1>2. Resolved(cap, a) \in [fa -> Values]
  BY <1>1 DEF Resolved, Values
<1>. QED  BY <1>2, InputsAre

(* What a read of the catalogue offers is open to the scope.               *)
LEMMA OfferedIsOpen ==
  ASSUME Types, NEW c \in Codes, NEW s, GetAvailable(catalog, c, s)
  PROVE  Open(c, s)
BY DEF Types, GetAvailable, Open

LEMMA ScopeIs ==
  ASSUME Types, Fits, NEW r \in Requests, req[r].phase # "idle"
  PROVE  Scope(r) \in Scopes /\ req[r].who \in Subjects
BY DEF Fits, Fit, Scope, Scopes

-----------------------------------------------------------------------------
(* Recognition *)

LEMMA RecognizeIntentKeeps ==
  ASSUME IInv, NEW r \in Requests, RecognizeIntent(r)
  PROVE  IInv'
<1>1. PICK s \in Subjects, provided \in Provided :
        req' = [req EXCEPT ![r].phase = "ensure", ![r].who = s, ![r].inputs = provided]
  BY DEF RecognizeIntent
<1>2. req[r] \in Request /\ Fit(req[r]) /\ req \in [Requests -> Request] /\ req[r].phase = "idle"
      /\ Approved(req[r], shown, catalog, changes) /\ req[r] = Idle
  BY DEF IInv, Types, Fits, Backs, Fit, RecognizeIntent
<1> DEFINE q == req[r]
           x == [q EXCEPT !.phase = "ensure", !.who = s, !.inputs = provided]
<1>3. req' = [req EXCEPT ![r] = x]
  BY <1>1, <1>2 DEF Request
<1>4. q.kind = "intent" /\ q.pid = NoProposal /\ q.cands = {} /\ q.status = "none"
  BY <1>2 DEF Idle
<1> HIDE DEF q
<1>5. x \in Request
  <2>1. provided \in Inputs
    BY GatewayAssumption
  <2>. QED  BY <1>2, <2>1 DEF Request, Phases, q
<1>6. /\ x.kind = "intent" /\ x.who = s /\ x.pid = NoProposal /\ x.policyAt = q.policyAt
      /\ x.status = "none" /\ x.phase = "ensure" /\ x.cands = {}
  BY <1>2, <1>4 DEF Request, q
<1> HIDE DEF x
<1>7. Fit(x)
  BY <1>5, <1>6 DEF Fit, Coded, Acting, Recognising
<1>8. Step(r, x)
  BY <1>2, <1>3, <1>7 DEF Step, RecognizeIntent, World, Store, CheckUsed
<1>9. Carries(x, shown, proposals) /\ Approved(x, shown, catalog, changes) /\ MayAct(r, x)
      /\ SameLock(req[r], x)
  BY <1>2, <1>6 DEF Carries, Approved, MayAct, SameLock, Building, q
<1>. QED  BY <1>2, <1>6, <1>8, <1>9, MoveKeeps DEF RecognizeIntent, World, Store

LEMMA BuildBegins ==
  ASSUME IInv, NEW r \in Requests, req[r].phase = "ensure", builder[Scope(r)] = NoRequest,
         builder' = [builder EXCEPT ![Scope(r)] = r], Goto(r, "list"), CheckUsed(r),
         UNCHANGED <<catalog, changes, clock, index, proposals, shown, ran, tasks>>
  PROVE  IInv'
<1>1. /\ req[r] \in Request /\ Fit(req[r]) /\ req \in [Requests -> Request] /\ Types
      /\ Carries(req[r], shown, proposals) /\ Approved(req[r], shown, catalog, changes)
      /\ Scope(r) \in Scopes
  BY ScopeIs DEF IInv, Types, Fits, Backs
<1> DEFINE q == req[r]
           x == [q EXCEPT !.phase = "list", !.cands = {}]
<1>2. req' = [req EXCEPT ![r] = x]
  BY <1>1 DEF Goto, Request
<1>4. q.kind = "intent" /\ q.pid = NoProposal /\ q.status # "accepted" /\ q.who \in Subjects
  BY <1>1 DEF Fit, Recognising, IInv, Tasked
<1> HIDE DEF q
<1>5. x \in Request
  BY <1>1 DEF Request, Phases, q
<1>6. /\ x.kind = q.kind /\ x.who = q.who /\ x.pid = q.pid /\ x.policyAt = q.policyAt
      /\ x.status = q.status /\ x.phase = "list" /\ x.cands = {}
  BY <1>1 DEF Request, q
<1> HIDE DEF x
<1>7. Fit(x)
  BY <1>4, <1>5, <1>6 DEF Fit, Coded, Acting, Recognising
<1>8. Step(r, x)
  BY <1>1, <1>2, <1>7 DEF Step
<1>9. Carries(x, shown, proposals) /\ Approved(x, shown, catalog, changes) /\ MayAct(r, x)
  BY <1>1, <1>4, <1>6 DEF Carries, Approved, MayAct, q
<1>10. Kept
  BY DEF Kept
<1>11. Types' /\ Checks' /\ Fits' /\ Backs' /\ Entries'
  <2>1. Types' /\ Checks'
    BY <1>1, <1>8, ReqAfter, ChecksKept DEF IInv, Types, Step
  <2>. QED  BY <2>1, <1>8, <1>9, <1>10, FitsKept, BacksKept, EntriesKept DEF IInv
<1>12. Tasked' /\ Records' /\ Once'
  BY <1>4, <1>6, <1>8, <1>9, <1>10, TaskedKept, RecordsKept, OnceKept DEF IInv
<1>13. Indexes'
  BY <1>6, <1>8, IndexesKept DEF IInv
<1>14. Builders'
  <2>1. ASSUME NEW s \in Scopes, builder'[s] # NoRequest
        PROVE  req'[builder'[s]].phase \in Building /\ Permits[req'[builder'[s]].who] = s
    <3>1. CASE s = Scope(r)
      <4>1. builder'[s] = r
        BY <1>1, <3>1 DEF Types
      <4>. QED  BY <1>1, <1>6, <1>8, <3>1, <4>1, ReqAfter DEF Scope, q, Building
    <3>2. CASE s # Scope(r)
      <4>1. builder'[s] = builder[s] /\ builder[s] \in Requests
        BY <1>1, <2>1, <3>2 DEF Types
      <4>2. req[builder[s]].phase \in Building /\ Permits[req[builder[s]].who] = s
        BY <2>1, <4>1 DEF IInv, Builders, Scope
      <4>. QED  BY <1>1, <1>8, <4>1, <4>2, ReqAfter DEF Building
    <3>. QED  BY <3>1, <3>2
  <2>2. ASSUME NEW p \in Requests, req'[p].phase \in Building
        PROVE  builder'[Permits[req'[p].who]] = p
    <3>1. CASE p = r
      BY <1>1, <1>6, <1>8, <3>1, ReqAfter DEF Scope, q, Types
    <3>2. CASE p # r
      <4>1. req'[p] = req[p] /\ builder[Permits[req[p].who]] = p
        BY <1>1, <1>8, <2>2, <3>2, ReqAfter DEF IInv, Builders, Scope
      <4>2. Permits[req[p].who] # Scope(r)
        BY <4>1, GatewayAssumption
      <4>3. Permits[req[p].who] \in Scopes
        BY <2>2, <4>1, ScopeIs DEF IInv, Scope, Building
      <4>. QED  BY <1>1, <4>1, <4>2, <4>3 DEF Types
    <3>. QED  BY <3>1, <3>2
  <2>. QED  BY <2>1, <2>2 DEF Builders, Scope
<1>. QED  BY <1>11, <1>12, <1>13, <1>14 DEF IInv

LEMMA EnsureReadyKeeps ==
  ASSUME IInv, NEW r \in Requests, EnsureReady(r)
  PROVE  IInv'
<1> USE DEF EnsureReady, World, Store
<1>0. CheckUsed(r)
  BY DEF CheckUsed
<1>1. CASE index[Scope(r)] # NoIndex
  BY <1>0, <1>1, GotoKeeps DEF Recognising, Coded, Acting, Building
<1>2. CASE index[Scope(r)] = NoIndex
  BY <1>0, <1>2, BuildBegins
<1>. QED  BY <1>1, <1>2

LEMMA BuildEnds ==
  ASSUME IInv, NEW r \in Requests, req[r].phase \in Building, NEW x, Step(r, x),
         x.phase \notin Acting \cup Building, x.status # "accepted",
         Carries(x, shown, proposals), Approved(x, shown, catalog, changes),
         builder' = [builder EXCEPT ![Scope(r)] = NoRequest],
         index' \in [Scopes -> (SUBSET Codes) \cup {NoIndex}], Indexes',
         UNCHANGED <<proposals, shown, ran, tasks>>
  PROVE  IInv'
<1>1. Types /\ Scope(r) \in Scopes /\ builder[Scope(r)] = r
  BY ScopeIs DEF IInv, Builders, Building
<1>2. Kept /\ MayAct(r, x)
  BY DEF Kept, MayAct
<1>3. Types' /\ Checks' /\ Fits' /\ Backs' /\ Entries'
  <2>1. Types' /\ Checks'
    BY <1>1, ReqAfter, ChecksKept DEF IInv, Types, Step
  <2>. QED  BY <1>2, <2>1, FitsKept, BacksKept, EntriesKept DEF IInv
<1>4. Tasked' /\ Records' /\ Once'
  BY <1>2, TaskedKept, RecordsKept, OnceKept DEF IInv
<1>5. Builders'
  <2>1. ASSUME NEW s \in Scopes, builder'[s] # NoRequest
        PROVE  req'[builder'[s]].phase \in Building /\ Permits[req'[builder'[s]].who] = s
    <3>1. s # Scope(r) /\ builder'[s] = builder[s] /\ builder[s] \in Requests
      BY <1>1, <2>1 DEF Types
    <3>2. req[builder[s]].phase \in Building /\ Permits[req[builder[s]].who] = s
      BY <2>1, <3>1 DEF IInv, Builders, Scope
    <3>3. builder[s] # r
      BY <3>1, <3>2 DEF Scope
    <3>. QED  BY <1>1, <3>1, <3>2, <3>3, ReqAfter
  <2>2. ASSUME NEW p \in Requests, req'[p].phase \in Building
        PROVE  builder'[Permits[req'[p].who]] = p
    <3>1. p # r
      BY <1>1, <2>2, ReqAfter
    <3>2. req'[p] = req[p] /\ builder[Permits[req[p].who]] = p
      BY <1>1, <2>2, <3>1, ReqAfter DEF IInv, Builders, Scope
    <3>3. Permits[req[p].who] # Scope(r)
      BY <1>1, <3>1, <3>2
    <3>4. Permits[req[p].who] \in Scopes
      BY <2>2, <3>2, ScopeIs DEF IInv, Scope, Building
    <3>. QED  BY <1>1, <3>2, <3>3, <3>4 DEF Types
  <2>. QED  BY <2>1, <2>2 DEF Builders, Scope
<1>. QED  BY <1>3, <1>4, <1>5 DEF IInv

(* A build that fails leaves the index as it was.                          *)
LEMMA BuildFails ==
  ASSUME IInv, NEW r \in Requests, req[r].phase \in Building, CheckUsed(r),
         NEW status \in Statuses, status # "accepted", Answer(r, status),
         builder' = [builder EXCEPT ![Scope(r)] = NoRequest],
         UNCHANGED <<catalog, changes, clock, index, proposals, shown, ran, tasks>>
  PROVE  IInv'
<1>1. Types /\ Fits /\ Backs /\ Indexes /\ req[r].phase \notin {"idle", "done"}
  BY DEF IInv, Building
<1> DEFINE x == Finished(r, status)
<1>2. /\ Fit(x) /\ Carries(x, shown, proposals) /\ Approved(x, shown, catalog, changes)
      /\ x.phase = "done" /\ x.status = status
  BY <1>1, FinishedFits
<1>3. Step(r, x)
  BY <1>1, <1>2 DEF Step, Answer
<1> HIDE DEF x
<1>4. Indexes'
  BY <1>1, <1>2, <1>3, IndexesKept
<1>5. index' \in [Scopes -> (SUBSET Codes) \cup {NoIndex}] /\ x.phase \notin Acting \cup Building
  BY <1>1, <1>2 DEF Types, Acting, Building
<1>. QED  BY <1>2, <1>3, <1>4, <1>5, BuildEnds

(* The list is kept until its texts are embedded; the lock stays held.     *)
LEMMA ListCapabilitiesKeeps ==
  ASSUME IInv, NEW r \in Requests, ListCapabilities(r)
  PROVE  IInv'
<1> USE DEF World, Table, Store, Reads
<1>1. /\ req[r].phase = "list" /\ Types /\ req[r] \in Request /\ req \in [Requests -> Request]
      /\ CheckUsed(r)
      /\ UNCHANGED <<catalog, changes, clock, index, proposals, shown, ran, tasks>>
  BY DEF IInv, Types, ListCapabilities, CheckUsed
<1>2. CASE Fail(r) /\ builder' = [builder EXCEPT ![Scope(r)] = NoRequest]
  <2>1. PICK status \in Statuses \ {"accepted"} : Answer(r, status)
    BY <1>1, <1>2, FailIs DEF Reading
  <2>2. req[r].phase \in Building
    BY <1>1 DEF Building
  <2>. QED  BY <1>1, <1>2, <2>1, <2>2, BuildFails
<1>3. CASE /\ req' = [req EXCEPT ![r].phase = "build",
                        ![r].cands = ListAvailable(catalog, Scope(r))]
           /\ UNCHANGED builder
  <2> DEFINE q == req[r]
             cands == ListAvailable(catalog, Scope(r))
             x == [q EXCEPT !.phase = "build", !.cands = cands]
  <2>1. req' = [req EXCEPT ![r] = x]
    BY <1>1, <1>3 DEF Request
  <2>2. cands \in SUBSET Codes /\ \A c \in cands : Open(c, Permits[q.who])
    BY <1>1, OfferedIsOpen DEF ListAvailable, Scope
  <2> HIDE DEF q, cands
  <2>3. x \in Request
    BY <1>1, <2>2 DEF Request, Phases, q
  <2>4. /\ x.kind = q.kind /\ x.who = q.who /\ x.pid = q.pid /\ x.policyAt = q.policyAt
        /\ x.status = q.status /\ x.phase = "build" /\ x.cands = cands
    BY <1>1 DEF Request, q
  <2> HIDE DEF x
  <2>5. /\ req[r].phase \in Recognising /\ x.phase \in Recognising /\ x.phase \notin Coded
        /\ req[r].phase \in Building /\ x.phase \in Building /\ x.phase # "search"
    BY <1>1, <2>4 DEF Recognising, Building, Coded, Acting
  <2>. QED  BY <1>1, <1>3, <2>1, <2>2, <2>3, <2>4, <2>5, RecognitionKeeps DEF q
<1>. QED  BY <1>2, <1>3 DEF ListCapabilities

LEMMA RefreshKeeps ==
  ASSUME IInv, NEW r \in Requests, Refresh(r)
  PROVE  IInv'
<1> USE DEF Refresh, World, Store
<1>0. CheckUsed(r)
  BY DEF CheckUsed
<1>1. /\ req[r].phase = "build" /\ Types /\ Indexes /\ req \in [Requests -> Request]
      /\ req[r] \in Request /\ Fit(req[r]) /\ Carries(req[r], shown, proposals)
      /\ Approved(req[r], shown, catalog, changes) /\ Scope(r) \in Scopes
  BY ScopeIs DEF IInv, Types, Fits, Backs
<1>2. CASE index' = [index EXCEPT ![Scope(r)] = req[r].cands] /\ Goto(r, "search")
  <2> DEFINE q == req[r]
             x == [q EXCEPT !.phase = "search", !.cands = {}]
  <2>1. req' = [req EXCEPT ![r] = x]
    BY <1>1, <1>2 DEF Goto, Request
  <2>2. /\ q.kind = "intent" /\ q.pid = NoProposal /\ q.status # "accepted" /\ q.who \in Subjects
        /\ q.cands \in SUBSET Codes /\ \A c \in q.cands : Open(c, Permits[q.who])
    BY <1>1 DEF Fit, Recognising, IInv, Tasked, Request
  <2> HIDE DEF q
  <2>3. x \in Request
    BY <1>1 DEF Request, Phases, q
  <2>4. /\ x.kind = q.kind /\ x.who = q.who /\ x.pid = q.pid /\ x.policyAt = q.policyAt
        /\ x.status = q.status /\ x.phase = "search" /\ x.cands = {}
    BY <1>1 DEF Request, q
  <2> HIDE DEF x
  <2>5. Fit(x)
    BY <2>2, <2>3, <2>4 DEF Fit, Coded, Acting, Recognising
  <2>6. Step(r, x)
    BY <1>0, <1>1, <2>1, <2>5 DEF Step
  <2>7. Carries(x, shown, proposals) /\ Approved(x, shown, catalog, changes)
    BY <1>1, <2>2, <2>4 DEF Carries, Approved, q
  <2>8. index' \in [Scopes -> (SUBSET Codes) \cup {NoIndex}]
    BY <1>1, <1>2, <2>2 DEF Types, q
  <2>9. /\ index'[Scope(r)] = q.cands
        /\ \A s \in Scopes : s # Scope(r) => index'[s] = index[s]
    BY <1>1, <1>2 DEF Types, q
  <2>10. Indexes'
    <3>1. ASSUME NEW s \in Scopes, index'[s] # NoIndex, NEW c \in index'[s]
          PROVE  Open(c, s)
      BY <1>1, <2>2, <2>9, <3>1 DEF Indexes, Scope, q
    <3>2. ASSUME NEW p \in Requests, req'[p].phase = "search"
          PROVE  index'[Permits[req'[p].who]] # NoIndex
      <4>1. index'[Scope(r)] # NoIndex
        BY <2>2, <2>9, GatewayAssumption
      <4>2. CASE p = r
        BY <1>1, <2>4, <2>6, <4>1, <4>2, ReqAfter DEF Scope, q
      <4>3. CASE p # r
        <5>1. req'[p] = req[p] /\ index[Permits[req[p].who]] # NoIndex
          BY <1>1, <2>6, <3>2, <4>3, ReqAfter DEF Indexes, Scope
        <5>2. Permits[req[p].who] \in Scopes
          BY <3>2, <5>1, ScopeIs DEF IInv, Scope
        <5>. QED  BY <2>9, <4>1, <5>1, <5>2
      <4>. QED  BY <4>2, <4>3
    <3>. QED  BY <3>1, <3>2 DEF Indexes, Scope, Open
  <2>. QED  BY <1>1, <2>2, <2>4, <2>6, <2>7, <2>8, <2>10, BuildEnds DEF Acting, Building
<1>3. CASE Answer(r, "needs_clarification") /\ UNCHANGED index
  BY <1>0, <1>1, <1>3, BuildFails DEF Building, Statuses
<1>. QED  BY <1>2, <1>3

LEMMA SearchKeeps ==
  ASSUME IInv, NEW r \in Requests, Search(r)
  PROVE  IInv'
<1> USE DEF World, Store
<1>1. /\ req[r].phase = "search" /\ Types /\ req[r] \in Request /\ req \in [Requests -> Request]
      /\ CheckUsed(r)
      /\ UNCHANGED <<catalog, changes, clock, index, builder, proposals, shown, ran, tasks>>
  BY DEF IInv, Types, Search, CheckUsed
<1>2. CASE Answer(r, "needs_clarification")
  BY <1>1, <1>2, AnswerKeeps DEF Statuses, Building
<1>3. CASE Goto(r, "fallback")
  BY <1>1, <1>3, GotoKeeps DEF Recognising, Coded, Acting, Building
<1>4. ASSUME NEW near \in Near(r),
             req' = [req EXCEPT ![r].cands = near, ![r].phase = "load"]
      PROVE  IInv'
  <2> DEFINE q == req[r]
             x == [q EXCEPT !.phase = "load", !.cands = near]
  <2>1. req' = [req EXCEPT ![r] = x]
    BY <1>1, <1>4 DEF Request
  <2>2. near \in SUBSET Codes /\ \A c \in near : Open(c, Permits[q.who])
    <3>1. Scope(r) \in Scopes /\ index[Scope(r)] # NoIndex
      BY <1>1, ScopeIs DEF IInv, Indexes
    <3>2. near \subseteq index[Scope(r)] /\ index[Scope(r)] \in SUBSET Codes
      BY <1>1, <3>1 DEF Types, Near
    <3>. QED  BY <3>1, <3>2 DEF IInv, Indexes, Scope
  <2> HIDE DEF q
  <2>3. x \in Request
    BY <1>1, <2>2 DEF Request, Phases, q
  <2>4. /\ x.kind = q.kind /\ x.who = q.who /\ x.pid = q.pid /\ x.policyAt = q.policyAt
        /\ x.status = q.status /\ x.phase = "load" /\ x.cands = near
    BY <1>1 DEF Request, q
  <2> HIDE DEF x
  <2>. QED  BY <1>1, <2>1, <2>2, <2>3, <2>4, RecognitionKeeps
            DEF Recognising, Coded, Acting, Building, q
<1>. QED  BY <1>2, <1>3, <1>4 DEF Search

LEMMA LoadAvailableKeeps ==
  ASSUME IInv, NEW r \in Requests, LoadAvailable(r)
  PROVE  IInv'
<1> USE DEF Table, Store, Reads
<1>1. /\ req[r].phase = "load" /\ req[r] \in Request /\ req \in [Requests -> Request]
      /\ Fit(req[r]) /\ CheckUsed(r)
      /\ UNCHANGED <<catalog, changes, clock, index, builder, proposals, shown, ran, tasks>>
  BY DEF IInv, Types, Fits, LoadAvailable, CheckUsed
<1>2. CASE Fail(r)
  BY <1>1, <1>2, FailKeeps DEF Reading
<1> DEFINE current == {c \in req[r].cands : Offered(r, c)}
<1>3. CASE req' = [req EXCEPT ![r].cands = current, ![r].phase = "llm"]
  <2> DEFINE q == req[r]
             x == [q EXCEPT !.phase = "llm", !.cands = current]
  <2>1. req' = [req EXCEPT ![r] = x]
    BY <1>1, <1>3 DEF Request
  <2>2. current \in SUBSET Codes /\ \A c \in current : Open(c, Permits[q.who])
    BY <1>1 DEF Fit, Request
  <2> HIDE DEF q, current
  <2>3. x \in Request
    BY <1>1, <2>2 DEF Request, Phases, q
  <2>4. /\ x.kind = q.kind /\ x.who = q.who /\ x.pid = q.pid /\ x.policyAt = q.policyAt
        /\ x.status = q.status /\ x.phase = "llm" /\ x.cands = current
    BY <1>1 DEF Request, q
  <2> HIDE DEF x
  <2>. QED  BY <1>1, <2>1, <2>2, <2>3, <2>4, RecognitionKeeps
            DEF Recognising, Coded, Acting, Building, q
<1>. QED  BY <1>2, <1>3 DEF LoadAvailable

LEMMA NoMatchKeeps ==
  ASSUME IInv, NEW r \in Requests, NoMatch(r)
  PROVE  IInv'
<1>1. /\ req[r].phase = "llm" /\ CheckUsed(r)
      /\ UNCHANGED <<catalog, changes, clock, index, builder, proposals, shown, ran, tasks>>
  BY DEF NoMatch, World, Store, CheckUsed
<1>2. CASE Answer(r, "needs_clarification")
  BY <1>1, <1>2, AnswerKeeps DEF Statuses, Building
<1>3. CASE Goto(r, "fallback")
  BY <1>1, <1>3, GotoKeeps DEF Recognising, Coded, Acting, Building
<1>. QED  BY <1>2, <1>3 DEF NoMatch

LEMMA ClassifyKeeps ==
  ASSUME IInv, NEW r \in Requests, Classify(r)
  PROVE  IInv'
<1> USE DEF Table, Store, Reads
<1>1. /\ req[r].phase = "llm" /\ Types /\ req[r] \in Request /\ req \in [Requests -> Request]
      /\ CheckUsed(r)
      /\ UNCHANGED <<catalog, changes, clock, index, builder, proposals, shown, ran, tasks>>
  BY DEF IInv, Types, Classify, CheckUsed
<1>2. CASE Answer(r, "needs_clarification")
  BY <1>1, <1>2, AnswerKeeps DEF Statuses, Building
<1>3. ASSUME NEW c \in BoundCodes(r), NEW extracted \in Drafts,
             req' = [req EXCEPT ![r].phase = "resolve", ![r].code = c,
                       ![r].inputs = Merged(req[r].inputs, extracted), ![r].cands = {}]
      PROVE  IInv'
  <2> DEFINE q == req[r]
             inputs == Merged(req[r].inputs, extracted)
             x == [q EXCEPT !.phase = "resolve", !.code = c, !.inputs = inputs, !.cands = {}]
  <2>1. req' = [req EXCEPT ![r] = x]
    BY <1>1, <1>3 DEF Request
  <2>2. c \in Codes /\ inputs \in Inputs
    <3>1. extracted \in Inputs /\ req[r].inputs \in Inputs /\ req[r].cands \in SUBSET Codes
      BY <1>1, GatewayAssumption DEF Request
    <3>. QED  BY <3>1, MergedIsInputs DEF BoundCodes
  <2> HIDE DEF q, inputs
  <2>3. x \in Request
    BY <1>1, <2>2 DEF Request, Phases, q
  <2>4. /\ x.kind = q.kind /\ x.who = q.who /\ x.pid = q.pid /\ x.policyAt = q.policyAt
        /\ x.status = q.status /\ x.phase = "resolve" /\ x.cands = {} /\ x.code = c
    BY <1>1 DEF Request, q
  <2> HIDE DEF x
  <2>. QED  BY <1>1, <2>1, <2>2, <2>3, <2>4, RecognitionKeeps DEF Recognising, Building, q
<1>. QED  BY <1>2, <1>3 DEF Classify

LEMMA FallbackKeeps ==
  ASSUME IInv, NEW r \in Requests, Fallback(r)
  PROVE  IInv'
<1>1. /\ req[r].phase = "fallback" /\ CheckUsed(r)
      /\ UNCHANGED <<catalog, changes, clock, index, builder, proposals, shown, ran, tasks>>
      /\ Answer(r, "authorized") \/ Answer(r, "unrecognized")
  BY DEF Fallback, Table, Store, Reads, CheckUsed
<1>. QED  BY <1>1, AnswerKeeps DEF Statuses, Building

LEMMA ResolveAttachmentsKeeps ==
  ASSUME IInv, NEW r \in Requests, ResolveAttachments(r)
  PROVE  IInv'
<1> USE DEF Table, Store, Reads
<1>1. /\ req[r].phase = "resolve" /\ Types /\ req[r] \in Request /\ req \in [Requests -> Request]
      /\ Fit(req[r]) /\ CheckUsed(r)
      /\ UNCHANGED <<catalog, changes, clock, index, builder, proposals, shown, ran, tasks>>
  BY DEF IInv, Types, Fits, ResolveAttachments, CheckUsed
<1>2. CASE Fail(r) \/ Answer(r, "needs_clarification") \/ Answer(r, "rejected")
  BY <1>1, <1>2, AnswerKeeps, FailKeeps DEF Statuses, Building, Reading
<1>3. CASE Goto(r, "direct")
  BY <1>1, <1>3, GotoKeeps DEF Recognising, Coded, Acting, Building
<1>4. CASE req' = [req EXCEPT ![r].phase = "direct",
                     ![r].inputs = Resolved(catalog[req[r].code], req[r].inputs)]
  <2> DEFINE q == req[r]
             inputs == Resolved(catalog[req[r].code], req[r].inputs)
             x == [q EXCEPT !.phase = "direct", !.inputs = inputs]
  <2>1. req' = [req EXCEPT ![r] = x]
    BY <1>1, <1>4 DEF Request
  <2>2. inputs \in Inputs
    BY <1>1, ResolvedIsInputs DEF Request
  <2>3. q.code \in Codes /\ \A c \in q.cands : Open(c, Permits[q.who])
    BY <1>1 DEF Fit, Coded
  <2> HIDE DEF q, inputs
  <2>4. x \in Request
    BY <1>1, <2>2 DEF Request, Phases, q
  <2>5. /\ x.kind = q.kind /\ x.who = q.who /\ x.pid = q.pid /\ x.policyAt = q.policyAt
        /\ x.status = q.status /\ x.phase = "direct" /\ x.cands = q.cands /\ x.code = q.code
    BY <1>1 DEF Request, q
  <2> HIDE DEF x
  <2>. QED  BY <1>1, <2>1, <2>3, <2>4, <2>5, RecognitionKeeps DEF Recognising, Building, q
<1>. QED  BY <1>2, <1>3, <1>4 DEF ResolveAttachments

LEMMA PrepareUnconfirmedKeeps ==
  ASSUME IInv, NEW r \in Requests, PrepareUnconfirmed(r)
  PROVE  IInv'
<1>1. /\ req[r].phase = "direct" /\ CheckUsed(r)
      /\ UNCHANGED <<catalog, changes, clock, index, builder, proposals, shown, ran, tasks>>
  BY DEF PrepareUnconfirmed, Table, Store, Reads, CheckUsed
<1>2. CASE Answer(r, "rejected") \/ Answer(r, "authorized")
  BY <1>1, <1>2, AnswerKeeps DEF Statuses, Building
<1>3. CASE Goto(r, "propose")
  BY <1>1, <1>3, GotoKeeps DEF Recognising, Coded, Acting, Building
<1>. QED  BY <1>2, <1>3 DEF PrepareUnconfirmed

LEMMA LiveIs ==
  ASSUME Types
  PROVE  /\ Live(clock) \in [Requests -> Proposal \cup {NoProposal}]
         /\ \A p \in Requests : Live(clock)[p] \in {proposals[p], NoProposal}
         /\ \A p \in Requests : Live(clock)[p] # NoProposal => proposals[p].expires > clock
<1>1. \A p \in Requests : /\ Live(clock)[p] \in {proposals[p], NoProposal}
                          /\ Live(clock)[p] # NoProposal => proposals[p].expires > clock
  BY DEF Live
<1>. QED  BY <1>1 DEF Types, Live

LEMMA ConsumedIs ==
  ASSUME Types, NEW p \in Requests
  PROVE  /\ Consumed(p) \in [Requests -> Proposal \cup {NoProposal}]
         /\ \A q \in Requests : Consumed(p)[q] \in {proposals[q], NoProposal}
         /\ Consumed(p)[p] = NoProposal
BY LiveIs DEF Consumed

(* The record a proposal is made from.                                     *)
LEMMA ProposalIs ==
  ASSUME Types, NEW c \in Codes, NEW inputs \in Inputs, NEW s \in Subjects,
         NEW torn \in BOOLEAN
  PROVE  [code |-> c, type |-> catalog[c].type, key |-> catalog[c].key, inputs |-> inputs,
          who |-> s, expires |-> clock + ProposalTTL, torn |-> torn] \in Proposal
<1>1. catalog[c].type \in CapabilityType /\ catalog[c].key \in Keys
  BY DEF Types, Capability
<1>2. clock + ProposalTTL \in Nat
  BY GatewayAssumption DEF Types
<1>. QED  BY <1>1, <1>2 DEF Proposal

LEMMA CreateProposalKeeps ==
  ASSUME IInv, NEW r \in Requests, CreateProposal(r)
  PROVE  IInv'
<1> USE DEF Table, Store, Reads
<1>1. /\ req[r].phase = "propose" /\ Types /\ req[r] \in Request /\ Fit(req[r])
      /\ CheckUsed(r) /\ Torn(r) \in BOOLEAN
      /\ UNCHANGED <<catalog, changes, clock, index, builder, ran, tasks>>
  BY DEF IInv, Types, Fits, CreateProposal, CheckUsed, Torn
<1>2. req[r].code \in Codes /\ req[r].who \in Subjects /\ req[r].inputs \in Inputs
  BY <1>1 DEF Fit, Coded, Request
<1> DEFINE c == req[r].code
           entry == [code |-> c, type |-> catalog[c].type, key |-> catalog[c].key,
                     inputs |-> req[r].inputs, who |-> req[r].who,
                     expires |-> clock + ProposalTTL, torn |-> Torn(r)]
<1>3. CASE Answer(r, "rejected") /\ UNCHANGED <<proposals, shown>>
  BY <1>1, <1>3, AnswerKeeps DEF Statuses, Building
<1>4. CASE /\ proposals' = [Live(clock) EXCEPT ![r] = entry]
           /\ shown' = [shown EXCEPT ![r] = entry]
           /\ Answer(r, "pending")
  <2>1. /\ entry \in Proposal /\ entry.key = catalog[c].key /\ entry.type = catalog[c].type
        /\ entry.torn = Torn(r)
    BY <1>1, <1>2, ProposalIs
  <2>2. Binding[entry.key] = entry.type \/ entry.torn
    <3>1. ~Torn(r) => ~Raises
      BY DEF Torn, IInv, Checks
    <3>2. ~Raises => Binding[catalog[c].key] = catalog[c].type
      BY <1>2 DEF Raises, ValidateRegistered, Validate
    <3>. QED  BY <2>1, <3>1, <3>2
  <2> HIDE DEF entry, c
  <2> DEFINE x == Finished(r, "pending")
  <2>3. /\ Fit(x) /\ Carries(x, shown, proposals) /\ Approved(x, shown, catalog, changes)
        /\ x.phase = "done" /\ x.status = "pending"
    BY <1>1, FinishedFits DEF IInv, Statuses
  <2>4. Step(r, x)
    BY <1>1, <1>4, <2>3 DEF Step, Answer
  <2> HIDE DEF x
  <2>5. shown[r] = NoProposal
    BY <1>1 DEF IInv, Entries
  <2>6. /\ proposals' \in [Requests -> Proposal \cup {NoProposal}]
        /\ shown' \in [Requests -> Proposal \cup {NoProposal}]
        /\ proposals'[r] = entry /\ shown'[r] = entry
        /\ \A p \in Requests : p # r => /\ shown'[p] = shown[p]
                                        /\ proposals'[p] \in {proposals[p], NoProposal}
    BY <1>1, <1>4, <2>1, LiveIs DEF Types
  <2>7. Kept
    BY <2>5, <2>6 DEF Kept
  <2>8. MayAct(r, x) /\ x \in Request /\ SameLock(req[r], x) /\ x.phase # "search"
    BY <1>1, <2>3 DEF MayAct, Acting, Fit, SameLock, Building
  <2>9. Types' /\ Checks' /\ Fits'
    BY <1>1, <2>4, <2>6, ReqAfter, FitsKept, ChecksKept DEF IInv, Types
  <2>10. Backs'
    <3>1. Carries(x, shown', proposals') /\ Approved(x, shown', catalog, changes)
      BY <1>1, <2>3, <2>7, <2>8, CarriesOn, ApprovedOn
    <3>. QED  BY <1>1, <2>4, <2>7, <3>1, BacksKept DEF IInv
  <2>11. Entries'
    <3>1. ASSUME NEW p \in Requests
          PROVE  /\ shown'[p] # NoProposal => /\ req'[p].phase = "done"
                                              /\ \/ Binding[shown'[p].key] = shown'[p].type
                                                 \/ shown'[p].torn
                 /\ proposals'[p] # NoProposal => proposals'[p] = shown'[p]
      <4>1. CASE p = r
        BY <1>1, <2>2, <2>3, <2>4, <2>6, <4>1, ReqAfter
      <4>2. CASE p # r
        BY <1>1, <2>4, <2>6, <4>2, ReqAfter DEF IInv, Entries
      <4>. QED  BY <4>1, <4>2
    <3>. QED  BY <3>1 DEF Entries
  <2>12. Tasked' /\ Records' /\ Once'
    BY <1>1, <2>3, <2>4, <2>7, <2>8, TaskedKept, RecordsKept, OnceKept DEF IInv
  <2>13. Builders' /\ Indexes'
    BY <1>1, <2>4, <2>8, BuildersKept, IndexesKept DEF IInv
  <2>. QED  BY <2>9, <2>10, <2>11, <2>12, <2>13 DEF IInv
<1>. QED  BY <1>3, <1>4 DEF CreateProposal

-----------------------------------------------------------------------------
(* Confirmation *)

LEMMA RespondKeeps ==
  ASSUME IInv, NEW r \in Requests, Respond(r)
  PROVE  IInv'
<1>1. PICK s \in Subjects, p \in Requests, k \in {"confirm", "agent"} :
        /\ shown[p] # NoProposal
        /\ req' = [req EXCEPT ![r].phase = "consume", ![r].kind = k, ![r].who = s, ![r].pid = p]
  BY DEF Respond
<1>2. req[r] \in Request /\ Fit(req[r]) /\ req \in [Requests -> Request] /\ req[r].phase = "idle"
      /\ Approved(req[r], shown, catalog, changes) /\ req[r] = Idle
  BY DEF IInv, Types, Fits, Backs, Fit, Respond
<1> DEFINE q == req[r]
           x == [q EXCEPT !.phase = "consume", !.kind = k, !.who = s, !.pid = p]
<1>3. req' = [req EXCEPT ![r] = x]
  BY <1>1, <1>2 DEF Request
<1>4. q.cands = {} /\ q.status = "none"
  BY <1>2 DEF Idle
<1> HIDE DEF q
<1>5. x \in Request
  BY <1>2 DEF Request, Phases, Kinds, q
<1>6. /\ x.kind = k /\ x.who = s /\ x.pid = p /\ x.policyAt = q.policyAt
      /\ x.status = "none" /\ x.phase = "consume" /\ x.cands = {}
  BY <1>2, <1>4 DEF Request, q
<1> HIDE DEF x
<1>7. p # NoProposal
  BY GatewayAssumption
<1>8. Fit(x)
  BY <1>5, <1>6, <1>7 DEF Fit, Coded, Acting, Recognising
<1>9. Step(r, x)
  BY <1>2, <1>3, <1>8 DEF Step, Respond, World, Store, CheckUsed
<1>10. Carries(x, shown, proposals) /\ Approved(x, shown, catalog, changes) /\ MayAct(r, x)
       /\ SameLock(req[r], x)
  BY <1>1, <1>2, <1>6 DEF Carries, Approved, MayAct, Acting, SameLock, Building, q
<1>. QED  BY <1>2, <1>6, <1>9, <1>10, MoveKeeps DEF Respond, World, Store

(* A step that moves one request and takes proposals out of the store.     *)
LEMMA TakeKeeps ==
  ASSUME IInv, NEW r \in Requests, NEW x, Step(r, x),
         UNCHANGED <<index, builder, shown, ran, tasks>>,
         proposals' \in [Requests -> Proposal \cup {NoProposal}],
         \A p \in Requests : proposals'[p] \in {proposals[p], NoProposal},
         Carries(x, shown, proposals'), Approved(x, shown, catalog, changes),
         x.status # "accepted", MayAct(r, x),
         req[r].phase \notin Building, x.phase \notin Building \cup {"search"}
  PROVE  IInv'
<1>1. Kept
  BY DEF Kept
<1>2. Types' /\ Checks'
  BY ReqAfter, ChecksKept DEF IInv, Types, Step
<1>3. Fits' /\ Backs'
  BY <1>1, FitsKept, BacksKept DEF IInv
<1>4. Entries'
  BY EntriesKept DEF IInv
<1>5. Tasked' /\ Records' /\ Once'
  BY <1>1, TaskedKept, RecordsKept, OnceKept DEF IInv
<1>6. Builders' /\ Indexes'
  BY BuildersKept, IndexesKept DEF IInv, SameLock
<1>. QED  BY <1>2, <1>3, <1>4, <1>5, <1>6 DEF IInv

(* An answer while proposals expire or one is consumed.                    *)
LEMMA TakeAnswerKeeps ==
  ASSUME IInv, NEW r \in Requests, req[r].phase = "consume",
         NEW status \in Statuses, status # "accepted", Answer(r, status), CheckUsed(r),
         proposals' \in [Requests -> Proposal \cup {NoProposal}],
         \A p \in Requests : proposals'[p] \in {proposals[p], NoProposal},
         UNCHANGED <<catalog, changes, clock, index, builder, shown, ran, tasks>>
  PROVE  IInv'
<1> DEFINE x == Finished(r, status)
<1>1. /\ Fit(x) /\ Carries(x, shown, proposals) /\ Approved(x, shown, catalog, changes)
      /\ x.phase = "done" /\ x.status = status
  BY FinishedFits DEF IInv
<1>2. Step(r, x)
  BY <1>1 DEF Step, Answer
<1> HIDE DEF x
<1>3. MayAct(r, x) /\ req[r].phase \notin Building /\ x.phase \notin Building \cup {"search"}
  BY <1>1 DEF MayAct, Acting, Building
<1>4. Carries(x, shown, proposals')
  BY <1>1 DEF Carries, Acting
<1>. QED  BY <1>1, <1>2, <1>3, <1>4, TakeKeeps

(* A proposal that is held is the one that was shown, and it is in time.   *)
LEMMA HeldIs ==
  ASSUME IInv, NEW r \in Requests, req[r].phase = "consume", Held(r)
  PROVE  LET p == req[r].pid IN
         /\ p \in Requests /\ p # NoProposal
         /\ proposals[p] # NoProposal /\ proposals[p] = shown[p]
         /\ shown[p] \in Proposal
         /\ shown[p].who = req[r].who
         /\ shown[p].expires > clock
<1>1. Types /\ Fit(req[r]) /\ req[r] \in Request
  BY DEF IInv, Types, Fits
<1> DEFINE p == req[r].pid
<1>2. p \in Requests /\ p # NoProposal
  BY <1>1 DEF Fit, Request
<1>3. Live(clock)[p] # NoProposal /\ Live(clock)[p].who = req[r].who
  BY DEF Held
<1>4. proposals[p] # NoProposal /\ proposals[p] = Live(clock)[p] /\ proposals[p].expires > clock
  BY <1>1, <1>2, <1>3, LiveIs
<1>5. proposals[p] = shown[p]
  BY <1>2, <1>4 DEF IInv, Entries
<1>. QED  BY <1>1, <1>2, <1>3, <1>4, <1>5 DEF Types

(* A request that adopts a proposal takes it.                              *)
LEMMA AdoptKeeps ==
  ASSUME IInv, NEW r \in Requests, req[r].phase = "consume", Held(r),
         proposals' = Consumed(req[r].pid),
         NEW ph \in {"dispatch", "approve"}, Adopt(r, ph), CheckUsed(r),
         ph = "dispatch" => req[r].kind = "confirm" /\ proposals[req[r].pid].type # "agent",
         ph = "approve" => req[r].kind = "agent",
         UNCHANGED <<catalog, changes, clock, index, builder, shown, ran, tasks>>
  PROVE  IInv'
<1>1. /\ Types /\ req \in [Requests -> Request] /\ req[r] \in Request /\ Fit(req[r])
      /\ Carries(req[r], shown, proposals) /\ Approved(req[r], shown, catalog, changes)
  BY DEF IInv, Types, Fits, Backs
<1> DEFINE q == req[r]
           e == proposals[q.pid]
           x == [q EXCEPT !.phase = ph, !.code = e.code, !.key = e.key, !.inputs = e.inputs]
<1>2. req' = [req EXCEPT ![r] = x]
  BY <1>1 DEF Adopt, Request
<1>3. /\ q.pid \in Requests /\ q.pid # NoProposal /\ e # NoProposal /\ e = shown[q.pid]
      /\ e \in Proposal /\ e.who = q.who
  BY HeldIs
<1>4. Binding[e.key] = e.type \/ e.torn
  BY <1>3, GatewayAssumption DEF IInv, Entries
<1>5. q.status # "accepted" /\ q.who \in Subjects
      /\ \A c \in q.cands : Open(c, Permits[q.who])
  BY <1>1 DEF Fit, IInv, Tasked
<1> HIDE DEF q, e
<1>6. x \in Request
  BY <1>1, <1>3 DEF Request, Phases, Proposal, q
<1>7. /\ x.kind = q.kind /\ x.who = q.who /\ x.pid = q.pid /\ x.policyAt = q.policyAt
      /\ x.status = q.status /\ x.phase = ph /\ x.cands = q.cands
      /\ x.code = e.code /\ x.key = e.key /\ x.inputs = e.inputs
  BY <1>1 DEF Request, q
<1> HIDE DEF x
<1>8. Fit(x)
  <2>1. e.code \in Codes /\ q.kind \in {"confirm", "agent"}
    BY <1>1, <1>3 DEF Proposal, Fit, q
  <2>. QED  BY <1>3, <1>5, <1>6, <1>7, <2>1 DEF Fit, Recognising, q
<1>9. Step(r, x)
  BY <1>2, <1>8 DEF Step
<1>10. /\ proposals' \in [Requests -> Proposal \cup {NoProposal}]
       /\ \A p \in Requests : proposals'[p] \in {proposals[p], NoProposal}
       /\ proposals'[q.pid] = NoProposal
  BY <1>1, <1>3, ConsumedIs DEF q
<1>11. Carries(x, shown, proposals')
  BY <1>3, <1>4, <1>7, <1>10 DEF Carries, q, e
<1>12. Approved(x, shown, catalog, changes) /\ MayAct(r, x)
  BY <1>1, <1>3, <1>7, <1>10 DEF Approved, MayAct, q, e
<1>13. req[r].phase \notin Building /\ x.phase \notin Building \cup {"search"}
  BY <1>7 DEF Building
<1>. QED  BY <1>5, <1>7, <1>9, <1>10, <1>11, <1>12, <1>13, TakeKeeps

LEMMA ConfirmKeeps ==
  ASSUME IInv, NEW r \in Requests, Confirm(r)
  PROVE  IInv'
<1>1. /\ req[r].phase = "consume" /\ req[r].kind = "confirm" /\ Types /\ CheckUsed(r)
      /\ UNCHANGED <<catalog, changes, clock, index, builder, shown, ran, tasks>>
  BY DEF IInv, Confirm, World, CheckUsed
<1>2. CASE ~Held(r)
  BY <1>1, <1>2, LiveIs, TakeAnswerKeeps DEF Confirm, Statuses
<1>3. CASE Held(r)
  <2>1. req[r].pid \in Requests /\ proposals' = Consumed(req[r].pid)
    BY <1>1, <1>3, HeldIs DEF Confirm
  <2>2. CASE Answer(r, "rejected") \/ Answer(r, "cancelled")
    BY <1>1, <2>1, <2>2, ConsumedIs, TakeAnswerKeeps DEF Statuses
  <2>3. CASE Adopt(r, "dispatch") /\ proposals[req[r].pid].type # "agent"
    BY <1>1, <1>3, <2>1, <2>3, AdoptKeeps
  <2>. QED  BY <1>3, <2>2, <2>3 DEF Confirm
<1>. QED  BY <1>2, <1>3

LEMMA ConfirmDialogueAgentKeeps ==
  ASSUME IInv, NEW r \in Requests, ConfirmDialogueAgent(r)
  PROVE  IInv'
<1>1. /\ req[r].phase = "consume" /\ req[r].kind = "agent" /\ Types /\ CheckUsed(r)
      /\ UNCHANGED <<catalog, changes, clock, index, builder, shown, ran, tasks>>
  BY DEF IInv, ConfirmDialogueAgent, World, CheckUsed
<1>2. CASE ~Held(r)
  BY <1>1, <1>2, LiveIs, TakeAnswerKeeps DEF ConfirmDialogueAgent, Statuses
<1>3. CASE Held(r)
  <2>1. req[r].pid \in Requests /\ proposals' = Consumed(req[r].pid)
    BY <1>1, <1>3, HeldIs DEF ConfirmDialogueAgent
  <2>2. CASE Answer(r, "rejected") \/ Answer(r, "cancelled")
    BY <1>1, <2>1, <2>2, ConsumedIs, TakeAnswerKeeps DEF Statuses
  <2>3. CASE Adopt(r, "approve")
    BY <1>1, <1>3, <2>1, <2>3, AdoptKeeps
  <2>. QED  BY <1>3, <2>2, <2>3 DEF ConfirmDialogueAgent
<1>. QED  BY <1>2, <1>3

-----------------------------------------------------------------------------
(* Execution *)

(* No new claim, so still one.                                             *)
LEMMA ClaimsKept ==
  ASSUME Types, Once, Backs, Kept,
         \A q \in Requests : Claims(q)' => Claims(q) /\ req'[q].pid = req[q].pid
  PROVE  Once'
<1>1. ASSUME NEW q \in Requests, Claims(q)
      PROVE  proposals'[req[q].pid] = NoProposal
  <2>1. req[q].pid \in Requests /\ proposals[req[q].pid] = NoProposal
    BY <1>1 DEF Once, Claims, Types, Request
  <2>2. shown[req[q].pid] # NoProposal
    BY <1>1 DEF Claims, Backs, Carries
  <2>. QED  BY <2>1, <2>2 DEF Kept
<1>. QED  BY <1>1 DEF Once

(* A handler or an agent runs and the request is answered.                 *)
LEMMA RunKeeps ==
  ASSUME IInv, NEW r \in Requests, req[r].phase \in {"dispatch", "runtime"},
         NEW via, NEW key, Ran(r, via, key),
         via \in {"handler", "agent"},
         via = "handler" => req[r].pid # NoProposal /\ key = shown[req[r].pid].key,
         via = "agent" => /\ req[r].kind = "confirm" => shown[req[r].pid].torn
                          /\ \/ req[r].pid = NoProposal
                             \/ key = shown[req[r].pid].key
                             \/ changes > req[r].policyAt,
         NEW status \in Statuses, status # "accepted", Answer(r, status), CheckUsed(r),
         UNCHANGED <<catalog, changes, clock, index, builder, proposals, shown, tasks>>
  PROVE  IInv'
<1>1. /\ Types /\ req[r] \in Request /\ Fit(req[r]) /\ Carries(req[r], shown, proposals)
      /\ req[r].phase \in Acting
  BY DEF IInv, Types, Fits, Backs, Acting
<1> DEFINE x == Finished(r, status)
           y == [by |-> r, pid |-> req[r].pid, via |-> via, key |-> key,
                 code |-> req[r].code, inputs |-> req[r].inputs,
                 who |-> req[r].who, at |-> changes]
<1>2. /\ Fit(x) /\ Carries(x, shown, proposals) /\ Approved(x, shown, catalog, changes)
      /\ x.phase = "done" /\ x.status = status /\ x.kind = req[r].kind
      /\ x.pid = req[r].pid /\ x.policyAt = req[r].policyAt
  BY <1>1, FinishedFits DEF IInv
<1>3. Step(r, x)
  BY <1>2 DEF Step, Answer
<1> HIDE DEF x
<1>4. ran' = ran \cup {y}
  BY DEF Ran
<1>5. /\ y.by = r /\ y.pid = req[r].pid /\ y.via = via /\ y.key = key /\ y.code = req[r].code
      /\ y.inputs = req[r].inputs /\ y.who = req[r].who /\ y.at = changes
  OBVIOUS
<1> HIDE DEF y
<1>6. Recorded(y, x, shown)
  <2>1. y.via = "agent" /\ x.kind = "agent" => y.key = shown[y.pid].key \/ y.at > x.policyAt
    <3>1. req[r].kind = "agent" => req[r].pid # NoProposal
      BY <1>1 DEF Fit
    <3>. QED  BY <1>2, <1>5, <3>1
  <2>. QED  BY <1>1, <1>2, <1>5, <2>1 DEF Recorded, Carries
<1>7. Kept /\ MayAct(r, x) /\ SameLock(req[r], x) /\ x.phase # "search"
  BY <1>2 DEF Kept, MayAct, Acting, SameLock, Building
<1>8. Types' /\ Checks' /\ Fits' /\ Backs' /\ Entries'
  <2>1. Types' /\ Checks'
    BY <1>1, <1>3, ReqAfter, ChecksKept DEF IInv, Types
  <2>. QED  BY <1>2, <1>3, <1>7, <2>1, FitsKept, BacksKept, EntriesKept DEF IInv
<1>9. Tasked' /\ Builders' /\ Indexes'
  BY <1>2, <1>3, <1>7, TaskedKept, BuildersKept, IndexesKept DEF IInv
<1>10. Records'
  <2>1. ASSUME NEW z \in ran
        PROVE  z.by \in Requests /\ Recorded(z, req'[z.by], shown)
    <3>1. z.by \in Requests /\ Recorded(z, req[z.by], shown)
      BY DEF IInv, Records
    <3>2. z.by # r
      BY <3>1 DEF Recorded
    <3>. QED  BY <1>1, <1>3, <3>1, <3>2, ReqAfter
  <2>2. y.by \in Requests /\ Recorded(y, req'[y.by], shown)
    BY <1>1, <1>3, <1>5, <1>6, ReqAfter
  <2>. QED  BY <1>4, <2>1, <2>2 DEF Records
<1>11. Once'
  <2>1. req'[r].pid = req[r].pid /\ \A q \in Requests : q # r => req'[q] = req[q]
    BY <1>1, <1>2, <1>3, ReqAfter
  <2>2. \A q \in Requests : Claims(q)' => Claims(q) /\ req'[q].pid = req[q].pid
    BY <1>1, <1>4, <1>5, <2>1 DEF Claims
  <2>. QED  BY <1>7, <2>2, ClaimsKept DEF IInv
<1>. QED  BY <1>8, <1>9, <1>10, <1>11 DEF IInv

LEMMA ControlledDispatchKeeps ==
  ASSUME IInv, NEW r \in Requests, ControlledDispatch(r)
  PROVE  IInv'
<1> USE DEF Table, Store, Reads
<1> DEFINE cap == catalog[req[r].code]
<1>1. /\ req[r].phase = "dispatch" /\ Types /\ Fit(req[r]) /\ Carries(req[r], shown, proposals)
      /\ Approved(req[r], shown, catalog, changes) /\ CheckUsed(r)
      /\ req[r] \in Request /\ req \in [Requests -> Request]
      /\ UNCHANGED <<catalog, changes, clock, index, builder, proposals, shown, tasks>>
  BY DEF IInv, Fits, Backs, Types, ControlledDispatch, CheckUsed
<1>2. /\ req[r].kind = "confirm" /\ req[r].pid # NoProposal /\ req[r].code \in Codes
      /\ req[r].key = shown[req[r].pid].key
  BY <1>1 DEF Fit, Carries, Coded, Acting
<1>3. CASE UNCHANGED ran /\ (Fail(r) \/ Answer(r, "failed") \/ Answer(r, "rejected"))
  BY <1>1, <1>3, AnswerKeeps, FailKeeps DEF Statuses, Building, Reading
<1>4. CASE Goto(r, "runtime") /\ UNCHANGED ran
  <2> DEFINE q == req[r]
             x == [q EXCEPT !.phase = "runtime", !.cands = {}]
  <2>1. req' = [req EXCEPT ![r] = x]
    BY <1>1, <1>4 DEF Goto, Request
  <2>2. q.status # "accepted" /\ q.who \in Subjects
    BY <1>1 DEF Fit, IInv, Tasked
  <2> HIDE DEF q
  <2>3. x \in Request
    BY <1>1 DEF Request, Phases, q
  <2>4. /\ x.kind = "confirm" /\ x.who = q.who /\ x.pid = q.pid /\ x.policyAt = q.policyAt
        /\ x.status = q.status /\ x.phase = "runtime" /\ x.cands = {}
        /\ x.code = q.code /\ x.key = q.key /\ x.inputs = q.inputs
    BY <1>1, <1>2 DEF Request, q
  <2> HIDE DEF x
  <2>5. Fit(x)
    BY <1>2, <2>2, <2>3, <2>4 DEF Fit, Coded, Acting, Recognising, q
  <2>6. Step(r, x)
    BY <1>1, <2>1, <2>5 DEF Step
  <2>7. q.phase = "dispatch" /\ Carries(q, shown, proposals) /\ Approved(q, shown, catalog, changes)
        /\ q.pid # NoProposal /\ q.key = shown[q.pid].key
    BY <1>1, <1>2 DEF q
  <2>8. Carries(x, shown, proposals) /\ Approved(x, shown, catalog, changes)
    BY <2>4, <2>7 DEF Carries, Approved, Acting
  <2>9. MayAct(r, x) /\ SameLock(req[r], x) /\ x.phase # "search"
    BY <1>1, <2>4 DEF MayAct, Acting, SameLock, Building, q
  <2>. QED  BY <1>1, <1>4, <2>2, <2>4, <2>6, <2>8, <2>9, MoveKeeps
<1>5. ASSUME cap.key = req[r].key, Ran(r, "handler", cap.key),
             NEW status \in HandlerStatuses, Answer(r, status)
      PROVE  IInv'
  <2>1. status \in Statuses /\ status # "accepted"
    BY DEF HandlerStatuses, Statuses
  <2>2. cap.key = shown[req[r].pid].key
    BY <1>2, <1>5
  <2> HIDE DEF cap
  <2>. QED  BY <1>1, <1>2, <1>5, <2>1, <2>2, RunKeeps
<1>. QED  BY <1>3, <1>4, <1>5 DEF ControlledDispatch

(* An approval that still names the record goes on to the policy.          *)
LEMMA ApproveKeeps ==
  ASSUME IInv, NEW r \in Requests, Approve(r)
  PROVE  IInv'
<1> USE DEF Table, Store, Reads
<1>1. /\ req[r].phase = "approve" /\ Fit(req[r]) /\ Carries(req[r], shown, proposals)
      /\ Approved(req[r], shown, catalog, changes) /\ CheckUsed(r)
      /\ req[r] \in Request /\ req \in [Requests -> Request]
      /\ UNCHANGED <<catalog, changes, clock, index, builder, proposals, shown, ran, tasks>>
  BY DEF IInv, Fits, Backs, Types, Approve, CheckUsed
<1>2. CASE Answer(r, "rejected")
  BY <1>1, <1>2, AnswerKeeps DEF Statuses, Building
<1>3. CASE Goto(r, "policy")
  <2> DEFINE q == req[r]
             x == [q EXCEPT !.phase = "policy", !.cands = {}]
  <2>1. req' = [req EXCEPT ![r] = x]
    BY <1>1, <1>3 DEF Goto, Request
  <2>2. q.status # "accepted" /\ q.who \in Subjects /\ q.kind = "agent" /\ q.code \in Codes
    BY <1>1 DEF Fit, Coded, Acting, IInv, Tasked
  <2> HIDE DEF q
  <2>3. x \in Request
    BY <1>1 DEF Request, Phases, q
  <2>4. /\ x.kind = q.kind /\ x.who = q.who /\ x.pid = q.pid /\ x.policyAt = q.policyAt
        /\ x.status = q.status /\ x.phase = "policy" /\ x.cands = {}
        /\ x.code = q.code /\ x.key = q.key /\ x.inputs = q.inputs
    BY <1>1 DEF Request, q
  <2> HIDE DEF x
  <2>5. q.phase = "approve" /\ Carries(q, shown, proposals) /\ Approved(q, shown, catalog, changes)
        /\ Fit(q)
    BY <1>1 DEF q
  <2>6. Fit(x)
    BY <2>2, <2>3, <2>4, <2>5 DEF Fit, Coded, Acting, Recognising
  <2>7. Step(r, x)
    BY <1>1, <2>1, <2>6 DEF Step
  <2>8. Carries(x, shown, proposals) /\ Approved(x, shown, catalog, changes)
    BY <2>4, <2>5 DEF Carries, Approved, Acting
  <2>9. MayAct(r, x) /\ SameLock(req[r], x) /\ x.phase # "search"
    BY <1>1, <2>4 DEF MayAct, Acting, SameLock, Building, q
  <2>. QED  BY <1>1, <2>2, <2>4, <2>7, <2>8, <2>9, MoveKeeps
<1>. QED  BY <1>2, <1>3 DEF Approve

LEMMA McpCallKeeps ==
  ASSUME IInv, NEW r \in Requests, McpCall(r)
  PROVE  IInv'
<1> DEFINE Read(draft) == [f \in DOMAIN draft |-> IF draft[f] = "id" THEN "resolved" ELSE draft[f]]
<1>1. PICK s \in Subjects, c \in McpTools, draft \in Drafts :
        req' = [req EXCEPT ![r].phase = "policy", ![r].kind = "mcp", ![r].who = s,
                  ![r].code = c, ![r].inputs = Read(draft)]
  BY DEF McpCall
<1>2. req[r] \in Request /\ Fit(req[r]) /\ req \in [Requests -> Request] /\ req[r].phase = "idle"
      /\ Approved(req[r], shown, catalog, changes) /\ req[r] = Idle
  BY DEF IInv, Types, Fits, Backs, Fit, McpCall
<1> DEFINE q == req[r]
           inputs == Read(draft)
           x == [q EXCEPT !.phase = "policy", !.kind = "mcp", !.who = s, !.code = c, !.inputs = inputs]
<1>3. req' = [req EXCEPT ![r] = x]
  BY <1>1, <1>2 DEF Request
<1>4. q.pid = NoProposal /\ q.cands = {} /\ q.status = "none"
  BY <1>2 DEF Idle
<1>5. c \in Codes /\ inputs \in Inputs
  <2>1. PICK fs \in SUBSET Fields : draft \in [fs -> Values]
    BY GatewayAssumption, InputsAre
  <2>2. inputs \in [fs -> Values]
    BY <2>1 DEF Values
  <2>. QED  BY <2>2, InputsAre, GatewayAssumption
<1> HIDE DEF q, inputs, Read
<1>6. x \in Request
  BY <1>2, <1>5 DEF Request, Phases, Kinds, q
<1>7. /\ x.kind = "mcp" /\ x.who = s /\ x.pid = NoProposal /\ x.policyAt = q.policyAt
      /\ x.status = "none" /\ x.phase = "policy" /\ x.cands = {} /\ x.code = c
  BY <1>2, <1>4 DEF Request, q
<1> HIDE DEF x
<1>8. Fit(x)
  BY <1>5, <1>6, <1>7 DEF Fit, Coded, Acting, Recognising
<1>9. Step(r, x)
  BY <1>2, <1>3, <1>8 DEF Step, McpCall, World, Store, CheckUsed
<1>10. Carries(x, shown, proposals) /\ Approved(x, shown, catalog, changes) /\ MayAct(r, x)
       /\ SameLock(req[r], x)
  BY <1>2, <1>7 DEF Carries, Approved, MayAct, SameLock, Building, q
<1>. QED  BY <1>2, <1>7, <1>9, <1>10, MoveKeeps DEF McpCall, World, Store

LEMMA PolicyKeeps ==
  ASSUME IInv, NEW r \in Requests, Policy(r)
  PROVE  IInv'
<1> USE DEF Table, Store, Reads
<1>1. /\ req[r].phase = "policy" /\ Types /\ req[r] \in Request /\ req \in [Requests -> Request]
      /\ Fit(req[r]) /\ Carries(req[r], shown, proposals)
      /\ Approved(req[r], shown, catalog, changes) /\ changes \in Nat /\ CheckUsed(r)
      /\ UNCHANGED <<catalog, changes, clock, index, builder, proposals, shown, ran, tasks>>
  BY DEF IInv, Types, Fits, Backs, Policy, CheckUsed
<1>2. CASE Fail(r) \/ Answer(r, "rejected") \/ Answer(r, "confirmation_required")
  BY <1>1, <1>2, AnswerKeeps, FailKeeps DEF Statuses, Building, Reading
<1>3. CASE /\ ApprovalMatches(r, catalog[req[r].code])
           /\ ~(catalog[req[r].code].policy # "never" /\ req[r].kind = "mcp")
           /\ req' = [req EXCEPT ![r].phase = "current", ![r].policyAt = changes]
  <2> DEFINE q == req[r]
             x == [q EXCEPT !.phase = "current", !.policyAt = changes]
  <2>1. req' = [req EXCEPT ![r] = x]
    BY <1>1, <1>3 DEF Request
  <2>2. /\ q.kind \in {"agent", "mcp"} /\ q.status # "accepted" /\ q.who \in Subjects
        /\ q.code \in Codes /\ (q.pid = NoProposal <=> q.kind = "mcp")
        /\ \A c \in q.cands : Open(c, Permits[q.who])
    BY <1>1 DEF Fit, Coded, Acting, IInv, Tasked
  <2>3. /\ q.kind = "mcp" => catalog[q.code].policy = "never"
        /\ q.kind = "agent" => catalog[q.code].key = q.key
    BY <1>3 DEF ApprovalMatches
  <2> HIDE DEF q
  <2>4. x \in Request
    BY <1>1 DEF Request, Phases, q
  <2>5. /\ x.kind = q.kind /\ x.who = q.who /\ x.pid = q.pid /\ x.policyAt = changes
        /\ x.status = q.status /\ x.phase = "current" /\ x.cands = q.cands
        /\ x.code = q.code /\ x.key = q.key /\ x.inputs = q.inputs
    BY <1>1 DEF Request, q
  <2> HIDE DEF x
  <2>6. Fit(x)
    BY <2>2, <2>4, <2>5 DEF Fit, Coded, Acting, Recognising
  <2>7. Step(r, x)
    BY <1>1, <2>1, <2>6 DEF Step
  <2>8. q.phase = "policy" /\ Carries(q, shown, proposals)
    BY <1>1 DEF q
  <2>9. Carries(x, shown, proposals)
    BY <2>5, <2>8 DEF Carries, Acting
  <2>10. Approved(x, shown, catalog, changes)
    BY <1>1, <2>2, <2>3, <2>5, <2>8 DEF Approved, Carries
  <2>11. MayAct(r, x) /\ SameLock(req[r], x)
    BY <1>1, <2>5 DEF MayAct, Acting, SameLock, Building, q
  <2>. QED  BY <1>1, <2>2, <2>5, <2>7, <2>9, <2>10, <2>11, MoveKeeps
<1>. QED  BY <1>2, <1>3 DEF Policy

LEMMA ReadCurrentAgentKeeps ==
  ASSUME IInv, NEW r \in Requests, ReadCurrentAgent(r)
  PROVE  IInv'
<1> USE DEF Table, Store, Reads
<1>1. /\ req[r].phase = "current" /\ Types /\ req[r] \in Request /\ req \in [Requests -> Request]
      /\ Fit(req[r]) /\ Carries(req[r], shown, proposals)
      /\ Approved(req[r], shown, catalog, changes) /\ CheckUsed(r)
      /\ UNCHANGED <<catalog, changes, clock, index, builder, proposals, shown, ran, tasks>>
  BY DEF IInv, Types, Fits, Backs, ReadCurrentAgent, CheckUsed
<1>2. CASE Fail(r) \/ Answer(r, "rejected")
  BY <1>1, <1>2, AnswerKeeps, FailKeeps DEF Statuses, Building, Reading
<1>3. CASE req' = [req EXCEPT ![r].key = catalog[req[r].code].key, ![r].phase = Strategy(r)]
  <2> DEFINE q == req[r]
             key == catalog[req[r].code].key
             ph == Strategy(r)
             x == [q EXCEPT !.key = key, !.phase = ph]
  <2>1. req' = [req EXCEPT ![r] = x]
    BY <1>1, <1>3 DEF Request
  <2>2. /\ q.kind \in {"agent", "mcp"} /\ q.status # "accepted" /\ q.who \in Subjects
        /\ q.code \in Codes /\ (q.pid = NoProposal <=> q.kind = "mcp")
        /\ \A c \in q.cands : Open(c, Permits[q.who])
    BY <1>1 DEF Fit, Coded, Acting, IInv, Tasked
  <2>3. ph \in {"bridge", "runtime"} /\ (ph = "bridge" => q.kind = "agent")
    BY DEF Strategy
  <2>4. key \in Keys /\ key = catalog[q.code].key
    BY <1>1, <2>2 DEF Types, Capability
  <2> HIDE DEF q, key, ph
  <2>5. x \in Request
    BY <1>1, <2>3, <2>4 DEF Request, Phases, q
  <2>6. /\ x.kind = q.kind /\ x.who = q.who /\ x.pid = q.pid /\ x.policyAt = q.policyAt
        /\ x.status = q.status /\ x.phase = ph /\ x.cands = q.cands
        /\ x.code = q.code /\ x.key = key /\ x.inputs = q.inputs
    BY <1>1 DEF Request, q
  <2> HIDE DEF x
  <2>7. Fit(x)
    BY <2>2, <2>3, <2>5, <2>6 DEF Fit, Coded, Acting, Recognising
  <2>8. Step(r, x)
    BY <1>1, <2>1, <2>7 DEF Step
  <2>9. q.phase = "current" /\ Carries(q, shown, proposals) /\ Approved(q, shown, catalog, changes)
    BY <1>1 DEF q
  <2>10. Carries(x, shown, proposals)
    BY <2>2, <2>3, <2>6, <2>9 DEF Carries, Acting
  <2>11. Approved(x, shown, catalog, changes)
    BY <2>2, <2>3, <2>4, <2>6, <2>9 DEF Approved
  <2>12. MayAct(r, x) /\ SameLock(req[r], x)
    BY <1>1, <2>3, <2>6 DEF MayAct, Acting, SameLock, Building, q
  <2>. QED  BY <1>1, <2>2, <2>3, <2>6, <2>8, <2>10, <2>11, <2>12, MoveKeeps
<1>. QED  BY <1>2, <1>3 DEF ReadCurrentAgent

LEMMA RuntimeExecuteKeeps ==
  ASSUME IInv, NEW r \in Requests, RuntimeExecute(r)
  PROVE  IInv'
<1> USE DEF Table, Store, Reads
<1> DEFINE cap == catalog[req[r].code]
<1>1. /\ req[r].phase = "runtime" /\ Types /\ Fit(req[r]) /\ req[r] \in Request /\ changes \in Nat
      /\ Carries(req[r], shown, proposals) /\ Approved(req[r], shown, catalog, changes)
      /\ CheckUsed(r)
      /\ UNCHANGED <<catalog, changes, clock, index, builder, proposals, shown, tasks>>
  BY DEF IInv, Types, Fits, Backs, RuntimeExecute, CheckUsed
<1>2. req[r].kind \in {"confirm", "agent", "mcp"} /\ (req[r].kind = "confirm" => req[r].pid # NoProposal)
  BY <1>1 DEF Fit
<1>3. CASE UNCHANGED ran /\ (Fail(r) \/ Answer(r, "failed") \/ Answer(r, "rejected"))
  BY <1>1, <1>3, AnswerKeeps, FailKeeps DEF Statuses, Building, Reading
<1>4. ASSUME cap.key = req[r].key, cap.key \in AgentHandlers, Ran(r, "agent", cap.key),
             NEW status \in AgentStatuses, Answer(r, status)
      PROVE  IInv'
  <2>1. Binding[cap.key] = "agent"
    BY <1>4, GatewayAssumption
  <2>2. status \in Statuses /\ status # "accepted"
    BY DEF AgentStatuses, Statuses
  <2>3. req[r].kind = "confirm" => /\ shown[req[r].pid].torn
                                   /\ cap.key = shown[req[r].pid].key
    BY <1>1, <1>2, <1>4, <2>1 DEF Carries
  <2>4. req[r].pid = NoProposal \/ cap.key = shown[req[r].pid].key \/ changes > req[r].policyAt
    BY <1>1, <1>4 DEF Approved, Request
  <2> HIDE DEF cap
  <2>. QED  BY <1>1, <1>4, <2>2, <2>3, <2>4, RunKeeps
<1>. QED  BY <1>3, <1>4 DEF RuntimeExecute

(* An accepted call leaves the task of what was approved.                  *)
LEMMA SubmitKeeps ==
  ASSUME IInv, NEW r \in Requests, req[r].phase = "bridge", SnapshotOf(r) # {},
         Submit(r), Answer(r, "accepted"), CheckUsed(r),
         UNCHANGED <<catalog, changes, clock, index, builder, proposals, shown, ran>>
  PROVE  IInv'
<1>1. /\ Types /\ req[r] \in Request /\ Fit(req[r]) /\ Carries(req[r], shown, proposals)
      /\ req[r].phase \in Acting
  BY DEF IInv, Types, Fits, Backs, Acting
<1>2. /\ req[r].pid # NoProposal /\ req[r].code \in Codes /\ req[r].who \in Subjects
      /\ req[r].inputs \in Inputs
  BY <1>1 DEF Fit, Coded, Acting, Request
<1> DEFINE x == Finished(r, "accepted")
           t == [code |-> req[r].code, inputs |-> req[r].inputs, owner |-> req[r].who]
<1>3. /\ Fit(x) /\ Carries(x, shown, proposals) /\ Approved(x, shown, catalog, changes)
      /\ x.phase = "done" /\ x.status = "accepted" /\ x.pid = req[r].pid
  BY <1>1, FinishedFits DEF IInv, Statuses
<1>4. Step(r, x)
  BY <1>1, <1>3 DEF Step, Answer
<1> HIDE DEF x
<1>5. /\ t \in Task
      /\ t = [code |-> shown[req[r].pid].code, inputs |-> shown[req[r].pid].inputs,
              owner |-> shown[req[r].pid].who]
      /\ t.inputs = req[r].inputs
  BY <1>1, <1>2 DEF Task, Carries
<1>6. tasks' = [tasks EXCEPT ![r] = t]
  BY DEF Submit
<1> HIDE DEF t
<1>7. /\ tasks' \in [Requests -> Task \cup {NoProposal}]
      /\ tasks'[r] = t /\ t # NoProposal
      /\ \A q \in Requests : q # r => tasks'[q] = tasks[q]
  BY <1>1, <1>5, <1>6, GatewayAssumption DEF Types
<1>8. Kept /\ SameLock(req[r], x) /\ x.phase # "search"
  BY <1>3 DEF Kept, SameLock, Building
<1>9. Types' /\ Checks' /\ Fits' /\ Backs' /\ Entries'
  <2>1. Types' /\ Checks'
    BY <1>1, <1>4, <1>7, ReqAfter, ChecksKept DEF IInv, Types
  <2>. QED  BY <1>1, <1>3, <1>4, <1>8, <2>1, FitsKept, BacksKept, EntriesKept DEF IInv
<1>10. Records' /\ Builders' /\ Indexes'
  BY <1>3, <1>4, <1>8, RecordsKept, BuildersKept, IndexesKept DEF IInv
<1>11. req'[r] = x /\ \A q \in Requests : q # r => req'[q] = req[q]
  BY <1>1, <1>4, ReqAfter
<1>12. Tasked'
  <2>1. ASSUME NEW q \in Requests
        PROVE  /\ req'[q].status = "accepted" => tasks'[q] # NoProposal
               /\ tasks'[q] # NoProposal =>
                    /\ req'[q].phase = "done" /\ req'[q].pid # NoProposal
                    /\ tasks'[q] = [code |-> shown[req'[q].pid].code,
                                    inputs |-> shown[req'[q].pid].inputs,
                                    owner |-> shown[req'[q].pid].who]
                    /\ \E f \in DOMAIN tasks'[q].inputs : tasks'[q].inputs[f] = "resolved"
    <3>1. CASE q = r
      BY <1>2, <1>3, <1>5, <1>7, <1>11, <3>1 DEF SnapshotOf
    <3>2. CASE q # r
      <4>1. req'[q] = req[q] /\ tasks'[q] = tasks[q]
        BY <1>7, <1>11, <3>2
      <4>2. Tasked
        BY DEF IInv
      <4>. QED  BY <4>1, <4>2 DEF Tasked
    <3>. QED  BY <3>1, <3>2
  <2>. QED  BY <2>1 DEF Tasked
<1>13. Once'
  <2>1. \A q \in Requests : Claims(q)' => Claims(q) /\ req'[q].pid = req[q].pid
    BY <1>1, <1>3, <1>7, <1>11 DEF Claims
  <2>. QED  BY <1>1, <1>8, <2>1, ClaimsKept DEF IInv
<1>. QED  BY <1>9, <1>10, <1>12, <1>13 DEF IInv

LEMMA BridgeKeeps ==
  ASSUME IInv, NEW r \in Requests, Bridge(r)
  PROVE  IInv'
<1>1. /\ req[r].phase = "bridge" /\ CheckUsed(r)
      /\ UNCHANGED <<catalog, changes, clock, index, builder, proposals, shown, ran>>
  BY DEF Bridge, World, Store, CheckUsed
<1>2. CASE Answer(r, "failed") /\ UNCHANGED tasks
  BY <1>1, <1>2, AnswerKeeps DEF Statuses, Building
<1>3. CASE SnapshotOf(r) # {} /\ Submit(r) /\ Answer(r, "accepted")
  BY <1>1, <1>3, SubmitKeeps
<1>. QED  BY <1>2, <1>3 DEF Bridge

(* The first SELECT: what it saw stays true until the catalogue changes.   *)
LEMMA CheckCatalogKeeps ==
  ASSUME IInv, NEW r \in Requests, CheckCatalog(r)
  PROVE  IInv'
<1>1. /\ Types /\ Checks /\ Builders /\ changes \in Nat /\ req[r].phase \in Reading
      /\ UNCHANGED <<catalog, changes, clock, index, proposals, shown, ran, tasks>>
  BY DEF IInv, Types, CheckCatalog, Table, Store
<1>2. CASE /\ Fail(r) /\ checked' = checked
           /\ builder' = [s \in Scopes |-> IF builder[s] = r THEN NoRequest ELSE builder[s]]
  <2>1. CheckUsed(r)
    BY <1>2 DEF CheckUsed
  <2>2. CASE req[r].phase = "list"
    <3>1. req[r].phase \in Building
      BY <2>2 DEF Building
    <3>2. Scope(r) \in Scopes /\ builder[Scope(r)] = r
      BY <1>1, <2>2, <3>1, ScopeIs DEF IInv, Builders
    <3>3. \A s \in Scopes : builder[s] = r => s = Scope(r)
      BY <1>1, GatewayAssumption DEF Builders
    <3>4. builder' = [builder EXCEPT ![Scope(r)] = NoRequest]
      BY <1>1, <1>2, <3>2, <3>3 DEF Types
    <3>5. PICK status \in Statuses \ {"accepted"} : Answer(r, status)
      BY <1>1, <1>2, FailIs
    <3>. QED  BY <1>1, <2>1, <3>1, <3>4, <3>5, BuildFails
  <2>3. CASE req[r].phase # "list"
    <3>1. req[r].phase \notin Building
      BY <1>1, <2>3 DEF Reading, Building
    <3>2. \A s \in Scopes : builder[s] # r
      BY <1>1, <3>1, GatewayAssumption DEF Builders
    <3>3. builder' = builder
      BY <1>1, <1>2, <3>2 DEF Types
    <3>. QED  BY <1>1, <1>2, <2>1, <2>3, <3>3, FailKeeps
  <2>. QED  BY <2>2, <2>3
<1>3. CASE /\ ~Raises /\ checked' = [checked EXCEPT ![r] = {changes}]
           /\ UNCHANGED <<req, builder>>
  <2>1. Raises' <=> Raises
    BY <1>1 DEF Raises
  <2>2. Types' /\ Checks'
    <3>1. checked' \in [Requests -> SUBSET Nat]
      BY <1>1, <1>3 DEF Types
    <3>2. ASSUME NEW q \in Requests, NEW n \in checked'[q]
          PROVE  n <= changes /\ (n = changes => ~Raises)
      <4>1. n = changes \/ n \in checked[q]
        BY <1>1, <1>3 DEF Types
      <4>. QED  BY <1>1, <1>3, <4>1 DEF Checks
    <3>. QED  BY <1>1, <1>3, <2>1, <3>1, <3>2 DEF Types, Checks
  <2>3. Fits' /\ Backs' /\ Entries'
    BY <1>1, <1>3 DEF IInv, Fits, Backs, Entries
  <2>4. Tasked' /\ Records'
    BY <1>1, <1>3 DEF IInv, Tasked, Records
  <2>5. Once' /\ Builders' /\ Indexes'
    BY <1>1, <1>3 DEF IInv, Once, Claims, Builders, Indexes, Scope
  <2>. QED  BY <2>2, <2>3, <2>4, <2>5 DEF IInv
<1>. QED  BY <1>2, <1>3 DEF CheckCatalog

-----------------------------------------------------------------------------
(* Time, the catalogue table and the process *)

LEMMA TickKeeps ==
  ASSUME IInv, Tick
  PROVE  IInv'
<1>1. clock' \in Nat
  BY DEF IInv, Types, Tick
<1>2. UNCHANGED <<catalog, changes, checked, index, builder, proposals, shown, req, ran, tasks>>
  BY DEF Tick, World
<1>3. Types' /\ Checks' /\ Fits' /\ Backs' /\ Entries'
  BY <1>1, <1>2 DEF IInv, Types, Checks, Raises, Fits, Backs, Entries
<1>4. Tasked' /\ Records'
  BY <1>2 DEF IInv, Tasked, Records
<1>5. Once' /\ Builders' /\ Indexes'
  BY <1>2 DEF IInv, Once, Claims, Builders, Indexes, Scope
<1>. QED  BY <1>3, <1>4, <1>5 DEF IInv

LEMMA ChangeCatalogKeeps ==
  ASSUME IInv, ChangeCatalog
  PROVE  IInv'
<1>0. PICK c \in Codes : \E cap \in Offers[c] : catalog' = [catalog EXCEPT ![c] = cap]
  BY DEF ChangeCatalog
<1>1. PICK cap \in Offers[c] : catalog' = [catalog EXCEPT ![c] = cap]
  BY <1>0
<1>2. changes \in Nat /\ changes' = changes + 1
  BY DEF IInv, Types, ChangeCatalog
<1>3. UNCHANGED <<checked, index, builder, clock, proposals, shown, req, ran, tasks>>
  BY DEF ChangeCatalog, Store
<1>4. Types' /\ Checks'
  <2>1. cap \in Capability
    BY GatewayAssumption
  <2>2. catalog' \in [Codes -> Capability] /\ \A d \in Codes : catalog'[d] \in Offers[d]
    BY <1>1, <2>1 DEF IInv, Types
  <2>3. ASSUME NEW r \in Requests, NEW n \in checked[r]
        PROVE  n <= changes' /\ n # changes'
    <3>1. n \in Nat /\ n <= changes
      BY DEF IInv, Types, Checks
    <3>. QED  BY <1>2, <3>1
  <2>4. Checks'
    BY <1>3, <2>3 DEF Checks
  <2>. QED  BY <1>2, <1>3, <2>2, <2>4 DEF IInv, Types
<1>5. Backs'
  <2>1. ASSUME NEW r \in Requests
        PROVE  Carries(req[r], shown, proposals) /\ Approved(req[r], shown, catalog', changes')
    <3>1. Carries(req[r], shown, proposals) /\ req[r].policyAt <= changes /\ req[r].policyAt \in Nat
      BY DEF IInv, Types, Backs, Approved, Request
    <3>2. req[r].policyAt <= changes' /\ req[r].policyAt # changes'
      BY <1>2, <3>1
    <3>. QED  BY <3>1, <3>2 DEF Approved
  <2>. QED  BY <1>3, <2>1 DEF Backs
<1>6. Fits' /\ Entries' /\ Tasked' /\ Records'
  BY <1>3 DEF IInv, Fits, Entries, Tasked, Records
<1>7. Once' /\ Builders' /\ Indexes'
  BY <1>3 DEF IInv, Once, Claims, Builders, Indexes, Scope
<1>. QED  BY <1>4, <1>5, <1>6, <1>7 DEF IInv

LEMMA RestartKeeps ==
  ASSUME IInv, Restart
  PROVE  IInv'
<1> DEFINE Lost(r) == Finished(r, "lost")
           Stays(r) == req[r].phase \in {"idle", "done"}
<1>1. /\ changes \in Nat /\ changes' = changes + 1 /\ Types /\ Fits /\ Backs
      /\ checked' = [r \in Requests |-> {}]
      /\ index' = [s \in Scopes |-> NoIndex]
      /\ builder' = [s \in Scopes |-> NoRequest]
      /\ proposals' = [r \in Requests |-> NoProposal]
      /\ req' = [r \in Requests |-> IF Stays(r) THEN req[r] ELSE Lost(r)]
      /\ UNCHANGED <<catalog, clock, shown, ran, tasks>>
  BY DEF IInv, Types, Restart
<1>2. \A r \in Requests : Stays(r) => req'[r] = req[r]
  BY <1>1
<1>3. ASSUME NEW r \in Requests, ~Stays(r)
      PROVE  /\ req'[r] = Lost(r) /\ Fit(Lost(r)) /\ Carries(Lost(r), shown, proposals)
             /\ Approved(Lost(r), shown, catalog, changes)
             /\ Lost(r).phase = "done" /\ Lost(r).status = "lost" /\ Lost(r).pid = req[r].pid
  BY <1>1, <1>3, FinishedFits DEF Statuses
<1> HIDE DEF Lost
<1>4. ASSUME NEW r \in Requests
      PROVE  /\ Fit(req'[r]) /\ Carries(req'[r], shown, proposals)
             /\ Approved(req'[r], shown, catalog, changes)
             /\ req'[r].phase \in {"idle", "done"} /\ req'[r].pid = req[r].pid
  <2>1. CASE Stays(r)
    BY <1>1, <1>2, <2>1 DEF Fits, Backs
  <2>2. CASE ~Stays(r)
    BY <1>3, <2>2
  <2>. QED  BY <2>1, <2>2
<1>5. Kept
  BY <1>1 DEF Kept
<1>6. req' \in [Requests -> Request]
  <2>1. \A r \in Requests : req'[r] \in Request
    BY <1>4 DEF Fit
  <2>. QED  BY <1>1, <2>1
<1>7. Types' /\ Checks'
  BY <1>1, <1>6 DEF Types, Checks
<1>8. Fits'
  BY <1>4 DEF Fits, Fit, Open, IsAllowed
<1>9. Backs'
  <2>1. ASSUME NEW r \in Requests
        PROVE  Carries(req'[r], shown, proposals') /\ Approved(req'[r], shown, catalog, changes')
    <3>1. req'[r] \in Request /\ req'[r].phase \notin Acting
      BY <1>4 DEF Fit, Acting
    <3>2. req'[r].policyAt <= changes' /\ req'[r].policyAt # changes'
      BY <1>1, <1>4, <3>1 DEF Approved, Request
    <3>. QED  BY <1>4, <3>1, <3>2 DEF Carries, Approved, Acting
  <2>. QED  BY <1>1, <2>1 DEF Backs
<1>10. Entries'
  <2>1. ASSUME NEW p \in Requests, shown[p] # NoProposal
        PROVE  /\ req'[p].phase = "done"
               /\ Binding[shown[p].key] = shown[p].type \/ shown[p].torn
    BY <1>2, <2>1 DEF IInv, Entries
  <2>. QED  BY <1>1, <2>1 DEF Entries
<1>11. Tasked'
  <2>1. ASSUME NEW r \in Requests
        PROVE  /\ req'[r].status = "accepted" => tasks[r] # NoProposal
               /\ tasks[r] # NoProposal =>
                    /\ req'[r].phase = "done" /\ req'[r].pid # NoProposal
                    /\ tasks[r] = [code |-> shown[req'[r].pid].code,
                                   inputs |-> shown[req'[r].pid].inputs,
                                   owner |-> shown[req'[r].pid].who]
                    /\ \E f \in DOMAIN tasks[r].inputs : tasks[r].inputs[f] = "resolved"
    <3>1. CASE Stays(r)
      BY <1>2, <3>1 DEF IInv, Tasked
    <3>2. CASE ~Stays(r)
      <4>1. tasks[r] = NoProposal
        BY <3>2 DEF IInv, Tasked
      <4>. QED  BY <1>3, <3>2, <4>1
    <3>. QED  BY <3>1, <3>2
  <2>. QED  BY <1>1, <2>1 DEF Tasked
<1>12. Records'
  <2>1. ASSUME NEW y \in ran
        PROVE  y.by \in Requests /\ Recorded(y, req'[y.by], shown)
    BY <1>2 DEF IInv, Records, Recorded
  <2>. QED  BY <1>1, <2>1 DEF Records
<1>13. Once'
  <2>1. \A r \in Requests : Claims(r)' => Claims(r) /\ req'[r].pid = req[r].pid
    BY <1>1, <1>4 DEF Claims, Acting
  <2>. QED  BY <1>1, <1>5, <2>1, ClaimsKept DEF IInv
<1>14. Builders' /\ Indexes'
  <2>1. \A r \in Requests : req'[r].phase \notin Building \cup {"search"}
    BY <1>4 DEF Building
  <2>. QED  BY <1>1, <2>1 DEF Builders, Indexes
<1>. QED  BY <1>7, <1>8, <1>9, <1>10, <1>11, <1>12, <1>13, <1>14 DEF IInv

-----------------------------------------------------------------------------
(* The invariant holds *)

LEMMA IdleFits ==
  /\ Idle \in Request /\ Fit(Idle)
  /\ Idle.phase = "idle" /\ Idle.pid = NoProposal /\ Idle.policyAt = 0
  /\ Idle.status = "none" /\ Idle.cands = {}
<1>1. /\ Idle.phase = "idle" /\ Idle.pid = NoProposal /\ Idle.policyAt = 0
      /\ Idle.status = "none" /\ Idle.cands = {} /\ Idle.kind = "intent"
  BY DEF Idle
<1>2. NoInputs \in Inputs
  <2>1. NoInputs \in [{} -> Values] /\ {} \in SUBSET Fields
    BY DEF NoInputs
  <2>. QED  BY <2>1 DEF Inputs
<1>3. Idle \in Request
  <2>1. "intent" \in Kinds /\ "idle" \in Phases /\ "none" \in Statuses /\ 0 \in Nat
    BY DEF Kinds, Phases, Statuses
  <2>. QED  BY <1>2, <2>1 DEF Idle, Request
<1>4. Fit(Idle)
  BY <1>1, <1>3 DEF Fit, Coded, Acting, Recognising
<1>. QED  BY <1>1, <1>3, <1>4

LEMMA InitIInv ==
  ASSUME Init
  PROVE  IInv
<1> USE DEF Init
<1>1. \A r \in Requests : req[r] = Idle
  OBVIOUS
<1>2. catalog \in [Codes -> Capability] /\ \A c \in Codes : catalog[c] \in Offers[c]
  BY GatewayAssumption
<1>3. Types /\ Checks
  BY <1>2, IdleFits DEF Types, Checks
<1>4. Fits /\ Backs
  BY <1>1, IdleFits DEF Fits, Backs, Carries, Approved
<1>5. Entries /\ Tasked /\ Records
  BY <1>1, IdleFits DEF Entries, Tasked, Records
<1>6. Once /\ Builders /\ Indexes
  BY <1>1, IdleFits DEF Once, Claims, Builders, Indexes, Building
<1>. QED  BY <1>3, <1>4, <1>5, <1>6 DEF IInv

LEMMA ServeKeeps ==
  ASSUME IInv, NEW r \in Requests, Arrive(r) \/ Serve(r)
  PROVE  IInv'
<1>1. CASE Arrive(r)
  BY <1>1, RecognizeIntentKeeps, RespondKeeps, McpCallKeeps DEF Arrive
<1>2. CASE CheckCatalog(r) \/ EnsureReady(r) \/ ListCapabilities(r) \/ Refresh(r) \/ Search(r)
  BY <1>2, CheckCatalogKeeps, EnsureReadyKeeps, ListCapabilitiesKeeps, RefreshKeeps, SearchKeeps
<1>3. CASE LoadAvailable(r) \/ NoMatch(r) \/ Classify(r) \/ Fallback(r) \/ ResolveAttachments(r)
  BY <1>3, LoadAvailableKeeps, NoMatchKeeps, ClassifyKeeps, FallbackKeeps, ResolveAttachmentsKeeps
<1>4. CASE PrepareUnconfirmed(r) \/ CreateProposal(r) \/ Confirm(r) \/ ControlledDispatch(r)
  BY <1>4, PrepareUnconfirmedKeeps, CreateProposalKeeps, ConfirmKeeps, ControlledDispatchKeeps
<1>5. CASE ConfirmDialogueAgent(r) \/ Approve(r) \/ Policy(r)
  BY <1>5, ConfirmDialogueAgentKeeps, ApproveKeeps, PolicyKeeps
<1>6. CASE ReadCurrentAgent(r) \/ Bridge(r) \/ RuntimeExecute(r)
  BY <1>6, ReadCurrentAgentKeeps, BridgeKeeps, RuntimeExecuteKeeps
<1>. QED  BY <1>1, <1>2, <1>3, <1>4, <1>5, <1>6 DEF Serve

LEMMA NextIInv ==
  ASSUME IInv, [Next]_vars
  PROVE  IInv'
<1>1. CASE UNCHANGED vars
  <2>1. UNCHANGED <<catalog, changes, checked, index, builder, clock, proposals, shown, req, ran, tasks>>
    BY <1>1 DEF vars
  <2>2. Types' /\ Checks' /\ Fits' /\ Backs' /\ Entries' /\ Tasked' /\ Records'
    BY <2>1 DEF IInv, Types, Checks, Raises, Fits, Backs, Entries, Tasked, Records
  <2>3. Once' /\ Builders' /\ Indexes'
    BY <2>1 DEF IInv, Once, Claims, Builders, Indexes, Scope
  <2>. QED  BY <2>2, <2>3 DEF IInv
<1>2. CASE \E r \in Requests : Arrive(r) \/ Serve(r)
  BY <1>2, ServeKeeps
<1>3. CASE Tick \/ ChangeCatalog \/ Restart
  BY <1>3, TickKeeps, ChangeCatalogKeeps, RestartKeeps
<1>. QED  BY <1>1, <1>2, <1>3 DEF Next

(* Requests, proposals, tasks, records and the index agree in every state  *)
(* the gateway reaches: the inductive invariant of its handlers.           *)
THEOREM GatewayInvariant == Spec => []IInv
<1>. QED  BY InitIInv, NextIInv, PTL DEF Spec

-----------------------------------------------------------------------------
(* What a proposal starts *)

LEMMA StartedOnce ==
  ASSUME IInv, NEW p \in Requests
  PROVE  Cardinality({x.by : x \in {y \in ran : y.pid = p}} \cup
                     {r \in Requests : tasks[r] # NoProposal /\ req[r].pid = p}) <= 1
<1> DEFINE S == {x.by : x \in {y \in ran : y.pid = p}} \cup
                {r \in Requests : tasks[r] # NoProposal /\ req[r].pid = p}
<1>1. p # NoProposal
  BY GatewayAssumption
<1>2. ASSUME NEW r \in S
      PROVE  r \in Requests /\ Claims(r) /\ req[r].pid = p
  <2>1. CASE \E x \in ran : x.pid = p /\ r = x.by
    BY <1>1, <2>1 DEF IInv, Records, Recorded, Claims
  <2>2. CASE r \in Requests /\ tasks[r] # NoProposal /\ req[r].pid = p
    BY <1>1, <2>2 DEF Claims
  <2>. QED  BY <2>1, <2>2
<1>3. \A r, q \in S : r = q
  BY <1>2 DEF IInv, Once
<1> HIDE DEF S
<1>4. CASE S = {}
  BY <1>4, FS_EmptySet DEF S
<1>5. CASE S # {}
  <2>1. PICK r : S = {r}
    BY <1>3, <1>5
  <2>2. Cardinality(S) = 1
    BY <2>1, FS_Singleton
  <2>. QED  BY <2>2 DEF S
<1>. QED  BY <1>4, <1>5

LEMMA IInvConfirmed ==
  ASSUME IInv
  PROVE  RunsAsConfirmed
<1>1. ASSUME NEW x \in ran, x.pid # NoProposal
      PROVE  /\ shown[x.pid].code = x.code /\ shown[x.pid].inputs = x.inputs
             /\ shown[x.pid].who = x.who
             /\ x.via = "handler" => shown[x.pid].key = x.key
  BY <1>1 DEF IInv, Records, Recorded
<1>2. ASSUME NEW r \in Requests, tasks[r] # NoProposal
      PROVE  tasks[r] = [code |-> shown[req[r].pid].code, inputs |-> shown[req[r].pid].inputs,
                         owner |-> shown[req[r].pid].who]
  BY <1>2 DEF IInv, Tasked
<1>3. ConfirmedIsWhatRuns
  BY <1>1, <1>2 DEF ConfirmedIsWhatRuns
<1>4. ProposalRunsOnce
  BY StartedOnce DEF ProposalRunsOnce
<1>. QED  BY <1>3, <1>4 DEF RunsAsConfirmed

(* What a confirmation starts is what its subject was shown, and a         *)
(* proposal starts one thing at most, however many requests confirm it and *)
(* however the catalogue changes (InMemoryPendingProposalStore.consume,    *)
(* ControlledDispatcher.dispatch, AgentTaskBridge.execute).                *)
THEOREM ConfirmationsRunAsShown == Spec => []RunsAsConfirmed
<1>. QED  BY GatewayInvariant, IInvConfirmed, PTL

-----------------------------------------------------------------------------
(* The catalogue *)

LEMMA IInvTypeOK ==
  ASSUME IInv
  PROVE  TypeOK
<1>1. \A c \in Codes : catalog[c] \in Offers[c] \cap Capability
  BY DEF IInv, Types
<1>2. \A s \in Scopes : /\ index[s] = NoIndex \/ index[s] \subseteq Codes
                        /\ builder[s] \in Requests \cup {NoRequest}
  BY DEF IInv, Types
<1>3. ASSUME NEW r \in Requests
      PROVE  /\ req[r].kind \in Kinds /\ req[r].phase \in Phases
             /\ req[r].phase \in Building <=> \E s \in Scopes : builder[s] = r
  <2>1. req[r].kind \in Kinds /\ req[r].phase \in Phases
    BY DEF IInv, Types, Request
  <2>2. ASSUME req[r].phase \in Building
        PROVE  \E s \in Scopes : builder[s] = r
    BY <2>2, ScopeIs DEF IInv, Builders, Building
  <2>3. ASSUME NEW s \in Scopes, builder[s] = r
        PROVE  req[r].phase \in Building
    BY <2>3, GatewayAssumption DEF IInv, Builders
  <2>. QED  BY <2>1, <2>2, <2>3
<1>4. ASSUME NEW r \in Requests
      PROVE  checked[r] \subseteq 0 .. changes
  BY DEF IInv, Types, Checks
<1>. QED  BY <1>1, <1>2, <1>3, <1>4 DEF TypeOK, Building

LEMMA IInvCatalog ==
  ASSUME IInv
  PROVE  CatalogHonoured
<1>1. IndexRespectsScope
  <2>1. \A s \in Scopes : index[s] # NoIndex => \A c \in index[s] : Open(c, s)
    BY DEF IInv, Indexes
  <2>2. \A r \in Requests : \A c \in req[r].cands : Open(c, Scope(r))
    BY DEF IInv, Fits, Fit, Scope
  <2>. QED  BY <2>1, <2>2 DEF IndexRespectsScope, Open
<1>2. AgentsNeedDialogue /\ AgentKeyIsApproved
  BY DEF IInv, Records, Recorded, AgentsNeedDialogue, AgentKeyIsApproved
<1>3. AcceptedIsTask
  BY DEF IInv, Tasked, AcceptedIsTask
<1>. QED  BY <1>1, <1>2, <1>3, IInvTypeOK DEF CatalogHonoured

(* However the catalogue changes, also between the two SELECTs of a read,  *)
(* the index and the candidates stay within the permission scope, an agent *)
(* runs through the dialogue unless the read its proposal was made from    *)
(* was torn, under the approved key unless the record changed after the    *)
(* policy was checked, and exactly the accepted calls have tasks           *)
(* (_refresh_locked, gateway.confirm, AgentCallDispatcher).                *)
THEOREM CatalogIsHonoured == Spec => []CatalogHonoured
<1>. QED  BY GatewayInvariant, IInvCatalog, PTL

-----------------------------------------------------------------------------
(* Consent *)

(* A run without approval happens in a handler that just read the record.  *)
LEMMA UnapprovedStep ==
  ASSUME IInv, [Next]_vars, NEW x \in ran' \ ran,
         x.pid = NoProposal, x.at = req[x.by].policyAt
  PROVE  catalog[x.code].policy = "never"
<1>1. PICK r \in Requests : ControlledDispatch(r) \/ RuntimeExecute(r)
  <2>1. CASE UNCHANGED ran
    BY <2>1
  <2>2. CASE Tick \/ ChangeCatalog \/ Restart
    BY <2>2 DEF Tick, ChangeCatalog, Restart
  <2>3. ASSUME NEW r \in Requests, Arrive(r) \/ Serve(r)
        PROVE  UNCHANGED ran \/ ControlledDispatch(r) \/ RuntimeExecute(r)
    <3>1. CASE Arrive(r)
      BY <3>1 DEF Arrive, RecognizeIntent, Respond, McpCall
    <3>2. CASE CheckCatalog(r) \/ EnsureReady(r) \/ ListCapabilities(r) \/ Refresh(r) \/ Search(r)
      BY <3>2 DEF CheckCatalog, EnsureReady, ListCapabilities, Refresh, Search
    <3>5. CASE LoadAvailable(r) \/ NoMatch(r) \/ Classify(r) \/ Fallback(r)
      BY <3>5 DEF LoadAvailable, NoMatch, Classify, Fallback
    <3>3. CASE ResolveAttachments(r) \/ PrepareUnconfirmed(r) \/ CreateProposal(r)
      BY <3>3 DEF ResolveAttachments, PrepareUnconfirmed, CreateProposal
    <3>4. CASE \/ Confirm(r) \/ ConfirmDialogueAgent(r) \/ Approve(r)
               \/ Policy(r) \/ ReadCurrentAgent(r) \/ Bridge(r)
      BY <3>4 DEF Confirm, ConfirmDialogueAgent, Approve, Policy, ReadCurrentAgent, Bridge
    <3>. QED  BY <2>3, <3>1, <3>2, <3>3, <3>4, <3>5 DEF Serve
  <2>. QED  BY <2>1, <2>2, <2>3 DEF Next, vars
<1>2. x.by = r /\ x.pid = req[r].pid /\ x.code = req[r].code /\ x.at = changes
  BY <1>1 DEF ControlledDispatch, RuntimeExecute, Ran
<1>3. Fit(req[r]) /\ Approved(req[r], shown, catalog, changes)
  BY DEF IInv, Fits, Backs
<1>4. CASE ControlledDispatch(r)
  <2>1. req[r].phase = "dispatch"
    BY <1>4 DEF ControlledDispatch, Reads
  <2>. QED  BY <1>2, <1>3, <2>1 DEF Fit
<1>5. CASE RuntimeExecute(r)
  <2>1. req[r].phase = "runtime"
    BY <1>5 DEF RuntimeExecute, Reads
  <2>. QED  BY <1>2, <1>3, <2>1 DEF Approved
<1>. QED  BY <1>1, <1>4, <1>5

(* A request leaves the phase consume for another than done only by taking *)
(* a proposal it holds.                                                    *)
LEMMA ConsentStep ==
  ASSUME IInv, [Next]_vars, NEW r \in Requests, req[r].phase = "consume",
         req'[r].phase \in {"dispatch", "approve"}
  PROVE  shown[req[r].pid].expires > clock /\ shown[req[r].pid].who = req[r].who
<1>0. req \in [Requests -> Request]
  BY DEF IInv, Types
<1>1. Confirm(r) \/ ConfirmDialogueAgent(r)
  <2>1. req'[r] # req[r]
    OBVIOUS
  <2>2. CASE Restart
    <3>1. req'[r] = Finished(r, "lost")
      BY <2>2 DEF Restart
    <3>. QED  BY <3>1 DEF Finished, Idle
  <2>3. CASE Tick \/ ChangeCatalog \/ UNCHANGED vars
    BY <2>1, <2>3 DEF Tick, ChangeCatalog, vars
  <2>4. ASSUME NEW q \in Requests, Arrive(q) \/ Serve(q), q # r
        PROVE  FALSE
    <3>1. CASE Arrive(q)
      BY <1>0, <2>1, <2>4, <3>1 DEF Arrive, RecognizeIntent, Respond, McpCall
    <3>2. CASE EnsureReady(q) \/ Refresh(q) \/ Search(q) \/ NoMatch(q)
      BY <1>0, <2>1, <2>4, <3>2 DEF EnsureReady, Refresh, Search, NoMatch, Goto, Answer
    <3>6. CASE CheckCatalog(q) \/ ListCapabilities(q) \/ LoadAvailable(q)
      BY <1>0, <2>1, <2>4, <3>6 DEF CheckCatalog, ListCapabilities, LoadAvailable, Fail, Answer
    <3>7. CASE Classify(q) \/ Fallback(q) \/ Approve(q)
      BY <1>0, <2>1, <2>4, <3>7 DEF Classify, Fallback, Approve, Goto, Answer
    <3>3. CASE ResolveAttachments(q) \/ PrepareUnconfirmed(q) \/ CreateProposal(q)
      BY <1>0, <2>1, <2>4, <3>3 DEF ResolveAttachments, PrepareUnconfirmed, CreateProposal, Fail, Goto, Answer
    <3>4. CASE Confirm(q) \/ ConfirmDialogueAgent(q) \/ ControlledDispatch(q)
      BY <1>0, <2>1, <2>4, <3>4 DEF Confirm, ConfirmDialogueAgent, ControlledDispatch, Adopt, Fail, Goto, Answer
    <3>5. CASE Policy(q) \/ ReadCurrentAgent(q) \/ Bridge(q) \/ RuntimeExecute(q)
      BY <1>0, <2>1, <2>4, <3>5 DEF Policy, ReadCurrentAgent, Bridge, RuntimeExecute, Fail, Answer
    <3>. QED  BY <2>4, <3>1, <3>2, <3>3, <3>4, <3>5, <3>6, <3>7 DEF Serve
  <2>5. CASE Arrive(r) \/ Serve(r)
    BY <2>5 DEF Arrive, RecognizeIntent, Respond, McpCall, Serve, CheckCatalog, Reading, Reads,
                EnsureReady, ListCapabilities, Refresh, Search, LoadAvailable, NoMatch, Classify,
                Fallback, ResolveAttachments, PrepareUnconfirmed, CreateProposal,
                ControlledDispatch, Approve, Policy, ReadCurrentAgent, Bridge, RuntimeExecute
  <2>. QED  BY <2>2, <2>3, <2>4, <2>5 DEF Next
<1>2. CASE Held(r)
  BY <1>2, HeldIs
<1>3. CASE ~Held(r)
  <2>1. req'[r] = Finished(r, "rejected")
    BY <1>0, <1>1, <1>3 DEF Confirm, ConfirmDialogueAgent, Answer
  <2>. QED  BY <2>1 DEF Finished, Idle
<1>. QED  BY <1>2, <1>3

(* Nothing runs without consent unless its policy says never, and consent  *)
(* is taken from the subject of a proposal before it expires               *)
(* (AgentCallPolicyValidator.validate, consume).                           *)
THEOREM ConsentIsHonoured == Spec => ConsentHonoured
<1>1. IInv /\ [Next]_vars =>
        [\A x \in ran' \ ran : x.pid = NoProposal /\ x.at = req[x.by].policyAt
            => catalog[x.code].policy = "never"]_vars
  BY UnapprovedStep
<1>2. IInv /\ [Next]_vars =>
        [\A r \in Requests :
            req[r].phase = "consume" /\ req'[r].phase \in {"dispatch", "approve"}
              => /\ shown[req[r].pid].expires > clock
                 /\ shown[req[r].pid].who = req[r].who]_vars
  BY ConsentStep
<1>. QED  BY <1>1, <1>2, GatewayInvariant, PTL DEF Spec, ConsentHonoured, UnapprovedNeedsNever, ConsentInTime
=============================================================================
