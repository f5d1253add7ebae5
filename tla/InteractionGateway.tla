------------------------- MODULE InteractionGateway -------------------------
(***************************************************************************)
(* The interaction gateway: what a request goes through from its text to a *)
(* proposal (candidate index, recognition by the model, attachments, the   *)
(* approval-free path, the proposal) and from a confirmation to the code   *)
(* that runs.  The capability catalogue is a table other sessions change,  *)
(* and a read of it is two SELECTs of a READ COMMITTED transaction, each a *)
(* step: CheckCatalog sees all records, then the action that needs one     *)
(* sees that record as it is by then.  Requests run in worker threads; the *)
(* candidate index and the proposals live in the memory of the process,    *)
(* the catalogue and the tasks in the database.                            *)
(***************************************************************************)
EXTENDS CapabilityCatalog, Naturals

CONSTANTS
  Requests, Subjects,
  Permits,        \* [Subjects -> SUBSET Permissions]
  Offers,         \* [Codes -> SUBSET Capability]: records that may be stored
  Seed,           \* the catalogue at the start
  Uses,           \* [Requests -> SUBSET Kinds]: the endpoint a client calls
  Drafts,         \* inputs the model may extract
  Provided,       \* inputs a client may send along
  GeneralChat, GeneralChatKey, GeneralChatInputs,
  McpTools,       \* codes the MCP server names
  TaskRoutes,     \* codes with an asynchronous task profile
  TopK,           \* candidates a search returns at most
  ProposalTTL,
  MaxClock,       \* bound on time
  MaxChanges,     \* bound on catalogue changes and restarts
  NoRequest, NoIndex, NoCode, NoProposal

VARIABLES
  catalog,        \* [Codes -> Capability]
  changes,        \* catalogue changes and restarts so far
  checked,        \* [Requests -> {} or the changes the first SELECT saw]
  index,          \* [scope -> SUBSET Codes], NoIndex while never built
  builder,        \* [scope -> request that holds the refresh lock]
  clock,
  proposals,      \* [Requests -> entry], keyed by the request that made it
  shown,          \* what each proposal said, for ever (history)
  req,            \* [Requests -> state of the request]
  ran,            \* handlers executed (history)
  tasks           \* [Requests -> task its call id stands for]

vars == <<catalog, changes, checked, index, builder, clock, proposals,
          shown, req, ran, tasks>>

Scopes == {Permits[s] : s \in Subjects}

Inputs == UNION {[fs -> Values] : fs \in SUBSET Fields}

(* A proposal as it is saved and shown, and the task of an accepted call.  *)
(* Torn (history): the catalogue changed within the read it was made from. *)
Proposal ==
  [code : Codes, type : CapabilityType, key : Keys, inputs : Inputs,
   who : Subjects, expires : Nat, torn : BOOLEAN]

Task == [code : Codes, inputs : Inputs, owner : Subjects]

(* The columns of the catalogue bound what is stored; the handlers of      *)
(* AgentRuntime are those of keys bound as agents; None is no index, no    *)
(* request, no code and no proposal.                                       *)
ASSUME GatewayAssumption ==
  /\ Permits \in [Subjects -> SUBSET Permissions]
  /\ Seed \in [Codes -> Capability]
  /\ \A c \in Codes : Seed[c] \in Offers[c] /\ Offers[c] \subseteq Capability
  /\ \A k \in AgentHandlers : k \in DOMAIN Binding /\ Binding[k] = "agent"
  /\ Drafts \cup Provided \subseteq Inputs
  /\ GeneralChat \in Codes /\ McpTools \subseteq Codes
  /\ ProposalTTL \in Nat /\ TopK \in Nat \ {0}
  /\ NoRequest \notin Requests
  /\ \A cs \in SUBSET Codes : cs # NoIndex
  /\ NoProposal \notin Requests
  /\ NoProposal \notin Proposal /\ NoProposal \notin Task

Kinds == {"intent", "confirm", "agent", "mcp"}

NoInputs == [f \in {} |-> "blank"]

Idle == [kind |-> "intent", phase |-> "idle", who |-> NoRequest,
         cands |-> {}, code |-> NoCode, key |-> NoCode, inputs |-> NoInputs,
         pid |-> NoProposal, policyAt |-> 0, status |-> "none"]

Init ==
  /\ catalog = Seed
  /\ changes = 0
  /\ checked = [r \in Requests |-> {}]
  /\ index = [s \in Scopes |-> NoIndex]
  /\ builder = [s \in Scopes |-> NoRequest]
  /\ clock = 0
  /\ proposals = [r \in Requests |-> NoProposal]
  /\ shown = [r \in Requests |-> NoProposal]
  /\ req = [r \in Requests |-> Idle]
  /\ ran = {}
  /\ tasks = [r \in Requests |-> NoProposal]

Scope(r) == Permits[req[r].who]

Raises == ~ValidateRegistered(catalog)

Offered(r, code) == GetAvailable(catalog, code, Scope(r))

Store == <<clock, proposals, shown>>

Table == <<catalog, changes>>

World == <<catalog, changes, checked>>

Finished(r, status) ==
  [Idle EXCEPT !.kind = req[r].kind, !.who = req[r].who, !.pid = req[r].pid,
               !.policyAt = req[r].policyAt, !.phase = "done",
               !.status = status]

Answer(r, status) == req' = [req EXCEPT ![r] = Finished(r, status)]

Goto(r, phase) == req' = [req EXCEPT ![r].phase = phase, ![r].cands = {}]

-----------------------------------------------------------------------------
(* Time, the catalogue table and the process. *)

(* Time is only read by the store, so it passes while a proposal waits.    *)
Tick ==
  /\ clock < MaxClock
  /\ \E p \in Requests : proposals[p] # NoProposal
  /\ clock' = clock + 1
  /\ UNCHANGED <<World, index, builder, proposals, shown, req, ran, tasks>>

ChangeCatalog ==
  /\ changes < MaxChanges
  /\ \E c \in Codes : \E cap \in Offers[c] \ {catalog[c]} :
       catalog' = [catalog EXCEPT ![c] = cap]
  /\ changes' = changes + 1
  /\ UNCHANGED <<checked, index, builder, Store, req, ran, tasks>>

(* A restart loses the index, the proposals and the running requests.      *)
Restart ==
  /\ changes < MaxChanges
  /\ changes' = changes + 1
  /\ checked' = [r \in Requests |-> {}]
  /\ index' = [s \in Scopes |-> NoIndex]
  /\ builder' = [s \in Scopes |-> NoRequest]
  /\ proposals' = [r \in Requests |-> NoProposal]
  /\ req' = [r \in Requests |->
               IF req[r].phase \in {"idle", "done"} THEN req[r]
               ELSE Finished(r, "lost")]
  /\ UNCHANGED <<catalog, clock, shown, ran, tasks>>

-----------------------------------------------------------------------------
(* The two SELECTs of a read. *)

(* What a failing read becomes, at each place that reads.                  *)
Reading == {"list", "load", "llm", "fallback", "resolve", "direct", "propose",
            "dispatch", "approve", "policy", "current", "runtime"}

Unavailable ==
  [phase \in Reading |->
     CASE phase \in {"list", "load", "llm", "resolve"} -> "needs_clarification"
       [] phase = "fallback" -> "unrecognized"
       [] phase = "dispatch" -> "failed"
       [] phase \in {"policy", "current"} -> "unavailable"
       [] OTHER -> "rejected"]

Fail(r) == Answer(r, Unavailable[req[r].phase])

(* validate_registered.  A list that fails leaves the refresh lock.        *)
CheckCatalog(r) ==
  /\ req[r].phase \in Reading /\ checked[r] = {}
  /\ IF Raises
     THEN /\ Fail(r)
          /\ builder' = [s \in Scopes |->
               IF builder[s] = r THEN NoRequest ELSE builder[s]]
          /\ UNCHANGED checked
     ELSE /\ checked' = [checked EXCEPT ![r] = {changes}]
          /\ UNCHANGED <<req, builder>>
  /\ UNCHANGED <<Table, index, Store, ran, tasks>>

(* The second SELECT follows a first one that did not raise.               *)
Reads(r, phase) ==
  /\ req[r].phase = phase /\ checked[r] # {}
  /\ checked' = [checked EXCEPT ![r] = {}]

Torn(r) == changes \notin checked[r]

Broken(code) == Malformed(catalog, code)

-----------------------------------------------------------------------------
(* Recognition. *)

RecognizeIntent(r) ==
  /\ req[r].phase = "idle" /\ "intent" \in Uses[r]
  /\ \E s \in Subjects : \E provided \in Provided :
       req' = [req EXCEPT ![r].phase = "ensure", ![r].who = s,
                          ![r].inputs = provided]
  /\ UNCHANGED <<World, index, builder, Store, ran, tasks>>

(* ensure_ready: one thread builds the index of a permission scope, the    *)
(* others wait for its lock; an index that is there is never built again.  *)
EnsureReady(r) ==
  /\ req[r].phase = "ensure"
  /\ builder[Scope(r)] = NoRequest
  /\ IF index[Scope(r)] # NoIndex
     THEN Goto(r, "search") /\ UNCHANGED builder
     ELSE /\ builder' = [builder EXCEPT ![Scope(r)] = r]
          /\ Goto(r, "list")
  /\ UNCHANGED <<World, index, Store, ran, tasks>>

(* _refresh_locked: the capabilities are listed and their texts embedded,  *)
(* then the index is replaced; a failing provider leaves the old one.      *)
ListCapabilities(r) ==
  /\ Reads(r, "list")
  /\ IF \E c \in Codes : Broken(c)
     THEN Fail(r) /\ builder' = [builder EXCEPT ![Scope(r)] = NoRequest]
     ELSE /\ req' = [req EXCEPT ![r].phase = "build",
                       ![r].cands = ListAvailable(catalog, Scope(r))]
          /\ UNCHANGED builder
  /\ UNCHANGED <<Table, index, Store, ran, tasks>>

Refresh(r) ==
  /\ req[r].phase = "build"
  /\ builder' = [builder EXCEPT ![Scope(r)] = NoRequest]
  /\ \/ /\ index' = [index EXCEPT ![Scope(r)] = req[r].cands]
        /\ Goto(r, "search")
     \/ Answer(r, "needs_clarification") /\ UNCHANGED index
  /\ UNCHANGED <<World, Store, ran, tasks>>

(* InMemoryCapabilityCandidateIndex.search: the entries above the          *)
(* threshold, at most top_k; similarity may select any of them.            *)
Near(r) == {near \in SUBSET index[Scope(r)] : Cardinality(near) <= TopK}

(* A query that cannot be embedded asks the user back, an empty search     *)
(* leaves the text unrecognized.                                           *)
Search(r) ==
  /\ req[r].phase = "search"
  /\ \/ Answer(r, "needs_clarification")
     \/ \E near \in Near(r) :
          IF near = {} THEN Goto(r, "fallback")
          ELSE req' = [req EXCEPT ![r].cands = near, ![r].phase = "load"]
  /\ UNCHANGED <<World, index, builder, Store, ran, tasks>>

(* _load_available_candidates: one read stands for those of all candidates *)
(* (each is checked alone, and which one the model picks is open anyhow);  *)
(* candidates that are all gone ask the user back.                         *)
LoadAvailable(r) ==
  LET current == {c \in req[r].cands : Offered(r, c)} IN
  /\ Reads(r, "load")
  /\ IF (\E c \in req[r].cands : Broken(c)) \/ current = {} THEN Fail(r)
     ELSE req' = [req EXCEPT ![r].cands = current, ![r].phase = "llm"]
  /\ UNCHANGED <<Table, index, builder, Store, ran, tasks>>

(* The output schema of the model call only admits codes of candidates.    *)
BoundCodes(r) == req[r].cands

(* extracted_inputs: those of the client override those of the model.      *)
Merged(provided, extracted) ==
  [f \in DOMAIN provided \cup DOMAIN extracted |->
     IF f \in DOMAIN provided THEN provided[f] ELSE extracted[f]]

(* The model answers without a usable code.                                *)
NoMatch(r) ==
  /\ req[r].phase = "llm" /\ checked[r] = {}
  /\ \/ Goto(r, "fallback")                  \* unrecognized or invalid
     \/ Answer(r, "needs_clarification")     \* no code, or asks back
  /\ UNCHANGED <<World, index, builder, Store, ran, tasks>>

(* It names a candidate (_to_assessment): the inputs are merged and the    *)
(* record is read again.                                                   *)
Classify(r) ==
  /\ Reads(r, "llm")
  /\ \E c \in BoundCodes(r) : \E extracted \in Drafts :
       LET inputs == Merged(req[r].inputs, extracted) IN
       IF Broken(c) \/ ~Offered(r, c) \/ ~ValidInputs(catalog[c], inputs)
       THEN Answer(r, "needs_clarification")
       ELSE req' = [req EXCEPT ![r].phase = "resolve", ![r].code = c,
                               ![r].inputs = inputs, ![r].cands = {}]
  /\ UNCHANGED <<Table, index, builder, Store, ran, tasks>>

(* _prepare_general_chat_fallback: unrecognized text goes to general chat, *)
(* and only if the catalogue lets that run without confirmation.           *)
Fallback(r) ==
  /\ Reads(r, "fallback")
  /\ IF /\ ~Broken(GeneralChat)
        /\ Offered(r, GeneralChat)
        /\ catalog[GeneralChat].policy = "never"
        /\ catalog[GeneralChat].key = GeneralChatKey
        /\ ValidInputs(catalog[GeneralChat], GeneralChatInputs)
     THEN Answer(r, "authorized")
     ELSE Answer(r, "unrecognized")
  /\ UNCHANGED <<Table, index, builder, Store, ran, tasks>>

(* _resolve_attachments: the storage may have lost an attachment, or it    *)
(* breaks a limit of the declaration.                                      *)
ResolveAttachments(r) ==
  LET cap == catalog[req[r].code] IN
  /\ Reads(r, "resolve")
  /\ IF Broken(req[r].code) THEN Fail(r)
     ELSE IF ~Offered(r, req[r].code) THEN Answer(r, "rejected")
     ELSE IF cap.document = {} THEN Goto(r, "direct")
     ELSE \/ /\ IdsAreOpaque(cap, req[r].inputs)
             /\ req' = [req EXCEPT ![r].phase = "direct",
                          ![r].inputs = Resolved(cap, req[r].inputs)]
          \/ Answer(r, "needs_clarification")
  /\ UNCHANGED <<Table, index, builder, Store, ran, tasks>>

(* _prepare_unconfirmed_execution.                                         *)
PrepareUnconfirmed(r) ==
  LET cap == catalog[req[r].code] IN
  /\ Reads(r, "direct")
  /\ IF Broken(req[r].code) \/ ~Offered(r, req[r].code) THEN Answer(r, "rejected")
     ELSE IF cap.policy # "never" THEN Goto(r, "propose")
     ELSE IF ValidInputs(cap, req[r].inputs) THEN Answer(r, "authorized")
     ELSE Answer(r, "rejected")
  /\ UNCHANGED <<Table, index, builder, Store, ran, tasks>>

(* Mutation: nothing expires.                                              *)
LiveForEver(now) == proposals

(* _purge_expired.                                                         *)
Live(now) ==
  [p \in Requests |-> IF /\ proposals[p] # NoProposal
                         /\ proposals[p].expires > now
                      THEN proposals[p] ELSE NoProposal]

(* consume: expired entries are purged and the entry is deleted.           *)
Consumed(p) == [Live(clock) EXCEPT ![p] = NoProposal]

(* create_proposal reads the catalogue once more; save keeps the proposal  *)
(* for the subject of the request.                                         *)
CreateProposal(r) ==
  LET cap == catalog[req[r].code]
      proposal == [code |-> req[r].code, type |-> cap.type, key |-> cap.key,
                   inputs |-> req[r].inputs, who |-> req[r].who,
                   expires |-> clock + ProposalTTL, torn |-> Torn(r)] IN
  /\ Reads(r, "propose")
  /\ IF \/ Broken(req[r].code) \/ ~Offered(r, req[r].code)
        \/ cap.policy = "never" \/ ~ValidInputs(cap, req[r].inputs)
     THEN Answer(r, "rejected") /\ UNCHANGED <<proposals, shown>>
     ELSE /\ proposals' = [Live(clock) EXCEPT ![r] = proposal]
          /\ shown' = [shown EXCEPT ![r] = proposal]
          /\ Answer(r, "pending")
  /\ UNCHANGED <<Table, index, builder, clock, ran, tasks>>

-----------------------------------------------------------------------------
(* Confirmation. *)

(* A client answers a proposal it was shown, its own or another's, at any  *)
(* time and as often as it likes; an agent proposal is answered through    *)
(* the dialogue or, wrongly, through the plain confirmation.               *)
Respond(r) ==
  /\ req[r].phase = "idle"
  /\ \E s \in Subjects, p \in Requests, k \in Uses[r] \cap {"confirm", "agent"} :
       /\ shown[p] # NoProposal
       /\ req' = [req EXCEPT ![r].phase = "consume", ![r].kind = k,
                    ![r].who = s, ![r].pid = p]
  /\ UNCHANGED <<World, index, builder, Store, ran, tasks>>

(* Mutation: whoever names the proposal may answer it.                     *)
HeldByAnyone(r) == Live(clock)[req[r].pid] # NoProposal

Held(r) == LET p == Live(clock)[req[r].pid] IN
           p # NoProposal /\ p.who = req[r].who

Adopt(r, phase) ==
  req' = [req EXCEPT ![r].phase = phase,
            ![r].code = proposals[req[r].pid].code,
            ![r].key = proposals[req[r].pid].key,
            ![r].inputs = proposals[req[r].pid].inputs]

(* confirm: the proposal is consumed whatever happens next; an agent       *)
(* proposal is refused, an action of the client confirms or cancels.       *)
Confirm(r) ==
  /\ req[r].phase = "consume" /\ req[r].kind = "confirm"
  /\ IF ~Held(r) THEN Answer(r, "rejected") /\ proposals' = Live(clock)
     ELSE /\ proposals' = Consumed(req[r].pid)
          /\ IF proposals[req[r].pid].type = "agent"
             THEN Answer(r, "rejected")
             ELSE Adopt(r, "dispatch") \/ Answer(r, "cancelled")
  /\ UNCHANGED <<World, index, builder, clock, shown, ran, tasks>>

Ran(r, via, key) ==
  ran' = ran \cup {[by |-> r, pid |-> req[r].pid, via |-> via, key |-> key,
                    code |-> req[r].code, inputs |-> req[r].inputs,
                    who |-> req[r].who, at |-> changes]}

(* A handler builds its command from the inputs (a refused one is a        *)
(* ValueError), runs, and may raise.                                       *)
HandlerStatuses == {"completed", "rejected", "failed"}

(* ControlledDispatcher.dispatch: the catalogue must still offer the very  *)
(* target that was confirmed; the type is that of the record read now; the *)
(* handler may fail, or refuse its inputs.                                 *)
ControlledDispatch(r) ==
  LET cap == catalog[req[r].code] IN
  /\ Reads(r, "dispatch")
  /\ IF Broken(req[r].code) THEN Fail(r) /\ UNCHANGED ran
     ELSE IF \/ ~Offered(r, req[r].code)
             \/ cap.key # req[r].key
             \/ ~ValidInputs(cap, req[r].inputs)
     THEN Answer(r, "rejected") /\ UNCHANGED ran
     ELSE IF cap.type = "agent" THEN Goto(r, "runtime") /\ UNCHANGED ran
     ELSE IF cap.key \notin Handlers THEN Answer(r, "failed") /\ UNCHANGED ran
     ELSE /\ Ran(r, "handler", cap.key)
          /\ \E status \in HandlerStatuses : Answer(r, status)
  /\ UNCHANGED <<Table, index, builder, Store, tasks>>

-----------------------------------------------------------------------------
(* Agent calls. *)

(* confirm_dialogue_agent: the proposal is consumed; cancelling needs no   *)
(* catalogue, an approval does.                                            *)
ConfirmDialogueAgent(r) ==
  /\ req[r].phase = "consume" /\ req[r].kind = "agent"
  /\ IF ~Held(r) THEN Answer(r, "rejected") /\ proposals' = Live(clock)
     ELSE /\ proposals' = Consumed(req[r].pid)
          /\ IF proposals[req[r].pid].type # "agent"
             THEN Answer(r, "rejected")
             ELSE Adopt(r, "approve") \/ Answer(r, "cancelled")
  /\ UNCHANGED <<World, index, builder, clock, shown, ran, tasks>>

(* Type, key and inputs are compared before the approval is handed on.     *)
Approve(r) ==
  LET cap == catalog[req[r].code] IN
  /\ Reads(r, "approve")
  /\ IF \/ Broken(req[r].code) \/ ~Offered(r, req[r].code)
        \/ cap.type # "agent" \/ cap.key # req[r].key
        \/ ~ValidInputs(cap, req[r].inputs)
     THEN Answer(r, "rejected")
     ELSE Goto(r, "policy")
  /\ UNCHANGED <<Table, index, builder, Store, ran, tasks>>

(* _execute_mcp_call: a tool call of an MCP client; it has no approval and *)
(* its document is read before the call is made.                           *)
McpCall(r) ==
  /\ req[r].phase = "idle" /\ "mcp" \in Uses[r]
  /\ \E s \in Subjects, c \in McpTools : \E draft \in Drafts :
       req' = [req EXCEPT ![r].phase = "policy", ![r].kind = "mcp",
                 ![r].who = s, ![r].code = c,
                 ![r].inputs = [f \in DOMAIN draft |->
                                  IF draft[f] = "id" THEN "resolved"
                                  ELSE draft[f]]]
  /\ UNCHANGED <<World, index, builder, Store, ran, tasks>>

(* Mutation: the key of the approval is not compared.                      *)
ApprovalOfInputs(r, cap) == TRUE

(* _approval_matches; code and inputs of the call are the approval's own.  *)
ApprovalMatches(r, cap) == req[r].kind = "mcp" \/ cap.key = req[r].key

(* AgentCallPolicyValidator.validate.                                      *)
Policy(r) ==
  LET cap == catalog[req[r].code] IN
  /\ Reads(r, "policy")
  /\ IF Broken(req[r].code) THEN Fail(r)
     ELSE IF \/ ~Offered(r, req[r].code) \/ cap.type # "agent"
             \/ ~ValidInputs(cap, req[r].inputs) \/ ~ApprovalMatches(r, cap)
     THEN Answer(r, "rejected")
     ELSE IF cap.policy # "never" /\ req[r].kind = "mcp"
     THEN Answer(r, "confirmation_required")
     ELSE req' = [req EXCEPT ![r].phase = "current",
                             ![r].policyAt = changes]
  /\ UNCHANGED <<Table, index, builder, Store, ran, tasks>>

(* AgentTaskExecutionStrategyRouter: a code with a task profile goes to    *)
(* the bridge; the dispatcher of MCP calls is built without profiles.      *)
Strategy(r) ==
  IF req[r].kind = "agent" /\ req[r].code \in TaskRoutes
  THEN "bridge" ELSE "runtime"

(* _read_current_agent: the record is read again and its key goes to the   *)
(* strategy.                                                               *)
ReadCurrentAgent(r) ==
  LET cap == catalog[req[r].code] IN
  /\ Reads(r, "current")
  /\ IF Broken(req[r].code) THEN Fail(r)
     ELSE IF ~Offered(r, req[r].code) \/ cap.type # "agent"
     THEN Answer(r, "rejected")
     ELSE req' = [req EXCEPT ![r].key = cap.key,
                             ![r].phase = Strategy(r)]
  /\ UNCHANGED <<Table, index, builder, Store, ran, tasks>>

(* TenderTaskInputSnapshotProvider: the document the call carries, read.   *)
SnapshotOf(r) == {f \in DOMAIN req[r].inputs : req[r].inputs[f] = "resolved"}

(* TrustedTaskSubmissionService.submit: owner and profile are the          *)
(* server's; the idempotency key names the call, new in every invocation.  *)
Submit(r) ==
  tasks' = [tasks EXCEPT ![r] = [code |-> req[r].code,
              inputs |-> req[r].inputs, owner |-> req[r].who]]

(* AgentTaskBridge.execute: the snapshot demands a document that was read, *)
(* and a submission may fail.                                              *)
Bridge(r) ==
  /\ req[r].phase = "bridge"
  /\ \/ SnapshotOf(r) # {} /\ Submit(r) /\ Answer(r, "accepted")
     \/ Answer(r, "failed") /\ UNCHANGED tasks
  /\ UNCHANGED <<World, index, builder, Store, ran>>

(* The adapters of the tender agents build their command from a document   *)
(* that was read, never from the bare id of an attachment.                 *)
CommandBuilt(inputs) == \A f \in DOMAIN inputs : inputs[f] # "id"

(* What the tender agent raises becomes a failed outcome, an output that   *)
(* cannot be stored or serialised a failed call.                           *)
AgentStatuses == {"completed", "failed"}

(* AgentRuntime.execute: the record is read once more and its key compared *)
(* with the one the strategy was given; then the handler runs.             *)
RuntimeExecute(r) ==
  LET cap == catalog[req[r].code] IN
  /\ Reads(r, "runtime")
  /\ IF Broken(req[r].code) THEN Fail(r) /\ UNCHANGED ran
     ELSE IF \/ ~Offered(r, req[r].code) \/ cap.type # "agent"
             \/ cap.key # req[r].key
     THEN Answer(r, "failed") /\ UNCHANGED ran
     ELSE IF ~ValidInputs(cap, req[r].inputs)
     THEN Answer(r, "rejected") /\ UNCHANGED ran
     ELSE IF cap.key \notin AgentHandlers
     THEN Answer(r, "failed") /\ UNCHANGED ran
     ELSE IF ~CommandBuilt(req[r].inputs)
     THEN Answer(r, "rejected") /\ UNCHANGED ran
     ELSE /\ Ran(r, "agent", cap.key)
          /\ \E status \in AgentStatuses : Answer(r, status)
  /\ UNCHANGED <<Table, index, builder, Store, tasks>>

-----------------------------------------------------------------------------
Serve(r) ==
  \/ CheckCatalog(r)
  \/ EnsureReady(r) \/ ListCapabilities(r) \/ Refresh(r) \/ Search(r)
  \/ LoadAvailable(r) \/ NoMatch(r) \/ Classify(r) \/ Fallback(r)
  \/ ResolveAttachments(r) \/ PrepareUnconfirmed(r) \/ CreateProposal(r)
  \/ Confirm(r) \/ ControlledDispatch(r) \/ ConfirmDialogueAgent(r)
  \/ Approve(r) \/ Policy(r) \/ ReadCurrentAgent(r) \/ Bridge(r)
  \/ RuntimeExecute(r)

Arrive(r) == RecognizeIntent(r) \/ Respond(r) \/ McpCall(r)

Next ==
  \/ \E r \in Requests : Arrive(r) \/ Serve(r)
  \/ Tick \/ ChangeCatalog \/ Restart

Spec == Init /\ [][Next]_vars

-----------------------------------------------------------------------------
Phases == {"idle", "ensure", "list", "build", "search", "load", "llm",
           "fallback", "resolve", "direct", "propose", "consume", "dispatch",
           "approve", "policy", "current", "bridge", "runtime", "done"}

(* Every variable keeps its type; a refresh lock is held by exactly the    *)
(* request that builds the index, so nobody waits behind a build that      *)
(* failed (ensure_ready).                                                  *)
TypeOK ==
  /\ \A c \in Codes : catalog[c] \in Offers[c] \cap Capability
  /\ \A s \in Scopes : index[s] = NoIndex \/ index[s] \subseteq Codes
  /\ \A s \in Scopes : builder[s] \in Requests \cup {NoRequest}
  /\ \A r \in Requests :
       /\ req[r].kind \in Kinds /\ req[r].phase \in Phases
       /\ req[r].phase \in {"list", "build"} <=>
            \E s \in Scopes : builder[s] = r
       /\ checked[r] \subseteq 0 .. changes

(* The index of a permission scope, and the candidates a model is shown,   *)
(* name only capabilities some record opens to that scope, although the    *)
(* index outlives the catalogue it was built from (_refresh_locked,        *)
(* _load_available_candidates).                                            *)
IndexRespectsScope ==
  LET Open(c, s) == \E cap \in Offers[c] : IsAllowed(cap, s) IN
  /\ \A s \in Scopes : index[s] # NoIndex => \A c \in index[s] : Open(c, s)
  /\ \A r \in Requests : \A c \in req[r].cands : Open(c, Scope(r))

(* What a confirmation starts, at once or as a task, is what its subject   *)
(* was shown: capability, inputs and, for a controlled handler, the key,   *)
(* however the catalogue changed since (ControlledDispatcher.dispatch).    *)
ConfirmedIsWhatRuns ==
  /\ \A x \in ran : x.pid # NoProposal =>
       /\ shown[x.pid].code = x.code /\ shown[x.pid].inputs = x.inputs
       /\ shown[x.pid].who = x.who
       /\ x.via = "handler" => shown[x.pid].key = x.key
  /\ \A r \in Requests : tasks[r] # NoProposal =>
       LET p == shown[req[r].pid] IN
       tasks[r] = [code |-> p.code, inputs |-> p.inputs, owner |-> p.who]

(* A proposal starts at most one execution or task, however often and from *)
(* however many requests it is confirmed (InMemoryPendingProposalStore).   *)
ProposalRunsOnce ==
  LET Started(p) == {x.by : x \in {y \in ran : y.pid = p}} \cup
                    {r \in Requests : tasks[r] # NoProposal /\ req[r].pid = p}
  IN \A p \in Requests : Cardinality(Started(p)) <= 1

(* The plain confirmation runs no agent, not even when the catalogue turns *)
(* the confirmed capability into one, unless the catalogue changed between *)
(* the two SELECTs the proposal was made from (gateway.confirm).           *)
AgentsNeedDialogue ==
  \A x \in ran : x.via = "agent" /\ req[x.by].kind = "confirm" =>
    shown[x.pid].torn

(* An agent runs under the key its user approved, unless the catalogue     *)
(* changed after the policy was checked (AgentCallDispatcher.dispatch reads *)
(* the record again and does not compare).                                 *)
AgentKeyIsApproved ==
  \A x \in ran : x.via = "agent" /\ req[x.by].kind = "agent" =>
    x.key = shown[x.pid].key \/ x.at > req[x.by].policyAt

(* A call accepted for later execution has its task, with the owner and    *)
(* the document of the approval, and no other call has one                 *)
(* (AgentTaskBridge.execute).                                              *)
AcceptedIsTask ==
  \A r \in Requests :
    /\ req[r].status = "accepted" => tasks[r] # NoProposal
    /\ tasks[r] # NoProposal =>
         \E f \in DOMAIN tasks[r].inputs : tasks[r].inputs[f] = "resolved"

(* A call without approval runs an agent only while the catalogue says     *)
(* never, unless it changed after the policy was checked                   *)
(* (AgentCallPolicyValidator.validate).                                    *)
UnapprovedNeedsNever ==
  [][\A x \in ran' \ ran :
       x.pid = NoProposal /\ x.at = req[x.by].policyAt
         => catalog[x.code].policy = "never"]_vars

(* A proposal is acted on only by its subject and before it expires,       *)
(* however late the answer comes (consume).                                *)
ConsentInTime ==
  [][\A r \in Requests :
       req[r].phase = "consume" /\ req'[r].phase \in {"dispatch", "approve"}
         => /\ shown[req[r].pid].expires > clock
            /\ shown[req[r].pid].who = req[r].who]_vars

\* What runs for a proposal is what its owner was shown, at most once.
RunsAsConfirmed ==
  /\ ConfirmedIsWhatRuns
  /\ ProposalRunsOnce

\* However the catalogue changes between its reads, candidates, types, agent
\* keys and accepted tasks stay within what was approved.
CatalogHonoured ==
  /\ TypeOK
  /\ IndexRespectsScope
  /\ AgentsNeedDialogue
  /\ AgentKeyIsApproved
  /\ AcceptedIsTask

\* Nothing runs without consent unless its policy says never, and consent is
\* taken in time only.
ConsentHonoured ==
  /\ UnapprovedNeedsNever
  /\ ConsentInTime
=============================================================================
