------------------------------ MODULE AgentTurns ------------------------------
(***************************************************************************)
(* An agent call in a conversation.  A chat request that is recognised as  *)
(* an agent call is prepared in a thread: the proposal is stored in        *)
(* memory, the user message and an agent_call event in the database, the   *)
(* pending invocation in memory.  The client then confirms or cancels,     *)
(* perhaps several times.  A confirmation waits for the turn lock,         *)
(* consumes both one-shot entries and runs the agent; a supervisor keeps   *)
(* the lock until the result and the answer are stored, whatever becomes   *)
(* of the request.                                                         *)
(*                                                                         *)
(* A worker is a call that is being prepared or a confirmation request.    *)
(* The agent, the catalog, the model and the database's failures are       *)
(* nondeterministic.                                                       *)
(***************************************************************************)
EXTENDS ConversationFacts

CONSTANTS
  Calls,    \* agent calls; also their proposals
  Requests, \* confirmation requests
  NoCall, NoWorker

Workers == Calls \cup Requests

ASSUME AgentAssumption ==
  /\ Requests \subseteq Turns
  /\ Calls \cap Turns = {}
  /\ NoCall \notin Calls
  /\ NoWorker \notin Workers

VARIABLES
  at,       \* where a worker is
  subject,  \* the call a worker is about
  room,     \* the conversation of a call
  proposal, \* InMemoryPendingProposalStore
  pending,  \* InMemoryPendingAgentInvocationStore
  txn,      \* the worker in pending.transaction()
  approved, \* the gateway answered this worker with a live proposal
  answer,   \* what the client is told
  runs      \* executions of the agent

agentVars == <<at, subject, room, proposal, pending, txn, approved, answer,
               runs>>

EntryState == {"none", "live", "consumed", "expired"}

PrepareStep == {"recognized", "messaged", "recorded", "ready", "offered",
                "failed"}

CancelStep == {"cancelling", "cancel_closing", "cancel_recording"}

ConfirmStep == {"fallback", "waiting", "confirming", "confirm_closing",
                "dispatching", "recording", "recording_error", "continuing",
                "answering", "releasing"}

WorkerStep == {"idle", "done"} \cup PrepareStep \cup CancelStep \cup ConfirmStep

Answer == {"none", "abandoned", "rejected", "cancelled", "accepted", "failed",
           "completed"}

AgentInit ==
  /\ at = [w \in Workers |-> "idle"]
  /\ subject = [w \in Workers |-> NoCall]
  /\ room = [k \in Calls |-> NoConversation]
  /\ proposal = [k \in Calls |-> "none"]
  /\ pending = [k \in Calls |-> "none"]
  /\ txn = NoWorker
  /\ approved = [w \in Workers |-> FALSE]
  /\ answer = [w \in Workers |-> "none"]
  /\ runs = [k \in Calls |-> 0]

MoveTo(w, step) == at' = [at EXCEPT ![w] = step]

\* The client gets an answer unless it has gone.
Tell(w, word) ==
  answer' = [answer EXCEPT ![w] = IF @ = "abandoned" THEN @ ELSE word]

-----------------------------------------------------------------------------
(* Preparation: prepare, _prepare_agent_confirmation, in a worker thread *)

\* gateway.recognize stores the proposal.
Recognize(k, c) ==
  /\ at[k] = "idle"
  /\ subject' = [subject EXCEPT ![k] = k]
  /\ room' = [room EXCEPT ![k] = c]
  /\ proposal' = [proposal EXCEPT ![k] = "live"]
  /\ MoveTo(k, "recognized")
  /\ UNCHANGED <<pending, txn, approved, answer, runs, factVars>>

\* prepare_confirmation: the user message, then the agent_call event; no lease.
PrepareFact(k, step, kind, next) ==
  /\ at[k] = step
  /\ \/ AddFact(room[k], kind, k) /\ MoveTo(k, next)
     \/ UNCHANGED log /\ MoveTo(k, "failed")
  /\ UNCHANGED <<subject, room, proposal, pending, txn, approved, answer, runs,
                 waiting, holding>>

PrepareMessage(k) == PrepareFact(k, "recognized", "user", "messaged")

PrepareCallEvent(k) == PrepareFact(k, "messaged", "agent_call", "recorded")

PreparePending(k) ==
  /\ at[k] = "recorded"
  /\ txn = NoWorker
  /\ pending' = [pending EXCEPT ![k] = "live"]
  /\ MoveTo(k, "ready")
  /\ UNCHANGED <<subject, room, proposal, txn, approved, answer, runs, factVars>>

\* ThreadedInteractionChatPreparation: a request that was cancelled meanwhile
\* withdraws what it prepared.
PrepareReturn(k) ==
  /\ at[k] = "ready"
  /\ MoveTo(k, IF answer[k] = "abandoned" THEN "cancelling" ELSE "offered")
  /\ UNCHANGED <<subject, room, proposal, pending, txn, approved, answer, runs,
                 factVars>>

\* The client goes away while the thread prepares.
PrepareAbandon(k) ==
  /\ at[k] \in {"recognized", "messaged", "recorded", "ready"}
  /\ answer[k] = "none"
  /\ answer' = [answer EXCEPT ![k] = "abandoned"]
  /\ UNCHANGED <<at, subject, room, proposal, pending, txn, approved, runs,
                 factVars>>

-----------------------------------------------------------------------------
(* Expiry; a proposal is stored before its pending entry, with the same TTL *)

ExpireProposal(k) ==
  /\ proposal[k] = "live"
  /\ proposal' = [proposal EXCEPT ![k] = "expired"]
  /\ UNCHANGED <<at, subject, room, pending, txn, approved, answer, runs,
                 factVars>>

ExpirePending(k) ==
  /\ pending[k] = "live"
  /\ proposal[k] # "live"
  /\ pending' = [pending EXCEPT ![k] = "expired"]
  /\ UNCHANGED <<at, subject, room, proposal, txn, approved, answer, runs,
                 factVars>>

-----------------------------------------------------------------------------
(* A confirmation request *)

\* confirm_agent reads the pending entry and chooses a path.
ConfirmAgent(r, k) ==
  /\ at[r] = "idle"
  /\ at[k] = "offered"
  /\ txn = NoWorker
  /\ subject' = [subject EXCEPT ![r] = k]
  /\ \/ /\ pending[k] # "live"
        /\ MoveTo(r, "fallback")
        /\ UNCHANGED <<waiting, holding>>
     \/ /\ pending[k] = "live"
        /\ MoveTo(r, "cancelling")
        /\ UNCHANGED <<waiting, holding>>
     \/ /\ pending[k] = "live"
        /\ MoveTo(r, "waiting")
        /\ Lock!Request(r, room[k])
  /\ UNCHANGED <<room, proposal, pending, txn, approved, answer, runs, log>>

\* An entry is handed out once.
Consume(store, k) ==
  [store EXCEPT ![k] = IF @ = "live" THEN "consumed" ELSE @]

\* IntentInteractionGateway.confirm: an agent proposal is consumed, not run.
ConfirmFallback(r) ==
  /\ at[r] = "fallback"
  /\ proposal' = Consume(proposal, subject[r])
  /\ Tell(r, "rejected")
  /\ MoveTo(r, "done")
  /\ UNCHANGED <<subject, room, pending, txn, approved, runs, factVars>>

\* The client goes away.  Only a request that waits for the lock notices.
ConfirmAbandon(r) ==
  /\ answer[r] = "none"
  /\ at[r] \in ConfirmStep \cup CancelStep
  /\ answer' = [answer EXCEPT ![r] = "abandoned"]
  /\ IF at[r] = "waiting" THEN Lock!Withdraw(r) /\ MoveTo(r, "done")
                          ELSE UNCHANGED <<at, waiting, holding>>
  /\ UNCHANGED <<subject, room, proposal, pending, txn, approved, runs, log>>

\* Mutation: nobody is kept out of the transaction.
TransactionOverlaps(w) == txn' = w

\* pending.transaction()
Transaction(w) ==
  /\ txn = NoWorker
  /\ txn' = w

EndTransaction(w) == txn' = IF txn = w THEN NoWorker ELSE txn

\* _cancel_agent_confirmation: the entry is read and the proposal consumed.
CancelBegin(w) ==
  LET k == subject[w]
  IN  /\ at[w] = "cancelling"
      /\ IF pending[k] = "live"
         THEN /\ Transaction(w)
              /\ approved' = [approved EXCEPT ![w] = proposal[k] = "live"]
              /\ proposal' = Consume(proposal, k)
              /\ MoveTo(w, "cancel_closing")
              /\ UNCHANGED answer
         ELSE /\ txn = NoWorker
              /\ Tell(w, "rejected")
              /\ MoveTo(w, "done")
              /\ UNCHANGED <<txn, approved, proposal>>
      /\ UNCHANGED <<subject, room, pending, runs, factVars>>

\* The pending entry is consumed; without both nothing was cancelled.
CancelClose(w) ==
  LET k == subject[w]
  IN  /\ at[w] = "cancel_closing"
      /\ pending' = Consume(pending, k)
      /\ IF approved[w] /\ pending[k] = "live"
         THEN MoveTo(w, "cancel_recording") /\ UNCHANGED <<txn, answer>>
         ELSE MoveTo(w, "done") /\ EndTransaction(w) /\ Tell(w, "rejected")
      /\ UNCHANGED <<subject, room, proposal, approved, runs, factVars>>

\* cancel_confirmation records the outcome, still in the transaction.
CancelRecord(w) ==
  /\ at[w] = "cancel_recording"
  /\ \/ AddFact(room[subject[w]], "agent_cancelled", subject[w])
        /\ Tell(w, "cancelled")
     \/ UNCHANGED log /\ Tell(w, "failed")
  /\ MoveTo(w, "done")
  /\ EndTransaction(w)
  /\ UNCHANGED <<subject, room, proposal, pending, approved, runs, waiting,
                 holding>>

-----------------------------------------------------------------------------
(* A confirmed turn: DialogueAgentTurnExecutor.execute *)

ConfirmEnter(r) ==
  /\ at[r] = "waiting"
  /\ Lock!Enter(r, room[subject[r]])
  /\ MoveTo(r, "confirming")
  /\ UNCHANGED <<subject, room, proposal, pending, txn, approved, answer, runs,
                 log>>

\* Mutation: what was read before the wait for the lock is trusted.
ConfirmBeginTrustsRead(r) ==
  /\ at[r] = "confirming"
  /\ MoveTo(r, "dispatching")
  /\ UNCHANGED <<subject, room, proposal, pending, txn, approved, answer, runs,
                 factVars>>

\* _confirm_agent_in_turn: the gateway consumes the proposal and checks it
\* against the catalog.
ConfirmBegin(r) ==
  LET k == subject[r]
  IN  /\ at[r] = "confirming"
      /\ Transaction(r)
      /\ \E accepted \in BOOLEAN :
            approved' = [approved EXCEPT ![r] =
                           proposal[k] = "live" /\ accepted]
      /\ proposal' = Consume(proposal, k)
      /\ MoveTo(r, "confirm_closing")
      /\ UNCHANGED <<subject, room, pending, answer, runs, factVars>>

\* The pending entry goes with the proposal, approved or not.
ConfirmClose(r) ==
  LET k == subject[r]
  IN  /\ at[r] = "confirm_closing"
      /\ pending' = Consume(pending, k)
      /\ IF approved[r] /\ pending[k] = "live"
         THEN MoveTo(r, "dispatching") /\ UNCHANGED answer
         ELSE MoveTo(r, "releasing") /\ Tell(r, "rejected")
      /\ EndTransaction(r)
      /\ UNCHANGED <<subject, room, proposal, approved, runs, factVars>>

\* AgentCallDispatcher.dispatch: the agent may be refused, finish, accept the
\* call for later, or fail; the conversation may be denied before.
Dispatch(r) ==
  LET k == subject[r]
  IN  /\ at[r] = "dispatching"
      /\ \/ /\ runs' = [runs EXCEPT ![k] = @ + 1]
            /\ \/ MoveTo(r, "recording") /\ UNCHANGED answer
               \/ MoveTo(r, "recording_error") /\ UNCHANGED answer
               \/ MoveTo(r, "releasing") /\ Tell(r, "accepted")
         \/ /\ MoveTo(r, "recording_error")
            /\ UNCHANGED <<runs, answer>>
         \/ /\ MoveTo(r, "releasing")
            /\ Tell(r, "rejected")
            /\ UNCHANGED runs
      /\ UNCHANGED <<subject, room, proposal, pending, txn, approved, factVars>>

\* _finish: the agent_result event, then the continuation.
RecordResult(r) ==
  LET k == subject[r]
  IN  /\ at[r] = "recording"
      /\ \/ /\ AddFact(room[k], "agent_result", k)
            /\ MoveTo(r, "continuing")
            /\ UNCHANGED answer
         \/ /\ MoveTo(r, "releasing")
            /\ Tell(r, "failed")
            /\ UNCHANGED log
      /\ UNCHANGED <<subject, room, proposal, pending, txn, approved, runs,
                     waiting, holding>>

RecordError(r) ==
  LET k == subject[r]
  IN  /\ at[r] = "recording_error"
      /\ AddFact(room[k], "agent_error", k) \/ UNCHANGED log
      /\ MoveTo(r, "releasing")
      /\ Tell(r, "failed")
      /\ UNCHANGED <<subject, room, proposal, pending, txn, approved, runs,
                     waiting, holding>>

\* DialogueAgentContinuationService.execute up to its write: exactly one result
\* event, the history, the model.
Continue(r) ==
  LET k == subject[r]
  IN  /\ at[r] = "continuing"
      /\ \/ /\ Cardinality({i \in DOMAIN log[room[k]] :
                              log[room[k]][i] = Fact("agent_result", k)}) = 1
            /\ MoveTo(r, "answering")
            /\ UNCHANGED answer
         \/ /\ MoveTo(r, "releasing")
            /\ Tell(r, "failed")
      /\ UNCHANGED <<subject, room, proposal, pending, txn, approved, runs,
                     factVars>>

\* The continuation stores its answer.
WriteAnswer(r) ==
  LET k == subject[r]
  IN  /\ at[r] = "answering"
      /\ \/ AddFact(room[k], "assistant", k) /\ Tell(r, "completed")
         \/ UNCHANGED log /\ Tell(r, "failed")
      /\ MoveTo(r, "releasing")
      /\ UNCHANGED <<subject, room, proposal, pending, txn, approved, runs,
                     waiting, holding>>

\* The executor, or its supervisor, gives the lease back.
ReleaseTurn(r) ==
  /\ at[r] = "releasing"
  /\ Lock!Leave(r)
  /\ MoveTo(r, "done")
  /\ UNCHANGED <<subject, room, proposal, pending, txn, approved, answer, runs,
                 log>>

\* What the process does by itself.
PrepareProgress(k) ==
  \/ PrepareMessage(k) \/ PrepareCallEvent(k) \/ PreparePending(k)
  \/ PrepareReturn(k)

CancelProgress(w) == CancelBegin(w) \/ CancelClose(w) \/ CancelRecord(w)

ConfirmProgress(r) ==
  \/ ConfirmFallback(r) \/ ConfirmEnter(r) \/ ConfirmBegin(r)
  \/ ConfirmClose(r) \/ Dispatch(r) \/ RecordResult(r) \/ RecordError(r)
  \/ Continue(r) \/ WriteAnswer(r) \/ ReleaseTurn(r)

AgentNext ==
  \/ \E k \in Calls :
        \/ \E c \in Conversations : Recognize(k, c)
        \/ PrepareProgress(k) \/ PrepareAbandon(k)
        \/ ExpireProposal(k) \/ ExpirePending(k)
  \/ \E w \in Workers : CancelProgress(w)
  \/ \E r \in Requests :
        \/ \E k \in Calls : ConfirmAgent(r, k)
        \/ ConfirmProgress(r) \/ ConfirmAbandon(r)

AgentTypeOK ==
  /\ at \in [Workers -> WorkerStep]
  /\ subject \in [Workers -> Calls \cup {NoCall}]
  /\ room \in [Calls -> Conversations \cup {NoConversation}]
  /\ proposal \in [Calls -> EntryState]
  /\ pending \in [Calls -> EntryState]
  /\ txn \in Workers \cup {NoWorker}
  /\ approved \in [Workers -> BOOLEAN]
  /\ answer \in [Workers -> Answer]
  /\ runs \in [Calls -> Nat]
=============================================================================
