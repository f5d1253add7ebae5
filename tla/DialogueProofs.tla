---------------------------- MODULE DialogueProofs ----------------------------
(***************************************************************************)
(* Proofs about Dialogue, for any number of chats, confirmation requests,  *)
(* calls and conversations and any window: the facts of turns do not mix,  *)
(* the context of a model is settled, the agent runs once and never after  *)
(* a cancellation, and what clients were told is stored.                   *)
(*                                                                         *)
(* The argument has two halves.  Control says how positions, the turn      *)
(* lock, the two one-shot stores and the transaction go together; it does  *)
(* not mention the log.  Told says what the log may hold for the present   *)
(* positions, so that a step that adds a fact is judged by Control alone.  *)
(***************************************************************************)
EXTENDS Dialogue, FiniteSetTheorems, WellFoundedInduction, TLAPS

FactType == [kind : Kind, by : Chats \cup Calls]

MaybeConversation == Conversations \cup {NoConversation}

\* Where a chat has the lock, unless it was left at a heartbeat.
InTurn == {"appending", "reading", "priming", "streaming", "saving", "saved",
           "closing"}

\* Where a confirmation has the lock, and where it may still write.
InAgentTurn == {"confirming", "confirm_closing", "dispatching", "recording",
                "recording_error", "continuing", "answering", "releasing"}

Executing == {"dispatching", "recording", "recording_error", "continuing",
              "answering"}

Closing == {"cancel_closing", "confirm_closing"}

InTransaction == Closing \cup {"cancel_recording"}

-----------------------------------------------------------------------------
(* Control *)

ControlTypes ==
  /\ pc \in [Chats -> ChatStep]
  /\ target \in [Chats -> MaybeConversation]
  /\ unwinding \in [Chats -> BOOLEAN]
  /\ outcome \in [Chats -> Outcome]
  /\ AgentTypeOK
  /\ waiting \in [Turns -> MaybeConversation]
  /\ holding \in [Turns -> MaybeConversation]

\* Positions and the turn lock.
ChatsHold ==
  \A t \in Chats :
     /\ pc[t] # "idle" => target[t] \in Conversations
     /\ pc[t] \in InTurn /\ outcome[t] # "left" => holding[t] = target[t]
     /\ pc[t] \notin InTurn \/ outcome[t] = "left" => holding[t] = NoConversation
     /\ outcome[t] = "left"
        => unwinding[t] /\ pc[t] \in {"streaming", "saving", "closing", "done"}

RequestsHold ==
  \A r \in Requests :
     /\ at[r] \in InAgentTurn => holding[r] = room[subject[r]]
     /\ at[r] \notin InAgentTurn => holding[r] = NoConversation

OneHolder ==
  \A x, y \in Turns :
     holding[x] = holding[y] /\ holding[x] # NoConversation => x = y

\* What a worker is about.
CallShape ==
  \A k \in Calls :
     /\ at[k] \in {"idle", "done"} \cup PrepareStep \cup CancelStep
     /\ at[k] # "idle" => subject[k] = k /\ room[k] \in Conversations

RequestShape ==
  \A r \in Requests :
     /\ at[r] \in {"idle", "done"} \cup ConfirmStep \cup CancelStep
     /\ at[r] = "idle" => answer[r] = "none"
     /\ at[r] # "idle" => subject[r] \in Calls /\ at[subject[r]] = "offered"

TransactionShape ==
  \A w \in Workers : txn = w <=> at[w] \in InTransaction

\* The one-shot stores of a call, by its own position ...
CallEntries ==
  \A k \in Calls :
     /\ at[k] \in {"idle", "recognized", "messaged", "recorded"}
        => pending[k] = "none"
     /\ at[k] \in {"idle", "recognized", "messaged", "recorded", "ready"}
        => proposal[k] # "consumed"
     /\ at[k] \in {"ready", "cancelling"} /\ proposal[k] = "live"
        => pending[k] = "live"
     /\ pending[k] = "consumed" => proposal[k] # "live"
     /\ proposal[k] = "consumed" /\ pending[k] = "live"
        => txn \in Workers /\ at[txn] \in Closing /\ subject[txn] = k
     /\ runs[k] <= 1
     /\ runs[k] # 0 => pending[k] = "consumed"

\* ... and by the position of the workers that are about it.
WorkerEntries ==
  \A w \in Workers :
     /\ at[w] \in InTransaction => proposal[subject[w]] # "live"
     /\ at[w] = "cancel_recording" => /\ pending[subject[w]] = "consumed"
                                      /\ runs[subject[w]] = 0
     /\ at[w] = "fallback" => pending[subject[w]] # "live"
     /\ at[w] \in Executing => pending[subject[w]] = "consumed"
     /\ at[w] = "dispatching" => runs[subject[w]] = 0

\* A call is cancelled or carried out, not both.
CancelExcludesRun ==
  \A w \in Workers, r \in Requests :
     at[w] = "cancel_recording" /\ at[r] \in Executing
     => subject[w] # subject[r]

Control ==
  /\ ControlTypes
  /\ ChatsHold
  /\ RequestsHold
  /\ OneHolder
  /\ CallShape
  /\ RequestShape
  /\ TransactionShape
  /\ CallEntries
  /\ WorkerEntries
  /\ CancelExcludesRun
  /\ WithdrawnLeavesNothing
  /\ ApprovalIsNotLost

-----------------------------------------------------------------------------
(* Told *)

LogType == log \in [Conversations -> Seq(FactType)]

\* A turn that has written and may write again under the lock.
MayWrite(x) ==
  \/ x \in Chats /\ pc[x] \in InTurn /\ ~Left(x)
  \/ \E r \in Requests : at[r] \in Executing /\ subject[r] = x

ChatFacts ==
  \A c \in Conversations : \A i \in DOMAIN log[c] :
     LET t == log[c][i].by
     IN  t \in Chats
         => /\ c = target[t]
            /\ log[c][i].kind \in MessageKind
            /\ pc[t] \notin {"idle", "resolving", "waiting", "appending"}
            /\ log[c][i].kind = "assistant" => pc[t] \in {"saved", "closing", "done"}

OutcomeKind == {"agent_result", "agent_error", "agent_cancelled"}

CallFacts ==
  \A c \in Conversations : \A i \in DOMAIN log[c] :
     LET k == log[c][i].by
     IN  k \in Calls
         => /\ c = room[k]
            /\ at[k] # "idle"
            /\ log[c][i].kind \in OutcomeKind \cup {"assistant"}
               => pending[k] = "consumed"
            /\ log[c][i].kind = "agent_cancelled" => runs[k] = 0

\* Nobody who may still report an outcome of a call finds one.
OutcomesOpen ==
  \A c \in Conversations : \A i \in DOMAIN log[c] : \A w \in Workers :
     /\ log[c][i].kind \in OutcomeKind
     /\ log[c][i].by = subject[w]
     => /\ at[w] \notin {"dispatching", "recording", "recording_error",
                         "cancel_recording"}
        /\ log[c][i].kind = "agent_cancelled" => at[w] \notin Executing

OneOutcome ==
  \A c \in Conversations : \A i, j \in DOMAIN log[c] :
     /\ log[c][i].kind \in OutcomeKind
     /\ log[c][j].kind \in OutcomeKind
     /\ log[c][i].by = log[c][j].by
     /\ log[c][i].by \in Calls
     => i = j

AskedFirst ==
  \A c \in Conversations : \A i, j \in DOMAIN log[c] :
     /\ log[c][i].by \in Chats
     /\ log[c][i].by = log[c][j].by
     /\ log[c][i].kind = "user"
     /\ log[c][j].kind = "assistant"
     => i < j

\* After a turn that may still write nobody else has written.
LastWriter ==
  \A c \in Conversations : \A i, m \in DOMAIN log[c] :
     /\ i < m
     /\ UnderLease(log[c][i])
     /\ UnderLease(log[c][m])
     /\ MayWrite(log[c][i].by)
     => log[c][m].by = log[c][i].by

ChatsRecorded ==
  \A t \in Chats :
     /\ pc[t] = "reading" => Recorded(target[t], "user", t)
     /\ pc[t] = "saved" => Recorded(target[t], "assistant", t)
     /\ pc[t] = "idle" => outcome[t] = "none"

ResultsRecorded ==
  \A r \in Requests :
     at[r] \in {"continuing", "answering"}
     => Recorded(room[subject[r]], "agent_result", subject[r])

\* A context is a final piece of the messages up to the turn's own one.
ContextShape ==
  /\ context \in [Chats -> SUBSET Nat]
  /\ \A t \in Chats :
        /\ Cardinality(context[t]) <= MaxMessages
        /\ context[t] # {}
           => /\ pc[t] # "idle"
              /\ context[t] \subseteq Messages(target[t])
              /\ \E own \in context[t] :
                    /\ log[target[t]][own] = Fact("user", t)
                    /\ \A i \in context[t] : i <= own
                    /\ \A i \in context[t], j \in Messages(target[t]) :
                          i <= j /\ j <= own => j \in context[t]

Told ==
  /\ LogType
  /\ ChatFacts
  /\ CallFacts
  /\ OutcomesOpen
  /\ OneOutcome
  /\ AskedFirst
  /\ LastWriter
  /\ TurnsDoNotInterleave
  /\ ChatsRecorded
  /\ ResultsRecorded
  /\ SuccessIsStored
  /\ ContextShape

IInv == Control /\ Told

-----------------------------------------------------------------------------
(* Chats keep Control: they touch their own position and the lock only *)

LEMMA ChatKeepsControl ==
  ASSUME Control, ChatNext, UNCHANGED agentVars
  PROVE  Control'
<1> USE FactsAssumption, ChatAssumption, AgentAssumption, DialogueAssumption
<1>1. PICK t \in Chats : \/ \E c \in Conversations : ChatStart(t, c)
                         \/ ChatProgress(t)
                         \/ ChatCancel(t)
                         \/ ChatLeave(t)
  BY DEF ChatNext
<1>2. (/\ ControlTypes /\ ChatsHold /\ RequestsHold /\ OneHolder)'
  <2> USE DEF Control, ControlTypes, ChatsHold, RequestsHold, OneHolder,
              MaybeConversation, InTurn, InAgentTurn, ChatStep, Outcome, agentVars,
              AgentTypeOK, factVars, Goto, CloseWith
  <2>1. ASSUME NEW c \in Conversations, ChatStart(t, c)
        PROVE  (ControlTypes /\ ChatsHold /\ RequestsHold /\ OneHolder)'
    BY <2>1 DEF ChatStart
  <2>2. CASE ChatResolve(t)
    <3>1. /\ pc[t] = "resolving"
          /\ waiting' \in [Turns -> MaybeConversation]
          /\ outcome' \in [Chats -> Outcome]
          /\ \A s \in Chats : outcome'[s] = "left" <=> outcome[s] = "left"
          /\ UNCHANGED <<target, unwinding, holding>>
      BY <2>2 DEF ChatResolve, Lock!Request
    <3>2. PICK step \in {"waiting", "done"} : pc' = [pc EXCEPT ![t] = step]
      BY <2>2 DEF ChatResolve
    <3>3. ControlTypes'
      BY <3>1, <3>2
    <3>4. (ChatsHold /\ RequestsHold /\ OneHolder)'
      BY <3>1, <3>2
    <3> QED
      BY <3>3, <3>4
  <2>3. CASE ChatEnter(t)
    BY <2>3 DEF ChatEnter, Lock!Enter, Lock!Free
  <2>4. CASE ChatAppendUser(t)
    BY <2>4 DEF ChatAppendUser
  <2>5. CASE ChatReadContext(t)
    <3>1. pc[t] = "reading" /\ UNCHANGED <<target, unwinding, waiting, holding>>
      BY <2>5 DEF ChatReadContext
    <3>2. PICK step \in {"closing", "priming"} : pc' = [pc EXCEPT ![t] = step]
      BY <2>5 DEF ChatReadContext
    <3>3. \/ outcome' = outcome
          \/ \E event \in {"persistence_error", "upstream_error"} :
                outcome' = [outcome EXCEPT ![t] = IF unwinding[t] THEN @ ELSE event]
      BY <2>5 DEF ChatReadContext
    <3>4. /\ outcome' \in [Chats -> Outcome]
          /\ \A s \in Chats : outcome'[s] = "left" <=> outcome[s] = "left"
      BY <3>1, <3>3
    <3>5. ControlTypes' /\ ChatsHold'
      BY <3>1, <3>2, <3>4
    <3>6. (RequestsHold /\ OneHolder)'
      BY <3>1
    <3> QED
      BY <3>5, <3>6
  <2>6. CASE ChatPrime(t)
    BY <2>6 DEF ChatPrime
  <2>7. CASE ChatStreamEnds(t)
    BY <2>7 DEF ChatStreamEnds
  <2>8. CASE ChatTimeout(t)
    BY <2>8 DEF ChatTimeout, ChatUnwind
  <2>9. CASE ChatSave(t)
    BY <2>9 DEF ChatSave
  <2>10. CASE ChatComplete(t)
    BY <2>10 DEF ChatComplete
  <2>11. CASE ChatClose(t)
    BY <2>11 DEF ChatClose, Lock!Leave
  <2>12. CASE ChatCancel(t)
    <3>1. CASE ChatUnwind(t, "cancelled")
      BY <3>1 DEF ChatUnwind
    <3>2. CASE pc[t] \in {"resolving", "waiting"}
      <4>1. /\ pc' = [pc EXCEPT ![t] = "done"]
            /\ outcome' = [outcome EXCEPT ![t] = "cancelled"]
            /\ UNCHANGED <<target, unwinding, holding>>
            /\ waiting' \in [Turns -> MaybeConversation]
        <5>1. /\ pc' = [pc EXCEPT ![t] = "done"]
              /\ outcome' = [outcome EXCEPT ![t] = "cancelled"]
              /\ UNCHANGED <<target, unwinding>>
              /\ Lock!Withdraw(t) \/ UNCHANGED <<waiting, holding>>
          BY <2>12, <3>2 DEF ChatCancel, ChatUnwind
        <5>2. UNCHANGED holding /\ waiting' \in [Turns -> MaybeConversation]
          BY <5>1 DEF Lock!Withdraw
        <5> QED
          BY <5>1, <5>2
      <4>2. ControlTypes' /\ ChatsHold'
        BY <3>2, <4>1
      <4>3. (RequestsHold /\ OneHolder)'
        BY <3>2, <4>1
      <4> QED
        BY <4>2, <4>3
    <3>3. CASE pc[t] \in {"appending", "reading", "priming"} /\ ~ChatUnwind(t, "cancelled")
      <4>0. outcome[t] # "left"
        BY <3>3
      <4>1. /\ pc' = pc \/ pc' = [pc EXCEPT ![t] = "closing"]
            /\ outcome' \in [Chats -> Outcome]
            /\ \A s \in Chats : outcome'[s] = "left" <=> outcome[s] = "left"
            /\ unwinding' \in [Chats -> BOOLEAN]
            /\ \A s \in Chats : unwinding[s] => unwinding'[s]
            /\ UNCHANGED <<target, holding, waiting>>
        <5>1. CASE pc[t] \in {"appending", "reading"}
          <6>1. /\ unwinding' = [unwinding EXCEPT ![t] = TRUE]
                /\ outcome' = [outcome EXCEPT ![t] = "cancelled"]
                /\ UNCHANGED <<pc, target, holding, waiting>>
            BY <2>12, <3>3, <5>1 DEF ChatCancel
          <6> QED
            BY <4>0, <6>1
        <5>2. CASE pc[t] = "priming"
          <6>1. /\ pc' = [pc EXCEPT ![t] = "closing"]
                /\ outcome' = [outcome EXCEPT ![t] = IF unwinding[t] THEN @ ELSE "cancelled"]
                /\ UNCHANGED <<unwinding, target, holding, waiting>>
            BY <2>12, <3>3, <5>2 DEF ChatCancel
          <6> QED
            BY <4>0, <6>1
        <5> QED
          BY <3>3, <5>1, <5>2
      <4>2. ControlTypes'
        BY <4>1
      <4>3. ChatsHold'
        BY <3>3, <4>1
      <4>4. (RequestsHold /\ OneHolder)'
        BY <4>1
      <4> QED
        BY <4>2, <4>3, <4>4
    <3> QED
      BY <2>12, <3>1, <3>2, <3>3 DEF ChatCancel
  <2>13. CASE ChatLeave(t)
    BY <2>13 DEF ChatLeave, Lock!Leave
  <2> QED
    BY <1>1, <2>1, <2>2, <2>3, <2>4, <2>5, <2>6, <2>7, <2>8, <2>9, <2>10,
       <2>11, <2>12, <2>13 DEF ChatProgress
<1> QED
  BY <1>2 DEF Control, agentVars, CallShape, RequestShape, TransactionShape,
              CallEntries, WorkerEntries, CancelExcludesRun,
              WithdrawnLeavesNothing, ApprovalIsNotLost

-----------------------------------------------------------------------------
(* Agent turns keep Control *)

\* What an agent step can disturb.
AgentControl ==
  /\ AgentTypeOK
  /\ RequestsHold
  /\ CallShape
  /\ RequestShape
  /\ TransactionShape
  /\ CallEntries
  /\ WorkerEntries
  /\ CancelExcludesRun
  /\ WithdrawnLeavesNothing
  /\ ApprovalIsNotLost

LEMMA CallKeepsControl ==
  ASSUME Control, UNCHANGED chatVars, NEW k \in Calls,
         \/ \E c \in Conversations : Recognize(k, c)
         \/ PrepareProgress(k) \/ PrepareAbandon(k)
         \/ ExpireProposal(k) \/ ExpirePending(k)
  PROVE  AgentControl'
<1> USE FactsAssumption, ChatAssumption, AgentAssumption, DialogueAssumption
<1> USE DEF Control, AgentControl, ControlTypes, RequestsHold,
            MaybeConversation, InAgentTurn, AgentTypeOK, factVars,
            Workers, WorkerStep, CancelStep, ConfirmStep, PrepareStep, EntryState, Answer,
            CallShape, RequestShape, TransactionShape, CallEntries, WorkerEntries,
            CancelExcludesRun, WithdrawnLeavesNothing, ApprovalIsNotLost, InTransaction,
            Closing, Executing, MoveTo, Tell
<1>1. ASSUME NEW c \in Conversations, Recognize(k, c)
      PROVE  AgentControl'
  BY <1>1 DEF Recognize
<1>2. CASE PrepareMessage(k)
  <2>1. /\ at[k] = "recognized"
        /\ \E step \in {"messaged", "failed"} : at' = [at EXCEPT ![k] = step]
        /\ UNCHANGED <<subject, room, proposal, pending, txn, approved, answer,
                       runs, holding>>
    BY <1>2 DEF PrepareMessage, PrepareFact
  <2>11. (AgentTypeOK /\ RequestsHold)'
    BY <2>1
  <2>12. (CallShape /\ RequestShape /\ TransactionShape)'
    BY <2>1
  <2>13. (CallEntries)'
    BY <2>1
  <2>14. (WorkerEntries /\ CancelExcludesRun)'
    BY <2>1
  <2>15. (WithdrawnLeavesNothing /\ ApprovalIsNotLost)'
    BY <2>1
  <2> QED
    BY <2>11, <2>12, <2>13, <2>14, <2>15
<1>3. CASE PrepareCallEvent(k)
  <2>1. /\ at[k] = "messaged"
        /\ \E step \in {"recorded", "failed"} : at' = [at EXCEPT ![k] = step]
        /\ UNCHANGED <<subject, room, proposal, pending, txn, approved, answer,
                       runs, holding>>
    BY <1>3 DEF PrepareCallEvent, PrepareFact
  <2>11. (AgentTypeOK /\ RequestsHold)'
    BY <2>1
  <2>12. (CallShape /\ RequestShape /\ TransactionShape)'
    BY <2>1
  <2>13. (CallEntries)'
    BY <2>1
  <2>14. (WorkerEntries /\ CancelExcludesRun)'
    BY <2>1
  <2>15. (WithdrawnLeavesNothing /\ ApprovalIsNotLost)'
    BY <2>1
  <2> QED
    BY <2>11, <2>12, <2>13, <2>14, <2>15
<1>4. CASE PreparePending(k)
  BY <1>4 DEF PreparePending
<1>5. CASE PrepareReturn(k)
  BY <1>5 DEF PrepareReturn
<1>6. CASE PrepareAbandon(k)
  BY <1>6 DEF PrepareAbandon
<1>7. CASE ExpireProposal(k)
  BY <1>7 DEF ExpireProposal
<1>8. CASE ExpirePending(k)
  BY <1>8 DEF ExpirePending
<1> QED
  BY <1>1, <1>2, <1>3, <1>4, <1>5, <1>6, <1>7, <1>8 DEF PrepareProgress

LEMMA CancelKeepsControl ==
  ASSUME Control, UNCHANGED chatVars, NEW w \in Workers, CancelProgress(w)
  PROVE  AgentControl'
<1> USE FactsAssumption, ChatAssumption, AgentAssumption, DialogueAssumption
<1> USE DEF Control, AgentControl, ControlTypes, RequestsHold,
            MaybeConversation, InAgentTurn, AgentTypeOK, factVars,
            Workers, WorkerStep, CancelStep, ConfirmStep, PrepareStep, EntryState, Answer,
            CallShape, RequestShape, TransactionShape, CallEntries, WorkerEntries,
            CancelExcludesRun, WithdrawnLeavesNothing, ApprovalIsNotLost, InTransaction,
            Closing, Executing, MoveTo, Tell, Consume, Transaction, EndTransaction
<1>1. CASE CancelBegin(w)
  <2>1. CASE pending[subject[w]] = "live"
    <3>1. /\ at[w] = "cancelling"
          /\ txn = NoWorker /\ txn' = w
          /\ at' = [at EXCEPT ![w] = "cancel_closing"]
          /\ approved' = [approved EXCEPT ![w] = proposal[subject[w]] = "live"]
          /\ proposal' = [proposal EXCEPT ![subject[w]] =
                             IF @ = "live" THEN "consumed" ELSE @]
          /\ UNCHANGED <<subject, room, pending, answer, runs, holding>>
      BY <1>1, <2>1 DEF CancelBegin
    <3>2. subject[w] \in Calls
      BY <3>1
    <3>11. (AgentTypeOK /\ RequestsHold)'
      BY <2>1, <3>1, <3>2
    <3>12. (CallShape /\ RequestShape /\ TransactionShape)'
      BY <2>1, <3>1, <3>2
    <3>13. (CallEntries)'
      BY <2>1, <3>1, <3>2
    <3>14. (WorkerEntries /\ CancelExcludesRun)'
      BY <2>1, <3>1, <3>2
    <3>15. (WithdrawnLeavesNothing /\ ApprovalIsNotLost)'
      BY <2>1, <3>1, <3>2
    <3> QED
      BY <3>11, <3>12, <3>13, <3>14, <3>15
  <2>2. CASE pending[subject[w]] # "live"
    <3>1. /\ at[w] = "cancelling"
          /\ txn = NoWorker
          /\ at' = [at EXCEPT ![w] = "done"]
          /\ answer' = [answer EXCEPT ![w] = IF @ = "abandoned" THEN @ ELSE "rejected"]
          /\ UNCHANGED <<subject, room, pending, proposal, approved, txn, runs, holding>>
      BY <1>1, <2>2 DEF CancelBegin
    <3>11. (AgentTypeOK /\ RequestsHold)'
      BY <2>2, <3>1
    <3>12. (CallShape /\ RequestShape /\ TransactionShape)'
      BY <2>2, <3>1
    <3>13. (CallEntries)'
      BY <2>2, <3>1
    <3>14. (WorkerEntries /\ CancelExcludesRun)'
      BY <2>2, <3>1
    <3>15. (WithdrawnLeavesNothing /\ ApprovalIsNotLost)'
      BY <2>2, <3>1
    <3> QED
      BY <3>11, <3>12, <3>13, <3>14, <3>15
  <2> QED
    BY <2>1, <2>2
<1>2. CASE CancelClose(w)
  <2>0. /\ at[w] = "cancel_closing"
        /\ subject[w] \in Calls
        /\ txn = w
        /\ pending' = [pending EXCEPT ![subject[w]] =
                          IF @ = "live" THEN "consumed" ELSE @]
        /\ UNCHANGED <<subject, room, proposal, approved, runs, holding>>
    BY <1>2 DEF CancelClose
  <2>1. CASE approved[w] /\ pending[subject[w]] = "live"
    <3>1. at' = [at EXCEPT ![w] = "cancel_recording"] /\ UNCHANGED <<txn, answer>>
      BY <1>2, <2>1 DEF CancelClose
    <3>11. (AgentTypeOK /\ RequestsHold)'
      BY <2>0, <2>1, <3>1
    <3>12. (CallShape /\ RequestShape /\ TransactionShape)'
      BY <2>0, <2>1, <3>1
    <3>13. (CallEntries)'
      BY <2>0, <2>1, <3>1
    <3>14. (WorkerEntries /\ CancelExcludesRun)'
      BY <2>0, <2>1, <3>1
    <3>15. (WithdrawnLeavesNothing /\ ApprovalIsNotLost)'
      BY <2>0, <2>1, <3>1
    <3> QED
      BY <3>11, <3>12, <3>13, <3>14, <3>15
  <2>2. CASE ~(approved[w] /\ pending[subject[w]] = "live")
    <3>1. /\ at' = [at EXCEPT ![w] = "done"]
          /\ txn' = NoWorker
          /\ answer' = [answer EXCEPT ![w] = IF @ = "abandoned" THEN @ ELSE "rejected"]
      BY <1>2, <2>0, <2>2 DEF CancelClose
    <3>11. (AgentTypeOK /\ RequestsHold)'
      BY <2>0, <2>2, <3>1
    <3>12. (CallShape /\ RequestShape /\ TransactionShape)'
      BY <2>0, <2>2, <3>1
    <3>13. (CallEntries)'
      BY <2>0, <2>2, <3>1
    <3>14. (WorkerEntries /\ CancelExcludesRun)'
      BY <2>0, <2>2, <3>1
    <3>15. (WithdrawnLeavesNothing /\ ApprovalIsNotLost)'
      BY <2>0, <2>2, <3>1
    <3> QED
      BY <3>11, <3>12, <3>13, <3>14, <3>15
  <2> QED
    BY <2>1, <2>2
<1>3. CASE CancelRecord(w)
  BY <1>3 DEF CancelRecord
<1> QED
  BY <1>1, <1>2, <1>3 DEF CancelProgress

LEMMA AnswersTyped ==
  ASSUME answer \in [Workers -> Answer], NEW w \in Workers,
         answer' = answer \/ \E word \in Answer :
           answer' = [answer EXCEPT ![w] = IF @ = "abandoned" THEN @ ELSE word]
  PROVE  answer' \in [Workers -> Answer]
OBVIOUS

LEMMA RequestKeepsControl ==
  ASSUME Control, UNCHANGED chatVars, NEW r \in Requests,
        \/ \E k \in Calls : ConfirmAgent(r, k)
        \/ ConfirmProgress(r) \/ ConfirmAbandon(r)
  PROVE  AgentControl'
<1> USE FactsAssumption, ChatAssumption, AgentAssumption, DialogueAssumption
<1> USE DEF Control, AgentControl, ControlTypes, RequestsHold,
            MaybeConversation, InAgentTurn, AgentTypeOK, factVars,
            Workers, WorkerStep, CancelStep, ConfirmStep, PrepareStep, EntryState, Answer,
            CallShape, RequestShape, TransactionShape, CallEntries, WorkerEntries,
            CancelExcludesRun, WithdrawnLeavesNothing, ApprovalIsNotLost, InTransaction,
            Closing, Executing, MoveTo, Tell, Consume, Transaction, EndTransaction
<1>1. ASSUME NEW k \in Calls, ConfirmAgent(r, k)
      PROVE  AgentControl'
  <2>1. /\ at[r] = "idle" /\ at[k] = "offered" /\ txn = NoWorker
        /\ subject' = [subject EXCEPT ![r] = k]
        /\ \/ at' = [at EXCEPT ![r] = "fallback"] /\ pending[k] # "live"
           \/ at' = [at EXCEPT ![r] = "cancelling"]
           \/ at' = [at EXCEPT ![r] = "waiting"]
        /\ UNCHANGED <<room, proposal, pending, txn, approved, answer, runs, holding>>
    BY <1>1 DEF ConfirmAgent, Lock!Request
  <2>10. AgentTypeOK'
    BY <2>1
  <2>11. (AgentTypeOK /\ RequestsHold)'
    BY <2>1, <2>10
  <2>12. (CallShape /\ RequestShape /\ TransactionShape)'
    BY <2>1
  <2>13. (CallEntries)'
    BY <2>1
  <2>14. (WorkerEntries /\ CancelExcludesRun)'
    BY <2>1
  <2>15. (WithdrawnLeavesNothing /\ ApprovalIsNotLost)'
    BY <2>1
  <2> QED
    BY <2>11, <2>12, <2>13, <2>14, <2>15
<1>2. CASE ConfirmFallback(r)
  BY <1>2 DEF ConfirmFallback
<1>3. CASE ConfirmAbandon(r)
  BY <1>3 DEF ConfirmAbandon, Lock!Withdraw
<1>4. CASE ConfirmEnter(r)
  BY <1>4 DEF ConfirmEnter, Lock!Enter, Lock!Free
<1>5. CASE ConfirmBegin(r)
  <2>1. PICK accepted \in BOOLEAN :
           /\ at[r] = "confirming"
           /\ txn = NoWorker /\ txn' = r
           /\ at' = [at EXCEPT ![r] = "confirm_closing"]
           /\ approved' = [approved EXCEPT ![r] =
                              proposal[subject[r]] = "live" /\ accepted]
           /\ proposal' = [proposal EXCEPT ![subject[r]] =
                              IF @ = "live" THEN "consumed" ELSE @]
           /\ UNCHANGED <<subject, room, pending, answer, runs, holding>>
    BY <1>5 DEF ConfirmBegin
  <2>2. /\ subject[r] \in Calls
        /\ approved'[r] => proposal[subject[r]] = "live"
        /\ \A w \in Workers : w # r => approved'[w] = approved[w]
    BY <2>1
  <2>11. (AgentTypeOK /\ RequestsHold)'
    BY <2>1, <2>2
  <2>12. (CallShape /\ RequestShape /\ TransactionShape)'
    BY <2>1, <2>2
  <2>13. (CallEntries)'
    BY <2>1, <2>2
  <2>14. (WorkerEntries /\ CancelExcludesRun)'
    BY <2>1, <2>2
  <2>15. (WithdrawnLeavesNothing /\ ApprovalIsNotLost)'
    <3>1. WithdrawnLeavesNothing'
      BY <2>1, <2>2
    <3>2. ApprovalIsNotLost'
      BY <2>1, <2>2
    <3> QED
      BY <3>1, <3>2
  <2> QED
    BY <2>11, <2>12, <2>13, <2>14, <2>15
<1>6. CASE ConfirmClose(r)
  <2>0. /\ at[r] = "confirm_closing"
        /\ subject[r] \in Calls
        /\ txn = r /\ txn' = NoWorker
        /\ pending' = [pending EXCEPT ![subject[r]] =
                          IF @ = "live" THEN "consumed" ELSE @]
        /\ UNCHANGED <<subject, room, proposal, approved, runs, holding>>
    BY <1>6 DEF ConfirmClose
  <2>1. CASE approved[r] /\ pending[subject[r]] = "live"
    <3>1. at' = [at EXCEPT ![r] = "dispatching"] /\ UNCHANGED answer
      BY <1>6, <2>1 DEF ConfirmClose
    <3>11. (AgentTypeOK /\ RequestsHold)'
      BY <2>0, <2>1, <3>1
    <3>12. (CallShape /\ RequestShape /\ TransactionShape)'
      BY <2>0, <2>1, <3>1
    <3>13. (CallEntries)'
      BY <2>0, <2>1, <3>1
    <3>14. (WorkerEntries /\ CancelExcludesRun)'
      BY <2>0, <2>1, <3>1
    <3>15. (WithdrawnLeavesNothing /\ ApprovalIsNotLost)'
      BY <2>0, <2>1, <3>1
    <3> QED
      BY <3>11, <3>12, <3>13, <3>14, <3>15
  <2>2. CASE ~(approved[r] /\ pending[subject[r]] = "live")
    <3>1. /\ at' = [at EXCEPT ![r] = "releasing"]
          /\ answer' = [answer EXCEPT ![r] = IF @ = "abandoned" THEN @ ELSE "rejected"]
      BY <1>6, <2>2 DEF ConfirmClose
    <3>11. (AgentTypeOK /\ RequestsHold)'
      BY <2>0, <2>2, <3>1
    <3>12. (CallShape /\ RequestShape /\ TransactionShape)'
      BY <2>0, <2>2, <3>1
    <3>13. (CallEntries)'
      BY <2>0, <2>2, <3>1
    <3>14. (WorkerEntries /\ CancelExcludesRun)'
      BY <2>0, <2>2, <3>1
    <3>15. (WithdrawnLeavesNothing /\ ApprovalIsNotLost)'
      BY <2>0, <2>2, <3>1
    <3> QED
      BY <3>11, <3>12, <3>13, <3>14, <3>15
  <2> QED
    BY <2>1, <2>2
<1>7. CASE Dispatch(r)
  <2>1. /\ at[r] = "dispatching"
        /\ \E step \in {"recording", "recording_error", "releasing"} :
              at' = [at EXCEPT ![r] = step]
        /\ runs' = runs \/ runs' = [runs EXCEPT ![subject[r]] = @ + 1]
        /\ answer' = answer \/ \E word \in Answer :
              answer' = [answer EXCEPT ![r] = IF @ = "abandoned" THEN @ ELSE word]
        /\ UNCHANGED <<subject, room, proposal, pending, txn, approved, holding>>
    BY <1>7 DEF Dispatch
  <2>2. /\ subject[r] \in Calls
        /\ runs[subject[r]] = 0
        /\ pending[subject[r]] = "consumed"
    BY <2>1
  <2>3. \A q \in Requests : subject[q] = subject[r] /\ at[q] \in Executing => q = r
    BY <2>1, <2>2 DEF OneHolder
  <2>9. answer' \in [Workers -> Answer]
    BY <2>1, AnswersTyped
  <2>8. at' \in [Workers -> WorkerStep] /\ runs' \in [Calls -> Nat]
    BY <2>1, <2>2
  <2>10. AgentTypeOK'
    <3>1. UNCHANGED <<subject, room, proposal, pending, txn, approved>>
      BY <2>1
    <3> QED
      BY <2>8, <2>9, <3>1
  <2>11. (AgentTypeOK /\ RequestsHold)'
    BY <2>1, <2>2, <2>10
  <2>12. (CallShape /\ RequestShape /\ TransactionShape)'
    BY <2>1, <2>2
  <2>13. (CallEntries)'
    BY <2>1, <2>2
  <2>14. (WorkerEntries /\ CancelExcludesRun)'
    BY <2>1, <2>2, <2>3
  <2>15. (WithdrawnLeavesNothing /\ ApprovalIsNotLost)'
    BY <2>1, <2>2
  <2> QED
    BY <2>11, <2>12, <2>13, <2>14, <2>15
<1>8. CASE RecordResult(r)
  <2>1. /\ at[r] = "recording"
        /\ \E step \in {"continuing", "releasing"} : at' = [at EXCEPT ![r] = step]
        /\ answer' = answer \/ \E word \in Answer :
              answer' = [answer EXCEPT ![r] = IF @ = "abandoned" THEN @ ELSE word]
        /\ UNCHANGED <<subject, room, proposal, pending, txn, approved, runs, holding>>
    BY <1>8 DEF RecordResult
  <2>9. answer' \in [Workers -> Answer]
    BY <2>1, AnswersTyped
  <2>10. AgentTypeOK'
    BY <2>1, <2>9
  <2>11. (AgentTypeOK /\ RequestsHold)'
    BY <2>1, <2>10
  <2>12. (CallShape /\ RequestShape /\ TransactionShape)'
    BY <2>1
  <2>13. (CallEntries)'
    BY <2>1
  <2>14. (WorkerEntries /\ CancelExcludesRun)'
    BY <2>1
  <2>15. (WithdrawnLeavesNothing /\ ApprovalIsNotLost)'
    BY <2>1
  <2> QED
    BY <2>11, <2>12, <2>13, <2>14, <2>15
<1>9. CASE RecordError(r)
  <2>1. /\ at[r] = "recording_error"
        /\ \E step \in {"releasing"} : at' = [at EXCEPT ![r] = step]
        /\ answer' = answer \/ \E word \in Answer :
              answer' = [answer EXCEPT ![r] = IF @ = "abandoned" THEN @ ELSE word]
        /\ UNCHANGED <<subject, room, proposal, pending, txn, approved, runs, holding>>
    BY <1>9 DEF RecordError
  <2>9. answer' \in [Workers -> Answer]
    BY <2>1, AnswersTyped
  <2>10. AgentTypeOK'
    BY <2>1, <2>9
  <2>11. (AgentTypeOK /\ RequestsHold)'
    BY <2>1, <2>10
  <2>12. (CallShape /\ RequestShape /\ TransactionShape)'
    BY <2>1
  <2>13. (CallEntries)'
    BY <2>1
  <2>14. (WorkerEntries /\ CancelExcludesRun)'
    BY <2>1
  <2>15. (WithdrawnLeavesNothing /\ ApprovalIsNotLost)'
    BY <2>1
  <2> QED
    BY <2>11, <2>12, <2>13, <2>14, <2>15
<1>10. CASE Continue(r)
  <2>1. /\ at[r] = "continuing"
        /\ \E step \in {"answering", "releasing"} : at' = [at EXCEPT ![r] = step]
        /\ answer' = answer \/ \E word \in Answer :
              answer' = [answer EXCEPT ![r] = IF @ = "abandoned" THEN @ ELSE word]
        /\ UNCHANGED <<subject, room, proposal, pending, txn, approved, runs, holding>>
    BY <1>10 DEF Continue
  <2>9. answer' \in [Workers -> Answer]
    BY <2>1, AnswersTyped
  <2>10. AgentTypeOK'
    BY <2>1, <2>9
  <2>11. (AgentTypeOK /\ RequestsHold)'
    BY <2>1, <2>10
  <2>12. (CallShape /\ RequestShape /\ TransactionShape)'
    BY <2>1
  <2>13. (CallEntries)'
    BY <2>1
  <2>14. (WorkerEntries /\ CancelExcludesRun)'
    BY <2>1
  <2>15. (WithdrawnLeavesNothing /\ ApprovalIsNotLost)'
    BY <2>1
  <2> QED
    BY <2>11, <2>12, <2>13, <2>14, <2>15
<1>11. CASE WriteAnswer(r)
  <2>1. /\ at[r] = "answering"
        /\ \E step \in {"releasing"} : at' = [at EXCEPT ![r] = step]
        /\ answer' = answer \/ \E word \in Answer :
              answer' = [answer EXCEPT ![r] = IF @ = "abandoned" THEN @ ELSE word]
        /\ UNCHANGED <<subject, room, proposal, pending, txn, approved, runs, holding>>
    BY <1>11 DEF WriteAnswer
  <2>9. answer' \in [Workers -> Answer]
    BY <2>1, AnswersTyped
  <2>10. AgentTypeOK'
    BY <2>1, <2>9
  <2>11. (AgentTypeOK /\ RequestsHold)'
    BY <2>1, <2>10
  <2>12. (CallShape /\ RequestShape /\ TransactionShape)'
    BY <2>1
  <2>13. (CallEntries)'
    BY <2>1
  <2>14. (WorkerEntries /\ CancelExcludesRun)'
    BY <2>1
  <2>15. (WithdrawnLeavesNothing /\ ApprovalIsNotLost)'
    BY <2>1
  <2> QED
    BY <2>11, <2>12, <2>13, <2>14, <2>15
<1>12. CASE ReleaseTurn(r)
  BY <1>12 DEF ReleaseTurn, Lock!Leave
<1> QED
  BY <1>1, <1>2, <1>3, <1>4, <1>5, <1>6, <1>7, <1>8, <1>9, <1>10, <1>11,
     <1>12 DEF ConfirmProgress

LEMMA AgentKeepsLock ==
  ASSUME Control, AgentNext
  PROVE  /\ waiting' \in [Turns -> MaybeConversation]
         /\ holding' \in [Turns -> MaybeConversation]
         /\ OneHolder'
         /\ \A t \in Turns \ Requests : holding'[t] = holding[t]
<1> USE FactsAssumption, ChatAssumption, AgentAssumption, DialogueAssumption
<1> USE DEF Control, ControlTypes, OneHolder, MaybeConversation, factVars
<1>1. CASE UNCHANGED <<waiting, holding>>
  BY <1>1
<1>2. ASSUME NEW r \in Requests,
             \/ \E k \in Calls : ConfirmAgent(r, k)
             \/ ConfirmAbandon(r)
      PROVE  holding' = holding /\ waiting' \in [Turns -> MaybeConversation]
  BY <1>2 DEF ConfirmAgent, ConfirmAbandon, Lock!Request, Lock!Withdraw,
              AgentTypeOK
<1>3. ASSUME NEW r \in Requests, ConfirmEnter(r)
      PROVE  /\ waiting' \in [Turns -> MaybeConversation]
             /\ holding' \in [Turns -> MaybeConversation]
             /\ OneHolder'
             /\ \A t \in Turns \ Requests : holding'[t] = holding[t]
  <2>1. room[subject[r]] \in Conversations
    BY <1>3 DEF ConfirmEnter, RequestShape, CallShape
  <2> QED
    BY <1>3, <2>1 DEF ConfirmEnter, Lock!Enter, Lock!Free
<1>4. ASSUME NEW r \in Requests, ReleaseTurn(r)
      PROVE  /\ waiting' \in [Turns -> MaybeConversation]
             /\ holding' \in [Turns -> MaybeConversation]
             /\ OneHolder'
             /\ \A t \in Turns \ Requests : holding'[t] = holding[t]
  BY <1>4 DEF ReleaseTurn, Lock!Leave
<1> QED
  BY <1>1, <1>2, <1>3, <1>4
     DEF AgentNext, Recognize, PrepareProgress, PrepareMessage,
         PrepareCallEvent, PrepareFact, PreparePending, PrepareReturn,
         PrepareAbandon, ExpireProposal, ExpirePending, CancelProgress,
         CancelBegin, CancelClose, CancelRecord, ConfirmProgress,
         ConfirmFallback, ConfirmBegin, ConfirmClose, Dispatch, RecordResult,
         RecordError, Continue, WriteAnswer

LEMMA AgentKeepsControl ==
  ASSUME Control, AgentNext, UNCHANGED chatVars
  PROVE  Control'
<1>1. AgentControl'
  BY CallKeepsControl, CancelKeepsControl, RequestKeepsControl DEF AgentNext
<1>2. ChatsHold'
  BY AgentKeepsLock, ChatAssumption, DialogueAssumption
     DEF Control, ControlTypes, ChatsHold, chatVars
<1>3. ControlTypes'
  BY <1>1, AgentKeepsLock DEF Control, ControlTypes, AgentControl, chatVars
<1> QED
  BY <1>1, <1>2, <1>3, AgentKeepsLock DEF Control, AgentControl

LEMMA RestartKeepsControl ==
  ASSUME Control, Restart
  PROVE  Control'
<1> USE FactsAssumption, ChatAssumption, AgentAssumption, DialogueAssumption
<1> USE DEF Control, Restart, Lost
<1>1. ControlTypes'
  BY DEF ControlTypes, AgentTypeOK, ChatStep, Outcome, Workers, WorkerStep,
         EntryState, Lock!None, MaybeConversation
<1>2. (ChatsHold /\ RequestsHold /\ OneHolder)'
  BY DEF ControlTypes, ChatsHold, RequestsHold, OneHolder, InTurn,
         InAgentTurn, Lock!None, Workers
<1>3. (CallShape /\ RequestShape /\ TransactionShape)'
  BY DEF ControlTypes, AgentTypeOK, CallShape, RequestShape, TransactionShape,
         Workers, InTransaction, Closing
<1>4. (CallEntries /\ WorkerEntries /\ CancelExcludesRun)'
  BY DEF ControlTypes, AgentTypeOK, CallEntries, WorkerEntries,
         CancelExcludesRun, Workers, InTransaction, Closing, Executing
<1>5. (WithdrawnLeavesNothing /\ ApprovalIsNotLost)'
  BY DEF ControlTypes, AgentTypeOK, WithdrawnLeavesNothing, ApprovalIsNotLost,
         Workers
<1> QED
  BY <1>1, <1>2, <1>3, <1>4, <1>5

LEMMA ControlInductive ==
  ASSUME Control, [Next]_vars
  PROVE  Control'
<1>1. CASE UNCHANGED vars
  BY <1>1 DEF vars, factVars, chatVars, agentVars, Control, ControlTypes,
     AgentTypeOK, ChatsHold, RequestsHold, OneHolder, CallShape, RequestShape,
     TransactionShape, CallEntries, WorkerEntries, CancelExcludesRun,
     WithdrawnLeavesNothing, ApprovalIsNotLost
<1> QED
  BY <1>1, ChatKeepsControl, AgentKeepsControl, RestartKeepsControl DEF Next

LEMMA InitControl ==
  ASSUME Init
  PROVE  Control
<1> USE FactsAssumption, ChatAssumption, AgentAssumption, DialogueAssumption
<1> USE DEF Init, FactsInit, ChatInit, AgentInit, Lock!Init, Lock!None
<1>1. ControlTypes /\ ChatsHold /\ RequestsHold /\ OneHolder
  BY DEF ControlTypes, AgentTypeOK, ChatStep, Outcome, Workers, WorkerStep,
         EntryState, MaybeConversation, Answer, ChatsHold, RequestsHold,
         OneHolder, InTurn, InAgentTurn
<1>2. CallShape /\ RequestShape /\ TransactionShape
  BY DEF CallShape, RequestShape, TransactionShape, InTransaction, Closing,
         Workers
<1>3. /\ CallEntries /\ WorkerEntries /\ CancelExcludesRun
      /\ WithdrawnLeavesNothing /\ ApprovalIsNotLost
  BY DEF CallEntries, WorkerEntries, CancelExcludesRun, InTransaction,
         Closing, Workers, Executing, WithdrawnLeavesNothing,
         ApprovalIsNotLost
<1> QED
  BY <1>1, <1>2, <1>3 DEF Control

-----------------------------------------------------------------------------
(* How a step may move, and when it may write *)

\* A chat that has had its chance to write, and one that has no other.
Past == {"reading", "priming", "streaming", "saving", "saved", "closing", "done"}

Answered == {"saved", "closing", "done"}

\* Where a worker may still report the outcome of its call.
Reporting == {"dispatching", "recording", "recording_error", "cancel_recording"}

ChatsMove ==
  \A t \in Chats :
     /\ pc[t] # "idle" => pc'[t] # "idle" /\ target'[t] = target[t]
     /\ pc[t] \in Past
        => pc'[t] \in Past /\ (pc'[t] \in InTurn => pc[t] \in InTurn)
     /\ pc[t] \in Answered => pc'[t] \in Answered
     /\ pc'[t] = "idle" => outcome'[t] = outcome[t]
     /\ outcome[t] = "left" => outcome'[t] = "left"
     /\ outcome'[t] = "complete" => outcome[t] = "complete" \/ pc[t] = "saved"
     /\ pc'[t] = "reading"
        => \/ pc[t] = "reading"
           \/ pc[t] = "appending" /\ AddFact(target[t], "user", t)
     /\ pc'[t] = "saved"
        => \/ pc[t] = "saved"
           \/ pc[t] = "saving" /\ AddFact(target[t], "assistant", t)
     /\ \/ context'[t] = context[t]
        \/ pc[t] = "reading" /\ context'[t] = Window(t)

AgentsMove ==
  /\ \A k \in Calls :
        /\ at[k] # "idle" => at'[k] # "idle" /\ room'[k] = room[k]
        /\ pending[k] = "consumed" => pending'[k] = "consumed"
        /\ runs'[k] # runs[k]
           => \E r \in Requests : at[r] = "dispatching" /\ subject[r] = k
  /\ \A w \in Workers :
        /\ at[w] # "idle" => subject'[w] = subject[w] /\ at'[w] # "idle"
        /\ at'[w] \in Executing \cup Reporting => at[w] # "idle"
        /\ at'[w] \in Executing
           => at[w] \in Executing \/ pending[subject[w]] = "live"
        /\ at'[w] \in Reporting
           => at[w] \in Reporting \/ pending[subject[w]] = "live"
        /\ at'[w] \in {"continuing", "answering"}
           => \/ at[w] \in {"continuing", "answering"}
              \/ AddFact(room[subject[w]], "agent_result", subject[w])
        /\ answer'[w] = "completed"
           => \/ answer[w] = "completed"
              \/ /\ at[w] = "answering"
                 /\ AddFact(room[subject[w]], "assistant", subject[w])

\* The six kinds of write, each with the position that allows it.
ChatWrites ==
  \E t \in Chats :
     \/ /\ pc[t] = "appending" /\ pc'[t] \in {"reading", "closing"}
        /\ AddFact(target[t], "user", t)
     \/ /\ pc[t] = "saving" /\ pc'[t] \in {"saved", "closing"}
        /\ AddFact(target[t], "assistant", t)

PreparationWrites ==
  \E k \in Calls, kind \in {"user", "agent_call"} :
     at[k] # "idle" /\ AddFact(room[k], kind, k)

TurnWrites ==
  \E r \in Requests :
     \/ /\ at[r] = "recording" /\ at'[r] = "continuing"
        /\ AddFact(room[subject[r]], "agent_result", subject[r])
     \/ /\ at[r] = "recording_error" /\ at'[r] = "releasing"
        /\ AddFact(room[subject[r]], "agent_error", subject[r])
     \/ /\ at[r] = "answering" /\ at'[r] = "releasing"
        /\ AddFact(room[subject[r]], "assistant", subject[r])

CancelWrites ==
  \E w \in Workers :
     /\ at[w] = "cancel_recording" /\ at'[w] = "done"
     /\ AddFact(room[subject[w]], "agent_cancelled", subject[w])

Moves ==
  /\ ChatsMove
  /\ AgentsMove
  /\ \/ log' = log
     \/ ChatWrites /\ UNCHANGED agentVars
     \/ (PreparationWrites \/ TurnWrites \/ CancelWrites) /\ UNCHANGED chatVars

LEMMA ChatMoves ==
  ASSUME Control, context \in [Chats -> SUBSET Nat],
         ChatNext, UNCHANGED agentVars
  PROVE  Moves
<1> USE ChatAssumption
<1>1. PICK t \in Chats : \/ \E c \in Conversations : ChatStart(t, c)
                         \/ ChatProgress(t)
                         \/ ChatCancel(t)
                         \/ ChatLeave(t)
  BY DEF ChatNext
<1>2. AgentsMove
  BY DEF AgentsMove, agentVars, Executing, Reporting
<1>3. ChatsMove /\ (log' = log \/ ChatWrites)
  <2> USE DEF Control, ControlTypes, ChatsHold, ChatStep, Outcome, InTurn, Past, Answered,
              ChatsMove, ChatWrites, factVars, Goto, CloseWith
  <2>1. ASSUME NEW c \in Conversations, ChatStart(t, c)
        PROVE  ChatsMove /\ log' = log
    BY <2>1 DEF ChatStart
  <2>2. CASE ChatResolve(t)
    BY <2>2 DEF ChatResolve, Lock!Request
  <2>3. CASE ChatEnter(t)
    BY <2>3 DEF ChatEnter, Lock!Enter, Lock!Free
  <2>4. CASE ChatAppendUser(t)
    BY <2>4 DEF ChatAppendUser
  <2>5. CASE ChatReadContext(t)
    BY <2>5 DEF ChatReadContext
  <2>6. CASE ChatPrime(t)
    BY <2>6 DEF ChatPrime
  <2>7. CASE ChatStreamEnds(t)
    BY <2>7 DEF ChatStreamEnds
  <2>8. CASE ChatTimeout(t)
    BY <2>8 DEF ChatTimeout, ChatUnwind
  <2>9. CASE ChatSave(t)
    BY <2>9 DEF ChatSave
  <2>10. CASE ChatComplete(t)
    BY <2>10 DEF ChatComplete
  <2>11. CASE ChatClose(t)
    BY <2>11 DEF ChatClose, Lock!Leave
  <2>12. CASE ChatCancel(t)
    BY <2>12 DEF ChatCancel, ChatUnwind, Lock!Withdraw
  <2>13. CASE ChatLeave(t)
    BY <2>13 DEF ChatLeave, Lock!Leave
  <2> QED
    BY <1>1, <2>1, <2>2, <2>3, <2>4, <2>5, <2>6, <2>7, <2>8, <2>9, <2>10,
       <2>11, <2>12, <2>13 DEF ChatProgress
<1> QED
  BY <1>2, <1>3 DEF Moves

LEMMA AgentMoves ==
  ASSUME Control, AgentNext, UNCHANGED chatVars
  PROVE  Moves
<1> USE AgentAssumption
<1>1. ChatsMove
  BY DEF ChatsMove, chatVars, Control, ControlTypes, ChatStep, Past, Answered
<1> USE DEF Control, ControlTypes, AgentTypeOK, factVars,
            Workers, WorkerStep, CancelStep, ConfirmStep, PrepareStep, EntryState, Answer,
            CallShape, RequestShape, TransactionShape, WorkerEntries,
            InTransaction, Closing, Executing, Reporting, MoveTo, Tell, Consume, 
            Transaction, EndTransaction, AgentsMove
<1>2. ASSUME NEW k \in Calls,
             \/ \E c \in Conversations : Recognize(k, c)
             \/ PrepareProgress(k) \/ PrepareAbandon(k)
             \/ ExpireProposal(k) \/ ExpirePending(k)
      PROVE  AgentsMove /\ (log' = log \/ PreparationWrites)
  <2>1. CASE \E c \in Conversations : Recognize(k, c)
    BY <2>1 DEF Recognize
  <2>2. CASE PrepareMessage(k) \/ PrepareCallEvent(k)
    BY <2>2 DEF PrepareMessage, PrepareCallEvent, PrepareFact, PreparationWrites
  <2>3. CASE PreparePending(k) \/ PrepareReturn(k) \/ PrepareAbandon(k)
    BY <2>3 DEF PreparePending, PrepareReturn, PrepareAbandon, CallEntries
  <2>4. CASE ExpireProposal(k) \/ ExpirePending(k)
    BY <2>4 DEF ExpireProposal, ExpirePending
  <2> QED
    BY <1>2, <2>1, <2>2, <2>3, <2>4 DEF PrepareProgress
<1>3. ASSUME NEW w \in Workers, CancelProgress(w)
      PROVE  AgentsMove /\ (log' = log \/ CancelWrites)
  <2>1. CASE CancelBegin(w)
    BY <2>1 DEF CancelBegin
  <2>2. CASE CancelClose(w)
    BY <2>2 DEF CancelClose
  <2>3. CASE CancelRecord(w)
    BY <2>3 DEF CancelRecord, CancelWrites
  <2> QED
    BY <1>3, <2>1, <2>2, <2>3 DEF CancelProgress
<1>4. ASSUME NEW r \in Requests,
             \/ \E k \in Calls : ConfirmAgent(r, k)
             \/ ConfirmProgress(r) \/ ConfirmAbandon(r)
      PROVE  AgentsMove /\ (log' = log \/ TurnWrites)
  <2>1. ASSUME NEW k \in Calls, ConfirmAgent(r, k)
        PROVE  AgentsMove /\ log' = log
    BY <2>1 DEF ConfirmAgent
  <2>2. CASE ConfirmFallback(r)
    BY <2>2 DEF ConfirmFallback
  <2>3. CASE ConfirmAbandon(r)
    BY <2>3 DEF ConfirmAbandon
  <2>4. CASE ConfirmEnter(r)
    BY <2>4 DEF ConfirmEnter
  <2>5. CASE ConfirmBegin(r)
    BY <2>5 DEF ConfirmBegin
  <2>6. CASE ConfirmClose(r)
    BY <2>6 DEF ConfirmClose
  <2>7. CASE Dispatch(r)
    BY <2>7 DEF Dispatch
  <2>8. CASE RecordResult(r)
    BY <2>8 DEF RecordResult, TurnWrites
  <2>9. CASE RecordError(r)
    BY <2>9 DEF RecordError, TurnWrites
  <2>10. CASE Continue(r)
    BY <2>10 DEF Continue
  <2>11. CASE WriteAnswer(r)
    BY <2>11 DEF WriteAnswer, TurnWrites
  <2>12. CASE ReleaseTurn(r)
    BY <2>12 DEF ReleaseTurn
  <2> QED
    BY <1>4, <2>1, <2>2, <2>3, <2>4, <2>5, <2>6, <2>7, <2>8, <2>9, <2>10,
       <2>11, <2>12 DEF ConfirmProgress
<1> QED
  BY <1>1, <1>2, <1>3, <1>4 DEF AgentNext, Moves

LEMMA EveryStepMoves ==
  ASSUME Control, context \in [Chats -> SUBSET Nat], [Next]_vars
  PROVE  Moves
<1>1. CASE UNCHANGED vars
  BY <1>1 DEF vars, factVars, chatVars, agentVars, Moves, ChatsMove, AgentsMove,
              Executing, Reporting
<1>2. CASE Restart
  BY <1>2, AgentAssumption
     DEF Restart, Lost, Moves, ChatsMove, AgentsMove, Control, ControlTypes,
         AgentTypeOK, Past, Answered, ChatStep, Executing, Reporting, InTurn,
         Workers
<1> QED
  BY <1>1, <1>2, ChatMoves, AgentMoves DEF Next

-----------------------------------------------------------------------------
(* What adding a fact does to a log *)

\* Where the new fact goes.
End(c) == Len(log[c]) + 1

Extended(c, kind, by) ==
  /\ \A d \in Conversations : \A i \in DOMAIN log[d] :
        i \in DOMAIN log'[d] /\ log'[d][i] = log[d][i]
  /\ \A d \in Conversations : \A i \in DOMAIN log'[d] :
        i \in DOMAIN log[d] \/ (d = c /\ i = End(c))
  /\ End(c) \in DOMAIN log'[c]
  /\ End(c) \notin DOMAIN log[c]
  /\ End(c) \in Nat
  /\ log'[c][End(c)] = Fact(kind, by)
  /\ \A i \in DOMAIN log[c] : i \in Nat /\ i < End(c)

LEMMA FactAdded ==
  ASSUME LogType, NEW c \in Conversations, NEW kind \in Kind,
         NEW by \in Chats \cup Calls, AddFact(c, kind, by)
  PROVE  LogType' /\ Extended(c, kind, by)
<1>1. log[c] \in Seq(FactType) /\ Fact(kind, by) \in FactType
  BY DEF LogType, FactType, Fact
<1>2. /\ log' \in [Conversations -> Seq(FactType)]
      /\ log'[c] = Append(log[c], Fact(kind, by))
      /\ \A d \in Conversations : d # c => log'[d] = log[d]
  BY <1>1 DEF AddFact, LogType
<1>3. /\ Len(log[c]) \in Nat
      /\ DOMAIN log[c] = 1 .. Len(log[c])
      /\ DOMAIN log'[c] = 1 .. (Len(log[c]) + 1)
      /\ \A i \in 1 .. Len(log[c]) : log'[c][i] = log[c][i]
      /\ log'[c][Len(log[c]) + 1] = Fact(kind, by)
  BY <1>1, <1>2
<1>4. LogType'
  BY <1>2 DEF LogType
<1>5. ASSUME NEW d \in Conversations
      PROVE  /\ \A i \in DOMAIN log[d] : i \in DOMAIN log'[d] /\ log'[d][i] = log[d][i]
             /\ \A i \in DOMAIN log'[d] :
                   i \in DOMAIN log[d] \/ (d = c /\ i = End(c))
  <2>1. CASE d = c
    BY <2>1, <1>3 DEF End
  <2>2. CASE d # c
    BY <2>2, <1>2
  <2> QED
    BY <2>1, <2>2
<1>6. /\ End(c) \in DOMAIN log'[c]
      /\ End(c) \notin DOMAIN log[c]
      /\ End(c) \in Nat
      /\ log'[c][End(c)] = Fact(kind, by)
      /\ \A i \in DOMAIN log[c] : i \in Nat /\ i < End(c)
  BY <1>3 DEF End
<1> QED
  BY <1>4, <1>5, <1>6 DEF Extended

LEMMA PositionsAreNumbers ==
  ASSUME LogType, NEW c \in Conversations, NEW i \in DOMAIN log[c]
  PROVE  /\ i \in Nat
         /\ log[c][i].kind \in Kind
         /\ log[c][i].by \in Chats \cup Calls
         /\ log[c][i] = Fact(log[c][i].kind, log[c][i].by)
<1>1. log[c] \in Seq(FactType)
  BY DEF LogType
<1>2. i \in Nat /\ log[c][i] \in FactType
  BY <1>1
<1> QED
  BY <1>2 DEF FactType, Fact

LEMMA RecordedStays ==
  ASSUME NEW c \in Conversations, NEW kind, NEW by, Recorded(c, kind, by),
         \A i \in DOMAIN log[c] : i \in DOMAIN log'[c] /\ log'[c][i] = log[c][i]
  PROVE  Recorded(c, kind, by)'
BY DEF Recorded

\* Who writes what where, and from which position.
Licence(c, kind, by) ==
  \/ /\ by \in Chats /\ c = target[by]
     /\ \/ /\ kind = "user" /\ pc[by] = "appending"
           /\ pc'[by] \in {"reading", "closing"}
        \/ /\ kind = "assistant" /\ pc[by] = "saving"
           /\ pc'[by] \in {"saved", "closing"}
  \/ /\ by \in Calls /\ c = room[by] /\ at[by] # "idle"
     /\ kind \in {"user", "agent_call"}
  \/ /\ by \in Calls /\ c = room[by]
     /\ \E r \in Requests :
           /\ subject[r] = by
           /\ \/ /\ kind = "agent_result" /\ at[r] = "recording"
                 /\ at'[r] = "continuing"
              \/ /\ kind = "agent_error" /\ at[r] = "recording_error"
                 /\ at'[r] = "releasing"
              \/ /\ kind = "assistant" /\ at[r] = "answering"
                 /\ at'[r] = "releasing"
  \/ /\ by \in Calls /\ c = room[by]
     /\ kind = "agent_cancelled"
     /\ \E w \in Workers : /\ subject[w] = by /\ at[w] = "cancel_recording"
                           /\ at'[w] = "done"

LEMMA Licensed ==
  ASSUME Control, LogType, Moves, log' # log
  PROVE  /\ LogType'
         /\ \E c \in Conversations, kind \in Kind, by \in Chats \cup Calls :
               Extended(c, kind, by) /\ Licence(c, kind, by)
<1> USE DEF Control, ControlTypes, Kind
<1>1. ASSUME NEW c \in Conversations, NEW kind \in Kind, NEW by \in Chats \cup Calls,
             AddFact(c, kind, by), Licence(c, kind, by)
      PROVE  /\ LogType'
             /\ \E d \in Conversations, k \in Kind, b \in Chats \cup Calls :
                   Extended(d, k, b) /\ Licence(d, k, b)
  BY <1>1, FactAdded
<1>2. CASE ChatWrites
  BY <1>1, <1>2 DEF ChatWrites, ChatsHold, Licence
<1>3. CASE PreparationWrites
  BY <1>1, <1>3 DEF PreparationWrites, CallShape, Licence
<1>4. CASE TurnWrites
  <2>1. \A r \in Requests : at[r] # "idle" =>
            subject[r] \in Calls /\ room[subject[r]] \in Conversations
    BY DEF RequestShape, CallShape
  <2> QED
    BY <1>1, <1>4, <2>1 DEF TurnWrites, Licence
<1>5. CASE CancelWrites
  <2>1. \A w \in Workers : at[w] # "idle" =>
            subject[w] \in Calls /\ room[subject[w]] \in Conversations
    BY DEF RequestShape, CallShape, Workers
  <2> QED
    BY <1>1, <1>5, <2>1 DEF CancelWrites, Licence
<1> QED
  BY <1>2, <1>3, <1>4, <1>5 DEF Moves

\* In a conversation only one turn may write at a time.
Place(x) == IF x \in Chats THEN target[x] ELSE room[x]

LEMMA OneWriter ==
  ASSUME Control, NEW x \in Chats \cup Calls, NEW y \in Chats \cup Calls,
         MayWrite(x), MayWrite(y), Place(x) = Place(y)
  PROVE  x = y
<1> USE FactsAssumption, ChatAssumption, AgentAssumption, DialogueAssumption
<1> USE DEF Control
<1>1. ASSUME NEW z \in Chats \cup Calls, MayWrite(z)
      PROVE  \E h \in Turns :
                /\ holding[h] = Place(z) /\ Place(z) \in Conversations
                /\ h \in Chats => z = h
                /\ h \in Requests => z = subject[h]
                /\ h \in Chats \/ h \in Requests
  <2>1. CASE z \in Chats
    <3>1. pc[z] \in InTurn /\ outcome[z] # "left"
      <4>1. \A r \in Requests : at[r] \in Executing => subject[r] \in Calls
        BY DEF RequestShape, Executing
      <4> QED
        BY <1>1, <2>1, <4>1 DEF MayWrite, Left
    <3> QED
      BY <2>1, <3>1 DEF ChatsHold, InTurn, Place
  <2>2. CASE z \notin Chats
    <3>1. PICK r \in Requests : at[r] \in Executing /\ subject[r] = z
      BY <1>1, <2>2 DEF MayWrite
    <3>2. holding[r] = room[z] /\ room[z] \in Conversations
      BY <3>1 DEF RequestsHold, Executing, InAgentTurn, RequestShape, CallShape
    <3> QED
      BY <2>2, <3>1, <3>2 DEF Place
  <2> QED
    BY <2>1, <2>2
<1>2. PICK h \in Turns : /\ holding[h] = Place(x) /\ Place(x) \in Conversations
                         /\ h \in Chats => x = h
                         /\ h \in Requests => x = subject[h]
                         /\ h \in Chats \/ h \in Requests
  BY <1>1
<1>3. PICK g \in Turns : /\ holding[g] = Place(y)
                         /\ g \in Chats => y = g
                         /\ g \in Requests => y = subject[g]
                         /\ g \in Chats \/ g \in Requests
  BY <1>1
<1>4. h = g
  BY <1>2, <1>3 DEF OneHolder
<1> QED
  BY <1>2, <1>3, <1>4

-----------------------------------------------------------------------------
(* Told is kept *)

\* A log after a step: what was there, and perhaps one licensed fact.
LEMMA LogAfter ==
  ASSUME Control, LogType, Moves
  PROVE  /\ LogType'
         /\ \A d \in Conversations : \A i \in DOMAIN log[d] :
               i \in DOMAIN log'[d] /\ log'[d][i] = log[d][i]
         /\ \A d \in Conversations : \A i \in DOMAIN log'[d] :
               \/ i \in DOMAIN log[d] /\ log'[d][i] = log[d][i]
               \/ /\ i \notin DOMAIN log[d]
                  /\ Licence(d, log'[d][i].kind, log'[d][i].by)
                  /\ i \in Nat
                  /\ \A j \in DOMAIN log[d] : j \in Nat /\ j < i
                  /\ \A e \in Conversations : \A j \in DOMAIN log'[e] :
                        j \in DOMAIN log[e] \/ (e = d /\ j = i)
<1>1. CASE log' = log
  BY <1>1 DEF LogType
<1>2. CASE log' # log
  <2>1. PICK c \in Conversations, kind \in Kind, by \in Chats \cup Calls :
           Extended(c, kind, by) /\ Licence(c, kind, by)
    BY <1>2, Licensed
  <2>2. Fact(kind, by).kind = kind /\ Fact(kind, by).by = by
    BY DEF Fact
  <2> QED
    BY <1>2, <2>1, <2>2, Licensed DEF Extended
<1> QED
  BY <1>1, <1>2

LEMMA ChatFactsKept ==
  ASSUME IInv, Moves
  PROVE  ChatFacts'
<1> USE DEF IInv, Told, Control
<1> SUFFICES ASSUME NEW c \in Conversations, NEW i \in DOMAIN log'[c],
                    log'[c][i].by \in Chats
             PROVE  /\ c = target'[log'[c][i].by]
                    /\ log'[c][i].kind \in MessageKind
                    /\ pc'[log'[c][i].by] \in Past
                    /\ log'[c][i].kind = "assistant"
                       => pc'[log'[c][i].by] \in {"saved", "closing", "done"}
  BY DEF ChatFacts, Past
<1>1. CASE i \in DOMAIN log[c] /\ log'[c][i] = log[c][i]
  <2>1. pc[log[c][i].by] \in Past
    BY <1>1 DEF ChatFacts, Past, ControlTypes, ChatStep
  <2> QED
    BY <1>1, <2>1 DEF ChatFacts, Moves, ChatsMove, Past, Answered
<1>2. CASE Licence(c, log'[c][i].kind, log'[c][i].by)
  BY <1>2, ChatAssumption, AgentAssumption
     DEF Licence, Moves, ChatsMove, MessageKind, Past
<1> QED
  BY <1>1, <1>2, LogAfter

LEMMA CallFactsKept ==
  ASSUME IInv, Moves
  PROVE  CallFacts'
<1> USE DEF IInv, Told, Control
<1> SUFFICES ASSUME NEW c \in Conversations, NEW i \in DOMAIN log'[c],
                    log'[c][i].by \in Calls
             PROVE  /\ c = room'[log'[c][i].by]
                    /\ at'[log'[c][i].by] # "idle"
                    /\ log'[c][i].kind \in OutcomeKind \cup {"assistant"}
                       => pending'[log'[c][i].by] = "consumed"
                    /\ log'[c][i].kind = "agent_cancelled"
                       => runs'[log'[c][i].by] = 0
  BY DEF CallFacts
<1> DEFINE k == log'[c][i].by
<1>1. CASE i \in DOMAIN log[c] /\ log'[c][i] = log[c][i]
  <2>1. /\ c = room'[k] /\ at'[k] # "idle"
        /\ log'[c][i].kind \in OutcomeKind \cup {"assistant"}
                       => pending'[k] = "consumed"
    BY <1>1 DEF CallFacts, Moves, AgentsMove
  <2>2. ASSUME log'[c][i].kind = "agent_cancelled"
        PROVE  runs'[k] = 0
    <3>1. runs[k] = 0
      BY <1>1, <2>2 DEF CallFacts
    <3>2. \A r \in Requests : ~(at[r] = "dispatching" /\ subject[r] = k)
      BY <1>1, <2>2 DEF OutcomesOpen, OutcomeKind, Workers
    <3> QED
      BY <3>1, <3>2 DEF Moves, AgentsMove
  <2> QED
    BY <2>1, <2>2
<1>2. CASE Licence(c, log'[c][i].kind, log'[c][i].by)
  <2>1. c = room[k]
    BY <1>2, ChatAssumption, AgentAssumption DEF Licence
  <2>2. at[k] # "idle"
    BY <1>2, ChatAssumption, AgentAssumption
       DEF Licence, CallShape, RequestShape, Workers
  <2>3. log'[c][i].kind \in OutcomeKind \cup {"assistant"} => pending[k] = "consumed"
    BY <1>2, ChatAssumption, AgentAssumption
       DEF Licence, WorkerEntries, Executing, Workers, OutcomeKind
  <2>4. log'[c][i].kind = "agent_cancelled" => runs'[k] = 0
    <3>1. ASSUME log'[c][i].kind = "agent_cancelled"
          PROVE  runs'[k] = 0
      <4>1. PICK w \in Workers : subject[w] = k /\ at[w] = "cancel_recording"
        BY <1>2, <3>1, ChatAssumption, AgentAssumption DEF Licence
      <4>2. runs[k] = 0
        BY <4>1 DEF WorkerEntries
      <4>3. \A r \in Requests : ~(at[r] = "dispatching" /\ subject[r] = k)
        BY <4>1 DEF CancelExcludesRun, Executing
      <4> QED
        BY <4>2, <4>3 DEF Moves, AgentsMove
    <3> QED
      BY <3>1
  <2> QED
    BY <2>1, <2>2, <2>3, <2>4 DEF Moves, AgentsMove
<1> QED
  BY <1>1, <1>2, LogAfter

LEMMA OneExecutor ==
  ASSUME Control, NEW q \in Requests, NEW r \in Requests,
         at[q] \in Executing, at[r] \in Executing, subject[q] = subject[r]
  PROVE  q = r
<1>1. holding[q] = room[subject[q]] /\ holding[r] = room[subject[r]]
  BY DEF Control, RequestsHold, Executing, InAgentTurn
<1>2. room[subject[q]] # NoConversation
  BY FactsAssumption DEF Control, RequestShape, CallShape, Executing
<1> QED
  BY <1>1, <1>2, AgentAssumption DEF Control, OneHolder

LEMMA OutcomesOpenKept ==
  ASSUME IInv, Moves
  PROVE  OutcomesOpen'
<1> USE DEF IInv, Told, Control
<1> SUFFICES ASSUME NEW c \in Conversations, NEW i \in DOMAIN log'[c],
                    NEW w \in Workers,
                    log'[c][i].kind \in OutcomeKind,
                    log'[c][i].by = subject'[w],
                    \/ at'[w] \in Reporting
                    \/ log'[c][i].kind = "agent_cancelled" /\ at'[w] \in Executing
             PROVE  FALSE
  BY DEF OutcomesOpen, Reporting
<1> DEFINE k == subject[w]
<1>1. /\ at[w] # "idle" /\ subject'[w] = k
      /\ at'[w] \in Reporting => at[w] \in Reporting \/ pending[k] = "live"
      /\ at'[w] \in Executing => at[w] \in Executing \/ pending[k] = "live"
  BY DEF Moves, AgentsMove
<1>2. k \in Calls
  BY <1>1 DEF CallShape, RequestShape, Workers
<1>3. CASE i \in DOMAIN log[c] /\ log'[c][i] = log[c][i]
  <2>1. pending[k] = "consumed"
    BY <1>1, <1>2, <1>3 DEF CallFacts
  <2> QED
    BY <1>1, <1>3, <2>1 DEF OutcomesOpen, Reporting
<1>4. CASE Licence(c, log'[c][i].kind, log'[c][i].by)
  <2> USE ChatAssumption, AgentAssumption
  <2>0. /\ at[w] \in Executing => w \in Requests
        /\ at[w] \in Reporting => at[w] \in Executing \/ at[w] = "cancel_recording"
    BY DEF CallShape, Executing, Workers, Reporting, PrepareStep, CancelStep
  <2>1. CASE log'[c][i].kind = "agent_cancelled"
    <3>1. PICK v \in Workers : /\ subject[v] = k /\ at[v] = "cancel_recording"
                               /\ at'[v] = "done"
      BY <1>1, <1>2, <1>4, <2>1 DEF Licence
    <3>2. pending[k] = "consumed" /\ v # w
      BY <3>1 DEF WorkerEntries, Reporting, Executing
    <3>3. at[w] # "cancel_recording"
      BY <3>1, <3>2 DEF TransactionShape, InTransaction
    <3>4. at[w] \notin Executing
      BY <2>0, <3>1 DEF CancelExcludesRun
    <3> QED
      BY <1>1, <2>0, <3>2, <3>3, <3>4
  <2>2. CASE log'[c][i].kind # "agent_cancelled"
    <3>1. PICK r \in Requests : /\ subject[r] = k /\ at[r] \in Executing
                                /\ at'[r] \in {"continuing", "releasing"}
      BY <1>1, <1>2, <1>4, <2>2 DEF Licence, OutcomeKind, Executing
    <3>2. pending[k] = "consumed" /\ r # w
      BY <2>2, <3>1 DEF WorkerEntries, Reporting, Workers
    <3>3. at[w] # "cancel_recording"
      BY <3>1 DEF CancelExcludesRun
    <3>4. at[w] \notin Executing
      BY <2>0, <3>1, <3>2, OneExecutor
    <3> QED
      BY <1>1, <2>0, <2>2, <3>2, <3>3, <3>4
  <2> QED
    BY <2>1, <2>2
<1> QED
  BY <1>3, <1>4, LogAfter

LEMMA OneOutcomeKept ==
  ASSUME IInv, Moves
  PROVE  OneOutcome'
<1> USE DEF IInv, Told, Control
<1>1. ASSUME NEW c \in Conversations, NEW i \in DOMAIN log[c], NEW j \in DOMAIN log'[c],
             j \notin DOMAIN log[c],
             Licence(c, log'[c][j].kind, log'[c][j].by),
             log[c][i].kind \in OutcomeKind, log'[c][j].kind \in OutcomeKind,
             log[c][i].by = log'[c][j].by
      PROVE  FALSE
  <2>1. PICK w \in Workers : subject[w] = log[c][i].by /\ at[w] \in Reporting
    BY <1>1 DEF Licence, OutcomeKind, Reporting, Workers, MessageKind
  <2> QED
    BY <1>1, <2>1 DEF OutcomesOpen, Reporting
<1> SUFFICES ASSUME NEW c \in Conversations,
                    NEW i \in DOMAIN log'[c], NEW j \in DOMAIN log'[c],
                    log'[c][i].kind \in OutcomeKind,
                    log'[c][j].kind \in OutcomeKind,
                    log'[c][i].by = log'[c][j].by,
                    log'[c][i].by \in Calls
             PROVE  i = j
  BY DEF OneOutcome
<1>2. CASE i \in DOMAIN log[c] /\ j \in DOMAIN log[c]
  BY <1>2, LogAfter DEF OneOutcome
<1>3. CASE i \notin DOMAIN log[c] \/ j \notin DOMAIN log[c]
  BY <1>1, <1>3, LogAfter
<1> QED
  BY <1>2, <1>3

LEMMA AskedFirstKept ==
  ASSUME IInv, Moves
  PROVE  AskedFirst'
<1> USE DEF IInv, Told, Control
<1> SUFFICES ASSUME NEW c \in Conversations,
                    NEW i \in DOMAIN log'[c], NEW j \in DOMAIN log'[c],
                    log'[c][i].by \in Chats,
                    log'[c][i].by = log'[c][j].by,
                    log'[c][i].kind = "user",
                    log'[c][j].kind = "assistant"
             PROVE  i < j
  BY DEF AskedFirst
<1>1. CASE i \in DOMAIN log[c] /\ j \in DOMAIN log[c]
  BY <1>1, LogAfter DEF AskedFirst
<1>2. CASE i \in DOMAIN log[c] /\ j \notin DOMAIN log[c]
  BY <1>2, LogAfter
<1>3. CASE i \notin DOMAIN log[c]
  <2>1. /\ Licence(c, "user", log'[c][i].by)
        /\ j \in DOMAIN log[c] /\ log'[c][j] = log[c][j]
    BY <1>3, LogAfter
  <2>2. pc[log'[c][i].by] = "appending"
    BY <2>1, ChatAssumption, AgentAssumption DEF Licence
  <2> QED
    BY <2>1, <2>2 DEF ChatFacts
<1> QED
  BY <1>1, <1>2, <1>3

\* A lease fact is written by a turn that may write.
LEMMA LeaseFactIsAllowed ==
  ASSUME Control, NEW c, NEW kind, NEW by, Licence(c, kind, by),
         by \in Chats \/ kind \in {"agent_result", "agent_error", "assistant"},
         ~(kind = "assistant" /\ Left(by))
  PROVE  MayWrite(by) /\ c = Place(by) /\ by \in Chats \cup Calls
BY ChatAssumption, AgentAssumption
   DEF Licence, MayWrite, Place, InTurn, Executing, Left, Control, ChatsHold

LEMMA LastWriterKept ==
  ASSUME IInv, Moves
  PROVE  LastWriter' /\ TurnsDoNotInterleave'
<1> USE DEF IInv, Told
<1> USE ChatAssumption, AgentAssumption
\* Whoever has written and may write after the step could write before it.
<1>1. ASSUME NEW c \in Conversations, NEW i \in DOMAIN log[c],
             NEW x, x = log[c][i].by,
             UnderLease(log[c][i]), MayWrite(x)'
      PROVE  MayWrite(x) /\ c = Place(x)
  <2>1. CASE x \in Chats
    <3>1. pc[x] \in Past /\ c = target[x]
      BY <1>1, <2>1 DEF ChatFacts, Past, Control, ControlTypes, ChatStep
    <3>2. pc'[x] \in InTurn /\ ~Left(x)'
      <4>1. \A r \in Requests : at'[r] \in Executing => subject'[r] \in Calls
        BY DEF Moves, AgentsMove, Control, RequestShape, Workers, Executing
      <4> QED
        BY <1>1, <2>1, <4>1 DEF MayWrite
    <3> QED
      BY <2>1, <3>1, <3>2 DEF Moves, ChatsMove, MayWrite, Place, Left
  <2>2. CASE x \notin Chats
    <3>1. x \in Calls /\ log[c][i].kind \in {"agent_result", "agent_error", "assistant"}
      BY <1>1, <2>2, PositionsAreNumbers DEF UnderLease
    <3>2. pending[x] = "consumed" /\ c = room[x]
      BY <1>1, <3>1 DEF CallFacts, OutcomeKind
    <3>3. PICK r \in Requests : at'[r] \in Executing /\ subject'[r] = x
      BY <1>1, <2>2 DEF MayWrite
    <3>4. at[r] \in Executing /\ subject[r] = x
      BY <3>2, <3>3 DEF Moves, AgentsMove, Workers
    <3> QED
      BY <2>2, <3>2, <3>4 DEF MayWrite, Place
  <2> QED
    BY <2>1, <2>2
<1>2. ASSUME NEW c \in Conversations, NEW i \in DOMAIN log[c], NEW m \in DOMAIN log'[c],
             m \notin DOMAIN log[c], UnderLease(log[c][i]), UnderLease(log'[c][m]),
             MayWrite(log[c][i].by), c = Place(log[c][i].by)
      PROVE  log'[c][m].by = log[c][i].by
  <2>1. MayWrite(log'[c][m].by) /\ c = Place(log'[c][m].by) /\ log'[c][m].by \in Chats \cup Calls
    BY <1>2, LogAfter, LeaseFactIsAllowed DEF UnderLease
  <2>2. log[c][i].by \in Chats \cup Calls
    BY PositionsAreNumbers
  <2> QED
    BY <1>2, <2>1, <2>2, OneWriter
\* A fact under the lock after the step was under the lock before it.
<1>lease. \A c \in Conversations : \A i \in DOMAIN log'[c] :
             UnderLease(log[c][i])' => UnderLease(log'[c][i])
  BY DEF UnderLease, Left, Moves, ChatsMove
<1>3. LastWriter'
  <2> SUFFICES ASSUME NEW c \in Conversations,
                      NEW i \in DOMAIN log'[c], NEW m \in DOMAIN log'[c],
                      NEW x, x = log'[c][i].by,
                      i < m, UnderLease(log'[c][i]), UnderLease(log'[c][m]),
                      MayWrite(x)'
               PROVE  log'[c][m].by = x
    BY <1>lease DEF LastWriter
  <2>1. i \in DOMAIN log[c] /\ log'[c][i] = log[c][i]
    <3>1. CASE i \notin DOMAIN log[c]
      <4>1. i \in Nat /\ m \in DOMAIN log[c] /\ m \in Nat /\ m < i
        BY <3>1, LogAfter
      <4> QED
        BY <4>1
    <3> QED
      BY <3>1, LogAfter
  <2>2. x = log[c][i].by /\ UnderLease(log[c][i])
    BY <2>1
  <2>3. MayWrite(x) /\ c = Place(x)
    BY <2>1, <2>2, <1>1
  <2>4. CASE m \in DOMAIN log[c]
    <3>1. log'[c][m] = log[c][m] /\ UnderLease(log[c][m])
      BY <2>4, LogAfter
    <3>2. MayWrite(log[c][i].by)
      BY <2>2, <2>3
    <3>3. LastWriter
      OBVIOUS
    <3> HIDE DEF IInv, Told
    <3>4. log[c][m].by = log[c][i].by
      BY <2>1, <2>2, <2>4, <3>1, <3>2, <3>3 DEF LastWriter
    <3> QED
      BY <2>2, <3>1, <3>4
  <2>5. CASE m \notin DOMAIN log[c]
    <3>1. MayWrite(log[c][i].by) /\ c = Place(log[c][i].by)
      BY <2>2, <2>3
    <3> HIDE DEF IInv, Told
    <3>2. log'[c][m].by = log[c][i].by
      BY <2>1, <2>2, <2>5, <3>1, <1>2
    <3> QED
      BY <2>2, <3>2
  <2> QED
    BY <2>4, <2>5
<1>4. TurnsDoNotInterleave'
  <2> SUFFICES ASSUME NEW c \in Conversations,
                      NEW i \in DOMAIN log'[c], NEW j \in DOMAIN log'[c],
                      NEW m \in DOMAIN log'[c],
                      i < m, m < j, UnderLease(log'[c][i]), UnderLease(log'[c][j]),
                      UnderLease(log'[c][m]), log'[c][i].by = log'[c][j].by
               PROVE  log'[c][m].by = log'[c][i].by
    BY <1>lease DEF TurnsDoNotInterleave
  <2>1. \A n \in DOMAIN log'[c] : n \in Nat
    BY LogAfter, PositionsAreNumbers
  <2>2. /\ i \in DOMAIN log[c] /\ log'[c][i] = log[c][i]
        /\ m \in DOMAIN log[c] /\ log'[c][m] = log[c][m]
    <3>1. \A n \in DOMAIN log'[c] : n \notin DOMAIN log[c] => j <= n
      BY <2>1, LogAfter
    <3> QED
      BY <2>1, <3>1, LogAfter
  <2>3. CASE j \in DOMAIN log[c]
    BY <2>2, <2>3, LogAfter DEF TurnsDoNotInterleave
  <2>4. CASE j \notin DOMAIN log[c]
    <3>1. MayWrite(log'[c][j].by)
      BY <2>4, LogAfter, LeaseFactIsAllowed DEF UnderLease
    <3> QED
      BY <2>2, <3>1 DEF LastWriter
  <2> QED
    BY <2>3, <2>4
<1> QED
  BY <1>3, <1>4

-----------------------------------------------------------------------------
(* The window of a context *)

LEMMA LeastNumber ==
  ASSUME NEW T, T \subseteq Nat, T # {}
  PROVE  \E x \in T : \A y \in T : x <= y
<1> DEFINE R == OpToRel(<, Nat)
<1>1. IsWellFoundedOn(R, Nat)
  BY NatLessThanWellFounded
<1>2. PICK x \in T : \A y \in T : ~(<<y, x>> \in R)
  <2> HIDE DEF R
  <2> QED
    BY <1>1, WFMin
<1>3. \A y \in T : ~(y < x)
  BY <1>2 DEF OpToRel
<1> QED
  BY <1>3

\* The newest n of a finite set of positions are at most n; with one of them
\* all later ones are there, and the last one is always there.
LEMMA NewestProperties ==
  ASSUME NEW S, S \subseteq Nat, IsFiniteSet(S), NEW n \in Nat \ {0}
  PROVE  /\ Newest(S, n) \subseteq S
         /\ Cardinality(Newest(S, n)) <= n
         /\ \A i \in Newest(S, n), j \in S : i <= j => j \in Newest(S, n)
         /\ \A i \in S : (\A j \in S : j <= i) => i \in Newest(S, n)
<1> DEFINE After(i) == {j \in S : i < j}
           W == Newest(S, n)
<1>1. W = {i \in S : Cardinality(After(i)) < n}
  BY DEF Newest
<1>2. \A i \in S : IsFiniteSet(After(i)) /\ Cardinality(After(i)) \in Nat
  BY FS_Subset, FS_CardinalityType
<1>0. \A i, j \in S : (j \in After(i) <=> i < j) /\ i \in Nat
  OBVIOUS
<1>w. W \subseteq S
  BY <1>1
<1>3. Cardinality(W) <= n
  <2>1. CASE W = {}
    BY <2>1, FS_EmptySet
  <2>2. CASE W # {}
    <3>1. PICK m \in W : \A i \in W : m <= i
      <4> HIDE DEF W
      <4>1. W \subseteq Nat
        BY <1>1
      <4> QED
        BY <2>2, <4>1, LeastNumber
    <3>2. m \in S /\ Cardinality(After(m)) < n
      BY <1>1
    <3>3. W \subseteq After(m) \cup {m}
      <4> HIDE DEF W, After
      <4> QED
        BY <1>0, <1>w, <3>1, <3>2
    <3>4. /\ IsFiniteSet(After(m) \cup {m})
          /\ Cardinality(After(m) \cup {m}) <= Cardinality(After(m)) + 1
          /\ Cardinality(After(m)) \in Nat
          /\ Cardinality(After(m) \cup {m}) \in Nat
      <4> HIDE DEF After
      <4>1. IsFiniteSet(After(m)) /\ Cardinality(After(m)) \in Nat
        BY <1>2, <3>2
      <4>2. /\ IsFiniteSet(After(m) \cup {m})
            /\ Cardinality(After(m) \cup {m}) =
                 IF m \in After(m) THEN Cardinality(After(m))
                                   ELSE Cardinality(After(m)) + 1
        BY <4>1, FS_AddElement
      <4> QED
        BY <4>1, <4>2
    <3>5. Cardinality(W) <= Cardinality(After(m) \cup {m}) /\ Cardinality(W) \in Nat
      <4> HIDE DEF After, W
      <4> QED
        BY <3>3, <3>4, FS_Subset, FS_CardinalityType
    <3> QED
      BY <3>2, <3>4, <3>5
  <2> QED
    BY <2>1, <2>2
<1>4. ASSUME NEW i \in W, NEW j \in S, i <= j
      PROVE  j \in W
  <2>1. After(j) \subseteq After(i) /\ i \in S
    <3>1. i \in S
      BY <1>w
    <3>2. \A x \in S : j < x => i < x
      BY <1>4, <3>1
    <3> QED
      BY <3>1, <3>2
  <2>2. Cardinality(After(j)) <= Cardinality(After(i))
    <3> HIDE DEF After
    <3> QED
      BY <1>2, <2>1, FS_Subset
  <2>3. Cardinality(After(i)) < n
    BY <1>1
  <2> QED
    <3> HIDE DEF After
    <3> QED
      BY <1>1, <1>2, <2>1, <2>2, <2>3
<1>5. ASSUME NEW i \in S, \A j \in S : j <= i
      PROVE  i \in W
  <2>1. After(i) = {}
    <3>1. \A j \in S : ~(i < j)
      BY <1>5
    <3> QED
      BY <3>1
  <2>2. Cardinality(After(i)) = 0
    <3> HIDE DEF After
    <3> QED
      BY <2>1, FS_EmptySet
  <2> QED
    BY <1>1, <2>2
<1> QED
  BY <1>1, <1>3, <1>4, <1>5

LEMMA ContextKept ==
  ASSUME IInv, Moves, context' \in [Chats -> SUBSET Nat]
  PROVE  ContextShape'
<1> USE DEF IInv, Told, Control
<1> SUFFICES ASSUME NEW t \in Chats
             PROVE  /\ Cardinality(context'[t]) <= MaxMessages
                    /\ context'[t] # {}
                       => /\ pc'[t] # "idle"
                          /\ context'[t] \subseteq Messages(target[t])'
                          /\ \E own \in context'[t] :
                                /\ log'[target'[t]][own] = Fact("user", t)
                                /\ \A i \in context'[t] : i <= own
                                /\ \A i \in context'[t], j \in Messages(target[t])' :
                                      i <= j /\ j <= own => j \in context'[t]
  BY DEF ContextShape
\* The shape before the step, of the old context or of a new window.
<1>1. ASSUME pc[t] # "idle", context'[t] \subseteq Messages(target[t]),
             NEW own \in context'[t],
             log[target[t]][own] = Fact("user", t),
             \A i \in context'[t] : i <= own,
             \A i \in context'[t], j \in Messages(target[t]) :
                i <= j /\ j <= own => j \in context'[t]
      PROVE  /\ pc'[t] # "idle"
             /\ context'[t] \subseteq Messages(target[t])'
             /\ log'[target'[t]][own] = Fact("user", t)
             /\ \A i \in context'[t] : i <= own
             /\ \A i \in context'[t], j \in Messages(target[t])' :
                   i <= j /\ j <= own => j \in context'[t]
  <2> DEFINE c == target[t]
  <2>1. c \in Conversations /\ target'[t] = c /\ pc'[t] # "idle"
    BY <1>1 DEF ChatsHold, Moves, ChatsMove
  <2>2. own \in DOMAIN log[c] /\ own \in Nat
    BY <1>1, <2>1, PositionsAreNumbers DEF Messages
  <2>3. \A i \in DOMAIN log[c] : i \in DOMAIN log'[c] /\ log'[c][i] = log[c][i]
    BY <2>1, LogAfter
  <2>4. \A j \in DOMAIN log'[c] : j <= own => j \in DOMAIN log[c]
    <3>1. \A j \in DOMAIN log'[c] : j \in DOMAIN log[c] \/ (j \in Nat /\ own < j)
      BY <2>1, <2>2, LogAfter
    <3> QED
      BY <2>2, <3>1
  <2>5. \A j \in DOMAIN log[c] : j \in Messages(c) <=> j \in Messages(c)'
    BY <2>3, <2>1 DEF Messages
  <2>6. Messages(target[t])' = {j \in DOMAIN log'[c] : log'[c][j].kind \in MessageKind}
    BY <2>1 DEF Messages
  <2>7. Messages(c) = {j \in DOMAIN log[c] : log[c][j].kind \in MessageKind}
    BY DEF Messages
  <2> QED
    BY <1>1, <2>1, <2>2, <2>3, <2>4, <2>6, <2>7
<1>2. CASE context'[t] = context[t]
  BY <1>1, <1>2 DEF ContextShape
<1>3. CASE pc[t] = "reading" /\ context'[t] = Window(t)
  <2> DEFINE c == target[t]
             own == CHOOSE i \in Messages(c) : log[c][i] = Fact("user", t)
             S == {i \in Messages(c) : i <= own}
  <2>1. c \in Conversations
    BY <1>3 DEF ChatsHold
  <2>2. own \in Messages(c) /\ log[c][own] = Fact("user", t)
    <3>1. \E i \in Messages(c) : log[c][i] = Fact("user", t)
      <4>1. PICK i \in DOMAIN log[c] : log[c][i] = Fact("user", t)
        BY <1>3 DEF ChatsRecorded, Recorded
      <4> QED
        BY <4>1 DEF Messages, MessageKind, Fact
    <3> QED
      BY <3>1
  <2>3. S \subseteq Nat /\ own \in Nat
    BY <2>1, <2>2, PositionsAreNumbers DEF Messages
  <2>4. own \in S /\ \A i \in S : i <= own
    <3> HIDE DEF own
    <3> QED
      BY <2>2, <2>3
  <2>5. IsFiniteSet(S)
    <3> HIDE DEF own, S
    <3> QED
      BY <2>3, <2>4, FS_BoundedSetOfNaturals
  <2>6. context'[t] = Newest(S, MaxMessages)
    BY <1>3 DEF Window
  <2>7. /\ Newest(S, MaxMessages) \subseteq S
        /\ Cardinality(Newest(S, MaxMessages)) <= MaxMessages
        /\ \A i \in Newest(S, MaxMessages), j \in S :
              i <= j => j \in Newest(S, MaxMessages)
        /\ own \in Newest(S, MaxMessages)
    <3> HIDE DEF own, S
    <3> QED
      BY <2>3, <2>4, <2>5, NewestProperties, ChatAssumption
  <2>8. /\ context'[t] \subseteq Messages(c)
        /\ own \in context'[t]
        /\ \A i \in context'[t] : i <= own
        /\ \A i \in context'[t], j \in Messages(c) :
              i <= j /\ j <= own => j \in context'[t]
    <3> HIDE DEF own
    <3> QED
      BY <2>4, <2>6, <2>7
  <2>9. pc[t] # "idle"
    BY <1>3
  <2> HIDE DEF own, S
  <2> QED
    BY <1>1, <2>2, <2>6, <2>7, <2>8, <2>9
<1> QED
  BY <1>2, <1>3 DEF Moves, ChatsMove

LEMMA ContextTyped ==
  ASSUME IInv, [Next]_vars
  PROVE  context' \in [Chats -> SUBSET Nat]
<1> USE DEF IInv, Told
<1>1. context \in [Chats -> SUBSET Nat]
  BY DEF ContextShape
<1>2. ASSUME NEW t \in Chats, ChatReadContext(t)
      PROVE  context' \in [Chats -> SUBSET Nat]
  <2>1. Window(t) \subseteq Messages(target[t])
    BY DEF Window, Newest
  <2>2. Messages(target[t]) \subseteq Nat
    BY <1>2, PositionsAreNumbers DEF ChatReadContext, Control, ChatsHold, Messages
  <2> QED
    BY <1>1, <1>2, <2>1, <2>2 DEF ChatReadContext
<1> QED
  BY <1>1, <1>2 DEF Next, vars, chatVars, Restart, ChatNext, ChatStart,
     ChatProgress, ChatResolve, ChatEnter, ChatAppendUser, ChatPrime,
     ChatStreamEnds, ChatTimeout, ChatUnwind, ChatSave, ChatComplete, ChatClose,
     ChatCancel, ChatLeave

LEMMA RecordsKept ==
  ASSUME IInv, Moves
  PROVE  ChatsRecorded' /\ ResultsRecorded' /\ SuccessIsStored'
<1> USE DEF IInv, Told, Control
\* A fact added in this step is recorded after it.
<1>1. ASSUME NEW c \in Conversations, NEW kind \in Kind, NEW by \in Chats \cup Calls,
             AddFact(c, kind, by)
      PROVE  /\ End(c) \in DOMAIN log'[c]
             /\ log'[c][End(c)] = Fact(kind, by)
             /\ \A i \in DOMAIN log[c] : i < End(c)
  BY <1>1, FactAdded DEF Extended
<1>2. \A d \in Conversations : \A i \in DOMAIN log[d] :
        i \in DOMAIN log'[d] /\ log'[d][i] = log[d][i]
  BY LogAfter
<1>3. ASSUME NEW t \in Chats, pc'[t] # "idle" \/ outcome'[t] = "complete"
      PROVE  /\ pc'[t] = "reading" => Recorded(target[t], "user", t)'
             /\ pc'[t] = "saved" => Recorded(target[t], "assistant", t)'
             /\ outcome'[t] = "complete" => Recorded(target[t], "assistant", t)'
  <2>1. CASE pc[t] = "idle"
    BY <2>1 DEF Moves, ChatsMove, ChatsRecorded, Recorded
  <2>2. CASE pc[t] # "idle"
    <3>1. target[t] \in Conversations /\ target'[t] = target[t]
      BY <2>2 DEF ChatsHold, Moves, ChatsMove
    <3>2. \A kind \in Kind : Recorded(target[t], kind, t)
             => \E i \in DOMAIN log'[target[t]] : log'[target[t]][i] = Fact(kind, t)
      BY <1>2, <3>1 DEF Recorded
    <3>3. \A kind \in Kind : AddFact(target[t], kind, t)
             => \E i \in DOMAIN log'[target[t]] : log'[target[t]][i] = Fact(kind, t)
      BY <1>1, <3>1
    <3>4. /\ pc'[t] = "reading" => Recorded(target[t], "user", t) \/ AddFact(target[t], "user", t)
          /\ pc'[t] = "saved" => Recorded(target[t], "assistant", t) \/ AddFact(target[t], "assistant", t)
          /\ outcome'[t] = "complete" => Recorded(target[t], "assistant", t)
      BY DEF Moves, ChatsMove, ChatsRecorded, SuccessIsStored
    <3> QED
      BY <3>1, <3>2, <3>3, <3>4 DEF Recorded, Kind
  <2> QED
    BY <2>1, <2>2
<1>4. ChatsRecorded'
  BY <1>3 DEF ChatsRecorded, Moves, ChatsMove
<1>5. ASSUME NEW r \in Requests, at[r] # "idle"
      PROVE  LET k == subject[r] IN
             /\ k \in Calls /\ subject'[r] = k
             /\ room[k] \in Conversations /\ room'[k] = room[k]
  BY <1>5 DEF RequestShape, CallShape, Moves, AgentsMove, Workers
<1>6. ASSUME NEW r \in Requests, at'[r] \in {"continuing", "answering"}
      PROVE  Recorded(room[subject[r]], "agent_result", subject[r])'
  <2>1. at[r] # "idle"
    BY <1>6 DEF Moves, AgentsMove, Workers, Executing
  <2> DEFINE k == subject[r]
  <2>2. Recorded(room[k], "agent_result", k) \/ AddFact(room[k], "agent_result", k)
    BY <1>6 DEF Moves, AgentsMove, Workers, ResultsRecorded
  <2>3. \E i \in DOMAIN log'[room[k]] : log'[room[k]][i] = Fact("agent_result", k)
    BY <1>1, <1>2, <1>5, <2>1, <2>2 DEF Recorded, Kind
  <2> QED
    BY <1>5, <2>1, <2>3 DEF Recorded
<1>7. ASSUME NEW r \in Requests, answer'[r] = "completed"
      PROVE  LET k == subject'[r]
             IN  \E i, j \in DOMAIN log'[room'[k]] :
                    /\ i < j
                    /\ log'[room'[k]][i] = Fact("agent_result", k)
                    /\ log'[room'[k]][j] = Fact("assistant", k)
  <2> DEFINE k == subject[r]
             c == room[k]
  <2>1. \/ answer[r] = "completed"
        \/ at[r] = "answering" /\ AddFact(c, "assistant", k)
    BY <1>7 DEF Moves, AgentsMove, Workers
  <2>2. at[r] # "idle"
    BY <2>1 DEF RequestShape
  <2>3. /\ k \in Calls /\ subject'[r] = k
        /\ c \in Conversations /\ room'[k] = c
    BY <1>5, <2>2
  <2>4. CASE answer[r] = "completed"
    <3>1. PICK i \in DOMAIN log[c], j \in DOMAIN log[c] :
             /\ i < j
             /\ log[c][i] = Fact("agent_result", k)
             /\ log[c][j] = Fact("assistant", k)
      BY <2>4 DEF SuccessIsStored
    <3> QED
      BY <1>2, <2>3, <3>1
  <2>5. CASE at[r] = "answering" /\ AddFact(c, "assistant", k)
    <3>1. PICK i \in DOMAIN log[c] : log[c][i] = Fact("agent_result", k)
      BY <2>5 DEF ResultsRecorded, Recorded
    <3>2. End(c) \in DOMAIN log'[c] /\ log'[c][End(c)] = Fact("assistant", k) /\ i < End(c)
      BY <1>1, <2>3, <2>5, <3>1 DEF Kind
    <3> QED
      BY <1>2, <2>3, <3>1, <3>2
  <2> QED
    BY <2>1, <2>4, <2>5
<1>8. SuccessIsStored'
  BY <1>3, <1>7 DEF SuccessIsStored
<1> QED
  BY <1>4, <1>6, <1>8 DEF ResultsRecorded

-----------------------------------------------------------------------------
(* The theorems *)

LEMMA InitTold ==
  ASSUME Init
  PROVE  Told
<1> USE DEF Init, FactsInit, ChatInit, AgentInit
<1>1. \A c \in Conversations : log[c] = <<>> /\ DOMAIN log[c] = {}
  OBVIOUS
<1>2. LogType
  BY DEF LogType
<1>3. /\ ChatFacts /\ CallFacts /\ OutcomesOpen /\ OneOutcome /\ AskedFirst
      /\ LastWriter /\ TurnsDoNotInterleave
  BY <1>1 DEF ChatFacts, CallFacts, OutcomesOpen, OneOutcome, AskedFirst,
     LastWriter, TurnsDoNotInterleave
<1>4. ChatsRecorded /\ ResultsRecorded /\ SuccessIsStored
  BY DEF ChatsRecorded, ResultsRecorded, SuccessIsStored, Workers
<1>5. ContextShape
  <2>1. Cardinality({}) = 0
    BY FS_EmptySet
  <2> QED
    BY <2>1, ChatAssumption DEF ContextShape
<1> QED
  BY <1>2, <1>3, <1>4, <1>5 DEF Told

LEMMA UnchangedTold ==
  ASSUME Told, UNCHANGED vars
  PROVE  Told'
<1> USE DEF vars, factVars, chatVars, agentVars, Told
<1>1. (LogType /\ ChatFacts /\ CallFacts /\ OutcomesOpen /\ OneOutcome /\ AskedFirst)'
  BY DEF LogType, ChatFacts, CallFacts, OutcomesOpen, OneOutcome, AskedFirst
<1>2. (LastWriter /\ TurnsDoNotInterleave)'
  BY DEF LastWriter, TurnsDoNotInterleave, UnderLease, MayWrite, Left
<1>3. (ChatsRecorded /\ ResultsRecorded /\ SuccessIsStored)'
  BY DEF ChatsRecorded, ResultsRecorded, SuccessIsStored, Recorded
<1>4. ContextShape'
  BY DEF ContextShape, Messages
<1> QED
  BY <1>1, <1>2, <1>3, <1>4

LEMMA Inductive ==
  ASSUME IInv, [Next]_vars
  PROVE  IInv'
<1>1. Control'
  BY ControlInductive DEF IInv
<1>2. Moves
  BY EveryStepMoves DEF IInv, Told, ContextShape
<1>3. LogType'
  BY <1>2, LogAfter DEF IInv, Told
<1>4. ContextShape'
  BY <1>2, ContextTyped, ContextKept
<1> QED
  BY <1>1, <1>2, <1>3, <1>4, ChatFactsKept, CallFactsKept, OutcomesOpenKept,
     OneOutcomeKept, AskedFirstKept, LastWriterKept, RecordsKept DEF IInv, Told

\* The inductive invariant of chats and agent turns: positions, turn lock,
\* pending.transaction() and the two one-shot stores go together, and the
\* stored messages and events are those that the positions allow.  A chat holds
\* the lock while it stores or reads, but for a save that its consumer left at a
\* heartbeat.
THEOREM DialogueInvariant == Spec => []IInv
<1>1. Init => IInv
  BY InitControl, InitTold DEF IInv
<1>2. IInv /\ [Next]_vars => IInv'
  BY Inductive
<1> QED
  BY <1>1, <1>2, PTL DEF Spec

\* The stored facts of two turns of one conversation never mix: what
\* StreamingConversationRuntime and the agent turn executor write under the
\* lock is contiguous, for any number of turns, timers and restarts.  The
\* answer of a chat whose consumer left at a heartbeat of
\* _stream_with_heartbeats is written without the lock and may come late.
THEOREM TurnsStayApart == Spec => []TurnsDoNotInterleave
<1>1. IInv => TurnsDoNotInterleave
  BY DEF IInv, Told
<1> QED
  BY <1>1, DialogueInvariant, PTL

LEMMA FewIndices ==
  ASSUME NEW S, \A i, j \in S : i = j
  PROVE  Cardinality(S) <= 1
<1>1. CASE S = {}
  BY <1>1, FS_EmptySet
<1>2. CASE S # {}
  <2>1. PICK x \in S : S = {x}
    BY <1>2
  <2> QED
    BY <2>1, FS_Singleton
<1> QED
  BY <1>1, <1>2

\* However often clients confirm, cancel or leave, whatever expires and
\* whenever the process restarts: dispatch runs a call at most once, it gets
\* one outcome, and a call whose cancellation was recorded never runs.
THEOREM AgentRunsOnlyAsDecided == Spec => []AgentRunsAsDecided
<1>1. ASSUME IInv
      PROVE  AgentRunsAsDecided
  <2> USE <1>1 DEF IInv, Control, Told
  <2>1. AgentRunsOnce
    <3> SUFFICES ASSUME NEW k \in Calls
                 PROVE  /\ runs[k] <= 1
                        /\ \A c \in Conversations :
                              Cardinality({i \in DOMAIN log[c] :
                                 /\ log[c][i].by = k
                                 /\ log[c][i].kind \in OutcomeKind}) <= 1
      BY DEF AgentRunsOnce, OutcomeKind
    <3>1. runs[k] <= 1
      BY DEF CallEntries
    <3>2. ASSUME NEW c \in Conversations
          PROVE  Cardinality({i \in DOMAIN log[c] :
                                 /\ log[c][i].by = k
                                 /\ log[c][i].kind \in OutcomeKind}) <= 1
      <4> DEFINE S == {i \in DOMAIN log[c] : log[c][i].by = k
                                            /\ log[c][i].kind \in OutcomeKind}
      <4>1. \A i, j \in S : i = j
        BY DEF OneOutcome
      <4> HIDE DEF S
      <4>2. Cardinality(S) <= 1
        BY <4>1, FewIndices
      <4> QED
        BY <4>2 DEF S
    <3> QED
      BY <3>1, <3>2
  <2>2. CancelledNeverRuns
    BY DEF CancelledNeverRuns, Recorded, CallFacts, Fact
  <2> QED
    BY <2>1, <2>2 DEF AgentRunsAsDecided
<1> QED
  BY <1>1, DialogueInvariant, PTL

\* What clients are told is stored, and the proposal store and the pending
\* store agree whenever pending.transaction() is free: no spent proposal
\* leaves a pending entry, a withdrawn call leaves nothing, and a good
\* approval finds its entry.
THEOREM CallsStayConsistent == Spec => []CallsConsistent
<1>1. ASSUME IInv
      PROVE  CallsConsistent
  <2>1. OneShotStateIsClosed
    BY <1>1, AgentAssumption
       DEF IInv, Control, CallEntries, OneShotStateIsClosed
  <2> QED
    BY <1>1, <2>1 DEF IInv, Control, Told, CallsConsistent
<1> QED
  BY <1>1, DialogueInvariant, PTL

\* The model is shown at most max_messages messages, its own question last,
\* and never an earlier question whose answer is stored later, unless that
\* chat was left at a heartbeat: the window of read_recent_messages is settled
\* although agent calls write beside it.
THEOREM ContextStaysConsistent == Spec => []ContextConsistent
<1>1. ASSUME IInv
      PROVE  ContextConsistent
  <2> USE <1>1 DEF IInv, Control, Told
  <2>1. TypeOK
    <3>1. ChatTypeOK
      BY DEF ControlTypes, ChatTypeOK, ContextShape, MaybeConversation
    <3>2. AgentTypeOK
      BY DEF ControlTypes
    <3> QED
      BY <3>1, <3>2, PositionsAreNumbers DEF TypeOK
  <2>2. ContextEndsWithOwnMessage
    BY DEF ContextEndsWithOwnMessage, ContextShape
  <2>3. ContextIsSettled
    <3> SUFFICES ASSUME NEW t \in Chats, NEW i \in context[t],
                        log[target[t]][i].by \in Chats \ {t},
                        ~Left(log[target[t]][i].by),
                        Recorded(target[t], "assistant", log[target[t]][i].by)
                 PROVE  \E j \in context[t] :
                           log[target[t]][j] = Fact("assistant", log[target[t]][i].by)
      BY DEF ContextIsSettled
    <3> DEFINE c == target[t]
               s == log[c][i].by
    <3>1. PICK own \in context[t] :
             /\ log[c][own] = Fact("user", t)
             /\ \A n \in context[t] : n <= own
             /\ \A n \in context[t], j \in Messages(c) :
                   n <= j /\ j <= own => j \in context[t]
      BY DEF ContextShape
    <3>2. c \in Conversations /\ context[t] \subseteq Messages(c)
      BY DEF ContextShape, ChatsHold
    <3>3. /\ i \in DOMAIN log[c] /\ own \in DOMAIN log[c]
          /\ log[c][i].kind \in MessageKind
      BY <3>2 DEF Messages
    <3>4. PICK j \in DOMAIN log[c] : log[c][j] = Fact("assistant", s)
      BY DEF Recorded
    <3>5. i \in Nat /\ j \in Nat /\ own \in Nat
      BY <3>2, <3>3, <3>4, PositionsAreNumbers
    <3>6. CASE log[c][i].kind = "assistant"
      <4>1. log[c][i] = Fact("assistant", s)
        BY <3>2, <3>3, <3>6, PositionsAreNumbers
      <4> QED
        BY <4>1
    <3>7. CASE log[c][i].kind = "user"
      <4>0. log[c][j].by = s /\ log[c][j].kind = "assistant" /\ log[c][own].by = t
        BY <3>1, <3>4 DEF Fact
      <4>1. i < j
        BY <3>2, <3>3, <3>4, <3>7, <4>0 DEF AskedFirst
      <4>2. i < own
        BY <3>1, <3>5, <4>0
      <4>3. j <= own
        <5>1. CASE own < j
          <6>1. /\ UnderLease(log[c][i]) /\ UnderLease(log[c][j])
                /\ UnderLease(log[c][own])
            BY <3>1, <3>7, <4>0 DEF UnderLease, Fact
          <6>2. log[c][own].by = log[c][i].by
            BY <3>2, <3>3, <4>0, <4>2, <5>1, <6>1 DEF TurnsDoNotInterleave
          <6> QED
            BY <4>0, <6>2
        <5> QED
          BY <3>5, <5>1
      <4>4. j \in Messages(c)
        BY <4>0 DEF Messages, MessageKind
      <4> QED
        BY <3>1, <3>4, <3>5, <4>1, <4>3, <4>4
    <3> QED
      BY <3>3, <3>6, <3>7 DEF MessageKind
  <2> QED
    BY <2>1, <2>2, <2>3 DEF ContextConsistent
<1> QED
  BY <1>1, DialogueInvariant, PTL

=============================================================================
