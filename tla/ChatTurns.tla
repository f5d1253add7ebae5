------------------------------ MODULE ChatTurns ------------------------------
(***************************************************************************)
(* Ordinary streamed chat: InteractionChatStreamApplication.stream over    *)
(* StreamingConversationRuntime.execute.  A turn resolves its              *)
(* conversation, waits for the turn lock, stores the user message, reads   *)
(* the context, streams the model's answer and stores it.                  *)
(*                                                                         *)
(* A database operation runs in a thread that cannot be cancelled.  When   *)
(* the request is cancelled or a timer fires meanwhile, the thread is let  *)
(* finish before the turn unwinds (await_shielded_task); `unwinding` says  *)
(* that this has been decided.  A consumer that leaves at a heartbeat does *)
(* not wait: its lease is released while the next event is still awaited.  *)
(* The model, the timers and the client are nondeterministic.              *)
(***************************************************************************)
EXTENDS ConversationFacts

CONSTANTS
  Chats,      \* chat requests
  MaxMessages \* ContextPolicy.max_messages

ASSUME ChatAssumption == Chats \subseteq Turns /\ MaxMessages \in Nat \ {0}

VARIABLES
  pc,        \* where a chat is
  target,    \* its conversation
  unwinding, \* the turn ends as soon as the thread has
  context,   \* the messages the model is shown, as positions in the log
  outcome    \* the last event the client gets

chatVars == <<pc, target, unwinding, context, outcome>>

ChatStep == {"idle", "resolving", "waiting", "appending", "reading", "priming",
             "streaming", "saving", "saved", "closing", "done"}

Outcome == {"none", "complete", "timeout", "upstream_error",
            "persistence_error", "denied", "cancelled", "left", "lost"}

ChatInit ==
  /\ pc = [t \in Chats |-> "idle"]
  /\ target = [t \in Chats |-> NoConversation]
  /\ unwinding = [t \in Chats |-> FALSE]
  /\ context = [t \in Chats |-> {}]
  /\ outcome = [t \in Chats |-> "none"]

Goto(t, step) == pc' = [pc EXCEPT ![t] = step]

\* The turn ends with an event, unless it was unwinding already.
CloseWith(t, event) ==
  /\ Goto(t, "closing")
  /\ outcome' = [outcome EXCEPT ![t] = IF unwinding[t] THEN @ ELSE event]

\* The request is prepared and its stream starts.
ChatStart(t, c) ==
  /\ pc[t] = "idle"
  /\ target' = [target EXCEPT ![t] = c]
  /\ Goto(t, "resolving")
  /\ UNCHANGED <<unwinding, context, outcome, factVars>>

\* _resolve_conversation, then the lock is asked for.
ChatResolve(t) ==
  /\ pc[t] = "resolving"
  /\ \/ /\ Lock!Request(t, target[t])
        /\ Goto(t, "waiting")
        /\ UNCHANGED <<outcome, log>>
     \/ /\ \E event \in {"denied", "persistence_error"} :
              outcome' = [outcome EXCEPT ![t] = event]
        /\ Goto(t, "done")
        /\ UNCHANGED factVars
  /\ UNCHANGED <<target, unwinding, context>>

ChatEnter(t) ==
  /\ pc[t] = "waiting"
  /\ Lock!Enter(t, target[t])
  /\ Goto(t, "appending")
  /\ UNCHANGED <<target, unwinding, context, outcome, log>>

\* Mutation: a failed write leaves without giving the lease back.
ChatAppendUserKeepsLease(t) ==
  /\ pc[t] = "appending"
  /\ \/ /\ AddFact(target[t], "user", t)
        /\ Goto(t, IF unwinding[t] THEN "closing" ELSE "reading")
        /\ UNCHANGED outcome
     \/ /\ outcome' = [outcome EXCEPT ![t] = "persistence_error"]
        /\ Goto(t, "done")
        /\ UNCHANGED log
  /\ UNCHANGED <<target, unwinding, context, waiting, holding>>

\* _append_user_message: the thread commits or fails.
ChatAppendUser(t) ==
  /\ pc[t] = "appending"
  /\ \/ /\ AddFact(target[t], "user", t)
        /\ Goto(t, IF unwinding[t] THEN "closing" ELSE "reading")
        /\ UNCHANGED outcome
     \/ /\ CloseWith(t, "persistence_error")
        /\ UNCHANGED log
  /\ UNCHANGED <<target, unwinding, context, waiting, holding>>

\* Mutation: the newest messages are read, without the cut-off.
WindowOfNewest(t) == Newest(Messages(target[t]), MaxMessages)

\* read_recent_messages: the newest messages up to the turn's own one.
Window(t) ==
  LET messages == Messages(target[t])
      own == CHOOSE i \in messages : log[target[t]][i] = Fact("user", t)
  IN  Newest({i \in messages : i <= own}, MaxMessages)

\* The context is read and built; both can fail.
ChatReadContext(t) ==
  /\ pc[t] = "reading"
  /\ \/ /\ context' = [context EXCEPT ![t] = Window(t)]
        /\ Goto(t, IF unwinding[t] THEN "closing" ELSE "priming")
        /\ UNCHANGED outcome
     \/ /\ \E event \in {"persistence_error", "upstream_error"} :
              CloseWith(t, event)
        /\ UNCHANGED context
  /\ UNCHANGED <<target, unwinding, factVars>>

\* _prime_stream under llm_stream_first_activity_timeout_seconds.
ChatPrime(t) ==
  /\ pc[t] = "priming"
  /\ \/ Goto(t, "streaming") /\ UNCHANGED outcome
     \/ \E event \in {"timeout", "upstream_error"} : CloseWith(t, event)
  /\ UNCHANGED <<target, unwinding, context, factVars>>

\* The model's stream ends: with an answer, empty or in an error.
ChatStreamEnds(t) ==
  /\ pc[t] = "streaming"
  /\ \/ Goto(t, "saving") /\ UNCHANGED outcome
     \/ CloseWith(t, "upstream_error")
  /\ UNCHANGED <<target, unwinding, context, factVars>>

\* Mutation: the turn does not wait for the thread that saves the answer.
ChatUnwindAtOnce(t, event) ==
  /\ pc[t] \in {"streaming", "saving", "saved"}
  /\ ~unwinding[t]
  /\ outcome' = [outcome EXCEPT ![t] = event]
  /\ unwinding' = [unwinding EXCEPT ![t] = TRUE]
  /\ IF pc[t] = "saving"
     THEN Lock!Leave(t) /\ UNCHANGED pc
     ELSE Goto(t, "closing") /\ UNCHANGED <<waiting, holding>>
  /\ UNCHANGED <<target, context, log>>

\* The consumer gives up where the generator of _stream_with_heartbeats ends by
\* itself: a timer fires, it sees that the client is gone, or the request is
\* cancelled at its await, perhaps after the answer was stored.  Its finally
\* waits for a save that runs.
ChatUnwind(t, event) ==
  /\ pc[t] \in {"streaming", "saving", "saved"}
  /\ ~unwinding[t]
  /\ outcome' = [outcome EXCEPT ![t] = event]
  /\ unwinding' = [unwinding EXCEPT ![t] = TRUE]
  /\ IF pc[t] = "saving" THEN UNCHANGED pc ELSE Goto(t, "closing")
  /\ UNCHANGED <<target, context, factVars>>

\* The idle or the total timer fires.
ChatTimeout(t) == ChatUnwind(t, "timeout")

\* The client disconnects: the request's task is cancelled at its await.
ChatCancel(t) ==
  \/ ChatUnwind(t, "cancelled")
  \/ /\ pc[t] \in {"appending", "reading"}
     /\ ~unwinding[t]
     /\ unwinding' = [unwinding EXCEPT ![t] = TRUE]
     /\ outcome' = [outcome EXCEPT ![t] = "cancelled"]
     /\ UNCHANGED <<pc, target, context, factVars>>
  \/ /\ pc[t] = "priming"
     /\ CloseWith(t, "cancelled")
     /\ UNCHANGED <<target, unwinding, context, factVars>>
  \/ /\ pc[t] \in {"resolving", "waiting"}
     /\ outcome' = [outcome EXCEPT ![t] = "cancelled"]
     /\ Goto(t, "done")
     /\ IF pc[t] = "waiting" THEN Lock!Withdraw(t)
                             ELSE UNCHANGED <<waiting, holding>>
     /\ UNCHANGED <<target, unwinding, context, log>>

\* The consumer leaves at a heartbeat, while _stream_with_heartbeats is suspended
\* in its yield and the next event is pending: aclose finds the inner generator
\* running and raises, and _LeaseReleasingStream gives the lease back all the
\* same.  What is pending goes on without it: the stream may still end, and a
\* save that runs commits or fails.
ChatLeave(t) ==
  /\ pc[t] \in {"streaming", "saving"}
  /\ ~unwinding[t]
  /\ Lock!Leave(t)
  /\ outcome' = [outcome EXCEPT ![t] = "left"]
  /\ unwinding' = [unwinding EXCEPT ![t] = TRUE]
  /\ UNCHANGED <<pc, target, context, log>>

\* The thread commits the answer or fails.
ChatSave(t) ==
  /\ pc[t] = "saving"
  /\ \/ /\ AddFact(target[t], "assistant", t)
        /\ Goto(t, IF unwinding[t] THEN "closing" ELSE "saved")
        /\ UNCHANGED outcome
     \/ /\ CloseWith(t, "persistence_error")
        /\ UNCHANGED log
  /\ UNCHANGED <<target, unwinding, context, waiting, holding>>

\* The completed event reaches the client.
ChatComplete(t) ==
  /\ pc[t] = "saved"
  /\ CloseWith(t, "complete")
  /\ UNCHANGED <<target, unwinding, context, factVars>>

\* _LeaseReleasingStream.aclose or the except branch of execute; the lease is
\* released once.
ChatClose(t) ==
  /\ pc[t] = "closing"
  /\ IF holding[t] = NoConversation THEN UNCHANGED <<waiting, holding>>
                                    ELSE Lock!Leave(t)
  /\ Goto(t, "done")
  /\ UNCHANGED <<target, unwinding, context, outcome, log>>

\* What a chat does by itself once it has started.
ChatProgress(t) ==
  \/ ChatResolve(t) \/ ChatEnter(t) \/ ChatAppendUser(t)
  \/ ChatReadContext(t) \/ ChatPrime(t) \/ ChatStreamEnds(t)
  \/ ChatTimeout(t) \/ ChatSave(t) \/ ChatComplete(t) \/ ChatClose(t)

ChatNext ==
  \E t \in Chats :
     \/ \E c \in Conversations : ChatStart(t, c)
     \/ ChatProgress(t)
     \/ ChatCancel(t)
     \/ ChatLeave(t)

ChatTypeOK ==
  /\ pc \in [Chats -> ChatStep]
  /\ target \in [Chats -> Conversations \cup {NoConversation}]
  /\ unwinding \in [Chats -> BOOLEAN]
  /\ \A t \in Chats : Cardinality(context[t]) <= MaxMessages
  /\ outcome \in [Chats -> Outcome]
=============================================================================
