------------------------------- MODULE Dialogue -------------------------------
(***************************************************************************)
(* Chat turns and agent turns in the same conversations, in one process    *)
(* that may be restarted.  A restart loses the turn lock and both stores   *)
(* of one-shot entries; the database keeps its facts.                      *)
(***************************************************************************)
EXTENDS ChatTurns, AgentTurns

\* A chat and a confirmation are different requests.
ASSUME DialogueAssumption == Chats \cap Requests = {}

vars == <<factVars, chatVars, agentVars>>

Init == FactsInit /\ ChatInit /\ AgentInit

Lost(store) ==
  [k \in Calls |-> IF store[k] = "live" THEN "expired" ELSE store[k]]

\* The process stops and starts again.  What the client was told stays told.
Restart ==
  /\ pc' = [t \in Chats |-> IF pc[t] = "idle" THEN "idle" ELSE "done"]
  /\ outcome' = [t \in Chats |-> IF pc[t] # "idle" /\ outcome[t] = "none"
                                 THEN "lost" ELSE outcome[t]]
  /\ at' = [w \in Workers |-> IF at[w] \in {"idle", "offered"} THEN at[w]
                              ELSE "done"]
  /\ proposal' = Lost(proposal)
  /\ pending' = Lost(pending)
  /\ txn' = NoWorker
  /\ waiting' = Lock!None
  /\ holding' = Lock!None
  /\ UNCHANGED <<log, target, unwinding, context, subject, room, approved,
                 answer, runs>>

Next ==
  \/ ChatNext /\ UNCHANGED agentVars
  \/ AgentNext /\ UNCHANGED chatVars
  \/ Restart

\* The event loop and the threads make progress: the model's stream has timers,
\* the agent and the database return.  Clients need not do anything.
Fairness ==
  /\ \A t \in Chats : WF_vars(ChatProgress(t) /\ UNCHANGED agentVars)
  /\ \A k \in Calls : WF_vars(PrepareProgress(k) /\ UNCHANGED chatVars)
  /\ \A w \in Workers : WF_vars(CancelProgress(w) /\ UNCHANGED chatVars)
  /\ \A r \in Requests : WF_vars(ConfirmProgress(r) /\ UNCHANGED chatVars)

Spec == Init /\ [][Next]_vars /\ Fairness

-----------------------------------------------------------------------------
(* Properties *)

\* Every variable has its type; in particular the window a model is shown
\* never exceeds ContextPolicy.max_messages, and every stored fact has a known
\* kind and author.
TypeOK ==
  /\ ChatTypeOK
  /\ AgentTypeOK
  /\ \A c \in Conversations : \A i \in DOMAIN log[c] :
        log[c][i].kind \in Kind /\ log[c][i].by \in Chats \cup Calls

\* A chat whose consumer left at a heartbeat: its lease is gone, its answer may
\* still come.
Left(t) == t \in Chats /\ outcome[t] = "left"

\* A fact that a turn writes under the turn lock: what a chat stores, but for
\* the answer of one that was left, and what an agent turn stores after its
\* confirmation.
UnderLease(f) ==
  /\ f.by \in Chats \/ f.kind \in {"agent_result", "agent_error", "assistant"}
  /\ ~(f.kind = "assistant" /\ Left(f.by))

\* The facts of one turn are not split by those of another: neither a thread
\* that outlives its request nor a second turn writes in between, although
\* requests are cancelled, timers fire and the lock is handed on at any moment.
\* Only the answer of a chat that was left at a heartbeat may come late.
TurnsDoNotInterleave ==
  \A c \in Conversations : \A i, j, m \in DOMAIN log[c] :
     /\ i < m /\ m < j
     /\ \A n \in {i, j, m} : UnderLease(log[c][n])
     /\ log[c][i].by = log[c][j].by
     => log[c][m].by = log[c][i].by

\* The model is shown the turn's own message last (execute raises
\* RuntimeError otherwise), though agent calls are prepared without the lock.
ContextEndsWithOwnMessage ==
  \A t \in Chats :
     context[t] # {}
     => \E i \in context[t] : /\ \A j \in context[t] : j <= i
                              /\ log[target[t]][i] = Fact("user", t)

\* A turn that the context shows as asked but not answered never gets its
\* answer later, unless it was left at a heartbeat: the history a model sees is
\* settled.
ContextIsSettled ==
  \A t \in Chats : \A i \in context[t] :
     LET s == log[target[t]][i].by
     IN  /\ s \in Chats \ {t} /\ ~Left(s)
         /\ Recorded(target[t], "assistant", s)
         => \E j \in context[t] : log[target[t]][j] = Fact("assistant", s)

\* A client that was told of success can read the answer, and an agent's
\* answer is based on a stored result.
SuccessIsStored ==
  /\ \A t \in Chats :
        outcome[t] = "complete" => Recorded(target[t], "assistant", t)
  /\ \A r \in Requests :
        answer[r] = "completed"
        => LET k == subject[r]
           IN  \E i, j \in DOMAIN log[room[k]] :
                  /\ i < j
                  /\ log[room[k]][i] = Fact("agent_result", k)
                  /\ log[room[k]][j] = Fact("assistant", k)

\* However often the client confirms, the agent runs once and its call has one
\* outcome.
AgentRunsOnce ==
  \A k \in Calls :
     /\ runs[k] <= 1
     /\ \A c \in Conversations : Cardinality({i \in DOMAIN log[c] :
           /\ log[c][i].by = k
           /\ log[c][i].kind \in {"agent_result", "agent_error",
                                  "agent_cancelled"}}) <= 1

\* A call that was cancelled, by the client or because the client left during
\* preparation, never runs.
CancelledNeverRuns ==
  \A k \in Calls :
     (\E c \in Conversations : Recorded(c, "agent_cancelled", k))
     => runs[k] = 0

\* A consumed proposal leaves no pending entry behind, so that a later
\* confirmation does not wait for the lock again.
OneShotStateIsClosed ==
  \A k \in Calls :
     txn = NoWorker /\ proposal[k] = "consumed" => pending[k] # "live"

\* A client that left while its call was prepared leaves no entry that could
\* still be confirmed.
WithdrawnLeavesNothing ==
  \A k \in Calls :
     answer[k] = "abandoned" /\ at[k] \in {"offered", "done"}
     => pending[k] # "live" /\ proposal[k] # "live"

\* Of two requests for one call, the one whose proposal was found good also
\* finds the pending entry, unless it ran out: they never defeat each other.
ApprovalIsNotLost ==
  \A w \in Workers :
     at[w] \in {"cancel_closing", "confirm_closing"} /\ approved[w]
     => pending[subject[w]] # "consumed"

\* Whatever fails or leaves, every turn ends and gives the lock back.
EveryTurnEnds ==
  /\ \A t \in Chats :
        pc[t] # "idle" ~> pc[t] = "done" /\ holding[t] = NoConversation
  /\ \A r \in Requests :
        at[r] # "idle" ~> at[r] = "done" /\ holding[r] = NoConversation

\* The model sees a settled history that ends with the turn's own message and
\* is within the window, whatever is stored beside the turn.
ContextConsistent ==
  /\ TypeOK
  /\ ContextIsSettled
  /\ ContextEndsWithOwnMessage

\* Whatever is repeated, raced or lost in a restart, the agent runs once at
\* most, and never after its call was cancelled.
AgentRunsAsDecided ==
  /\ AgentRunsOnce
  /\ CancelledNeverRuns

\* What clients are told, the log and the two one-shot stores agree when no
\* transaction is open: success is stored, spent proposals are closed, withdrawn
\* calls are gone and good approvals are not lost.
CallsConsistent ==
  /\ SuccessIsStored
  /\ OneShotStateIsClosed
  /\ WithdrawnLeavesNothing
  /\ ApprovalIsNotLost
=============================================================================
