-------------------------- MODULE ConversationFacts --------------------------
(***************************************************************************)
(* What the turns of a conversation share: the facts PostgreSQL keeps      *)
(* (messages and agent events, here one log per conversation in commit     *)
(* order) and the turn lock of the process, taken from TurnLock.           *)
(*                                                                         *)
(* append_message and save_event lock the conversation's row and commit,   *)
(* so adding one fact is one step.                                         *)
(***************************************************************************)
EXTENDS Integers, Sequences, FiniteSets

CONSTANTS Turns, Conversations, NoConversation

ASSUME FactsAssumption == NoConversation \notin Conversations

VARIABLES
  log,      \* the facts of each conversation
  waiting,  \* the conversation a turn waits for
  holding   \* the conversation a turn runs in

factVars == <<log, waiting, holding>>

Lock == INSTANCE TurnLock

\* Messages and events.  "agent_cancelled" is an agent_error with the code
\* AGENT_CALL_CANCELLED, "agent_accepted" an agent_call with status accepted.
Kind == {"user", "assistant", "agent_call", "agent_result", "agent_error",
         "agent_cancelled", "agent_accepted"}

MessageKind == {"user", "assistant"}

Fact(kind, by) == [kind |-> kind, by |-> by]

FactsInit ==
  /\ log = [c \in Conversations |-> <<>>]
  /\ Lock!Init

\* append_message, save_event
AddFact(c, kind, by) ==
  log' = [log EXCEPT ![c] = Append(@, Fact(kind, by))]

Recorded(c, kind, by) == \E i \in DOMAIN log[c] : log[c][i] = Fact(kind, by)

\* Where the messages of a conversation are in its log.
Messages(c) == {i \in DOMAIN log[c] : log[c][i].kind \in MessageKind}

\* ORDER BY sequence DESC LIMIT n
Newest(S, n) == {i \in S : Cardinality({j \in S : i < j}) < n}
=============================================================================
