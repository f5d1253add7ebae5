------------------------------ MODULE TurnLock ------------------------------
(***************************************************************************)
(* What a conversation turn may rely on: turns of one conversation run one *)
(* at a time, a turn that waits can be withdrawn without a trace, and      *)
(* turns of different conversations do not know of each other.             *)
(***************************************************************************)
CONSTANTS Turns, Conversations, NoConversation

VARIABLES
  waiting,  \* the conversation a turn waits for
  holding   \* the conversation a turn runs in

vars == <<waiting, holding>>

None == [t \in Turns |-> NoConversation]

Init == waiting = None /\ holding = None

Free(c) == \A t \in Turns : holding[t] # c

Request(t, c) ==
  /\ waiting[t] = NoConversation
  /\ holding[t] = NoConversation
  /\ waiting' = [waiting EXCEPT ![t] = c]
  /\ UNCHANGED holding

Enter(t, c) ==
  /\ Free(c)
  /\ holding[t] = NoConversation
  /\ waiting[t] \in {c, NoConversation}
  /\ waiting' = [waiting EXCEPT ![t] = NoConversation]
  /\ holding' = [holding EXCEPT ![t] = c]

Withdraw(t) ==
  /\ waiting[t] # NoConversation
  /\ waiting' = [waiting EXCEPT ![t] = NoConversation]
  /\ UNCHANGED holding

Leave(t) ==
  /\ holding[t] # NoConversation
  /\ holding' = [holding EXCEPT ![t] = NoConversation]
  /\ UNCHANGED waiting

Next ==
  \E t \in Turns :
     \/ \E c \in Conversations : Request(t, c) \/ Enter(t, c)
     \/ Withdraw(t)
     \/ Leave(t)

Spec == Init /\ [][Next]_vars
=============================================================================
