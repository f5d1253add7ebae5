--------------------------- MODULE TurnCoordinator ---------------------------
(***************************************************************************)
(* ConversationTurnCoordinator: a registry that maps a conversation to a   *)
(* lock object with a reference count, and drops the object when nobody    *)
(* refers to it any more.  Everything runs on one event loop, so what      *)
(* happens between two awaits is one step.                                 *)
(*                                                                         *)
(* A lock object (_ConversationLockState) is named after the turn that     *)
(* created it.  asyncio.Lock wakes its waiters in the order they came;     *)
(* release() leaves the lock free until the woken waiter has run.          *)
(***************************************************************************)
EXTENDS Integers, Sequences, SequencesExt, FiniteSets

CONSTANTS Turns, Conversations, NoConversation, NoTurn

ASSUME CoordinatorAssumption ==
  /\ IsFiniteSet(Turns)
  /\ NoTurn \notin Turns
  /\ NoConversation \notin Conversations

VARIABLES
  registry,   \* _states: the lock object of a conversation
  references, \* of each lock object
  owner,      \* the turn that has a lock object locked
  queue,      \* the waiters of a lock object
  phase,      \* where a turn is
  target,     \* its conversation
  state       \* the lock object it refers to

coordinatorVars == <<registry, references, owner, queue, phase, target, state>>

Phase == {"idle", "waiting", "holding", "done"}

CoordinatorInit ==
  /\ registry = [c \in Conversations |-> NoTurn]
  /\ references = [o \in Turns |-> 0]
  /\ owner = [o \in Turns |-> NoTurn]
  /\ queue = [o \in Turns |-> <<>>]
  /\ phase = [t \in Turns |-> "idle"]
  /\ target = [t \in Turns |-> NoConversation]
  /\ state = [t \in Turns |-> NoTurn]

\* Mutation: only the waiters are looked at.
UnlockedIgnoresOwner(o) == queue[o] = <<>>

Unlocked(o) == owner[o] = NoTurn /\ queue[o] = <<>>

\* acquire up to its await: the lock object is looked up or created and
\* counted; asyncio.Lock.acquire does not suspend when the lock is free.
Acquire(t, c) ==
  LET o == IF registry[c] = NoTurn THEN t ELSE registry[c]
  IN  /\ phase[t] = "idle"
      /\ target' = [target EXCEPT ![t] = c]
      /\ state' = [state EXCEPT ![t] = o]
      /\ registry' = [registry EXCEPT ![c] = o]
      /\ references' = [references EXCEPT ![o] = @ + 1]
      /\ IF Unlocked(o)
         THEN /\ owner' = [owner EXCEPT ![o] = t]
              /\ phase' = [phase EXCEPT ![t] = "holding"]
              /\ UNCHANGED queue
         ELSE /\ queue' = [queue EXCEPT ![o] = Append(@, t)]
              /\ phase' = [phase EXCEPT ![t] = "waiting"]
              /\ UNCHANGED owner

\* The first waiter resumes and takes the free lock.
Resume(t) ==
  LET o == state[t]
  IN  /\ phase[t] = "waiting"
      /\ owner[o] = NoTurn
      /\ queue[o] # <<>>
      /\ Head(queue[o]) = t
      /\ owner' = [owner EXCEPT ![o] = t]
      /\ queue' = [queue EXCEPT ![o] = Tail(@)]
      /\ phase' = [phase EXCEPT ![t] = "holding"]
      /\ UNCHANGED <<registry, references, target, state>>

\* Mutation: the entry is never dropped.
ReleaseReferenceNever(t, o) ==
  /\ references' = [references EXCEPT ![o] = @ - 1]
  /\ UNCHANGED registry

\* _release_reference
ReleaseReference(t, o) ==
  /\ references' = [references EXCEPT ![o] = @ - 1]
  /\ registry' = [registry EXCEPT ![target[t]] =
                    IF references[o] = 1 /\ registry[target[t]] = o
                    THEN NoTurn ELSE @]

\* A turn is cancelled while it waits.
CancelWaiting(t) ==
  LET o == state[t]
  IN  /\ phase[t] = "waiting"
      /\ \E i \in DOMAIN queue[o] :
            /\ queue[o][i] = t
            /\ queue' = [queue EXCEPT ![o] = RemoveAt(@, i)]
      /\ ReleaseReference(t, o)
      /\ phase' = [phase EXCEPT ![t] = "done"]
      /\ UNCHANGED <<owner, target, state>>

\* Mutation: only the reference is given back.
ReleaseKeepsLock(t) ==
  /\ phase[t] = "holding"
  /\ ReleaseReference(t, state[t])
  /\ phase' = [phase EXCEPT ![t] = "done"]
  /\ UNCHANGED <<owner, queue, target, state>>

\* ConversationTurnLease.release; a second call returns at once.
ReleaseTurn(t) ==
  LET o == state[t]
  IN  /\ phase[t] = "holding"
      /\ owner' = [owner EXCEPT ![o] = NoTurn]
      /\ ReleaseReference(t, o)
      /\ phase' = [phase EXCEPT ![t] = "done"]
      /\ UNCHANGED <<queue, target, state>>

CoordinatorNext ==
  \E t \in Turns :
     \/ \E c \in Conversations : Acquire(t, c)
     \/ Resume(t)
     \/ CancelWaiting(t)
     \/ ReleaseTurn(t)

\* The event loop runs a woken waiter; a turn ends (its stream has timeouts
\* and every path releases the lease).
CoordinatorFairness ==
  \A t \in Turns :
     /\ WF_coordinatorVars(Resume(t))
     /\ WF_coordinatorVars(ReleaseTurn(t))

CoordinatorSpec ==
  CoordinatorInit /\ [][CoordinatorNext]_coordinatorVars /\ CoordinatorFairness

-----------------------------------------------------------------------------
(* Properties *)

\* Every variable has its type; in particular no counter is ever negative,
\* which _release_reference answers with a RuntimeError.
CoordinatorTypeOK ==
  /\ registry \in [Conversations -> Turns \cup {NoTurn}]
  /\ references \in [Turns -> Nat]
  /\ owner \in [Turns -> Turns \cup {NoTurn}]
  /\ queue \in [Turns -> Seq(Turns)]
  /\ phase \in [Turns -> Phase]
  /\ target \in [Turns -> Conversations \cup {NoConversation}]
  /\ state \in [Turns -> Turns \cup {NoTurn}]

\* The turns that wait for or hold a lock object.
Users(o) == {t \in Turns : state[t] = o /\ phase[t] \in {"waiting", "holding"}}

\* Two turns of one conversation never run at the same time, although the
\* lock object is dropped and created again between turns.
MutualExclusion ==
  \A s, t \in Turns :
     /\ phase[s] = "holding" /\ phase[t] = "holding"
     /\ target[s] = target[t]
     => s = t

\* A conversation has a registry entry exactly while a turn waits or runs, it
\* is the object all of them use, and the counter that guards it is their
\* number.
RegistryIsExact ==
  /\ \A o \in Turns : references[o] = Cardinality(Users(o))
  /\ \A c \in Conversations :
        registry[c] # NoTurn <=>
           \E t \in Turns : target[t] = c /\ phase[t] \in {"waiting", "holding"}
  /\ \A t \in Turns : phase[t] \in {"waiting", "holding"}
        => registry[target[t]] = state[t]

\* A turn that waits gets its conversation or is cancelled.
NobodyStarves ==
  \A t \in Turns : phase[t] = "waiting" ~> phase[t] # "waiting"

\* The coordinator is the lock that turns rely on.
Lock == INSTANCE TurnLock WITH
  waiting <- [t \in Turns |-> IF phase[t] = "waiting" THEN target[t]
                              ELSE NoConversation],
  holding <- [t \in Turns |-> IF phase[t] = "holding" THEN target[t]
                              ELSE NoConversation]

\* Registry, reference counts and wake-ups are invisible: every step of the
\* coordinator is a step of TurnLock or none.
LockKept == Lock!Spec

\* Turns of one conversation exclude each other, and registry, reference counts
\* and turns agree, however lock objects come and go.
CoordinatorConsistent ==
  /\ CoordinatorTypeOK
  /\ MutualExclusion
  /\ RegistryIsExact
=============================================================================
