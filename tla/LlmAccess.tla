----------------------------- MODULE LlmAccess -----------------------------
(***************************************************************************)
(* Calls of one process to its language model: every attempt takes one of  *)
(* a limited number of slots and a token of a bucket, failures that look   *)
(* transient are retried after a wait, and streams are read on the event   *)
(* loop.                                                                   *)
(*                                                                         *)
(* Source: infrastructure/llm (request_governance.py, transient_retry.py,  *)
(* openai_compatible_chat_adapter.py, openai_compatible_structured_        *)
(* adapter.py, structured_output_normalization.py, llm_client.py).         *)
(*                                                                         *)
(* There are three kinds of callers.  A thread (the intent recogniser or a *)
(* tender agent behind asyncio.to_thread) and /retrieval/ask call the      *)
(* blocking adapters; the latter is an async handler with a blocking body, *)
(* so nothing else runs on the event loop until it is done.  A stream is a *)
(* coroutine of the loop.  Time passes in ticks.                           *)
(***************************************************************************)
EXTENDS Integers, FiniteSets, Sequences

CONSTANTS Threads, Streams, Asks,  \* the callers
          MaxConcurrency,          \* slots
          Burst,                   \* tokens the bucket holds
          RefillTicks,             \* ticks until one token is refilled
          MaxAttempts,             \* llm_retry_max_attempts
          BaseBackoff, MaxBackoff, MaxRetryAfter, BackoffBudget,  \* in ticks
          Errors,                  \* what an attempt can raise: [status, kind, header]
          Replies                  \* shapes of a structured reply

Callers == Threads \cup Streams \cup Asks

ASSUME LlmAssumption ==
  /\ MaxConcurrency \in Nat \ {0} /\ Burst \in Nat \ {0} /\ RefillTicks \in Nat \ {0}
  /\ MaxAttempts \in Nat \ {0} /\ BackoffBudget \in Nat
  /\ BaseBackoff \in Nat /\ MaxBackoff \in Nat /\ MaxRetryAfter \in Nat
  /\ IsFiniteSet(Callers)
  /\ Threads \cap Streams = {} /\ Threads \cap Asks = {} /\ Streams \cap Asks = {}
  /\ \A error \in Errors : error.status \in Nat /\ error.header \in Int

VARIABLES call,    \* where each call is: pc, attempt, waited, timer, result
          slots,   \* free slots of the semaphore
          tokens,  \* the bucket when it was last looked at, in ticks
          since,   \* ticks since then
          ideal,   \* history: a bucket that is refilled at every tick
          open,    \* callers whose upstream stream is open
          heard    \* history: the attempts of which a stream's consumer saw chunks

llmVars == <<call, slots, tokens, since, ideal, open, heard>>

Capacity == Burst * RefillTicks
Least(a, b) == IF a < b THEN a ELSE b

Idle == [pc |-> "idle", attempt |-> 0, waited |-> 0, timer |-> 0, result |-> "none"]

LlmInit ==
  /\ call = [p \in Callers |-> Idle]
  /\ slots = MaxConcurrency
  /\ tokens = Capacity /\ since = 0 /\ ideal = Capacity
  /\ open = {} /\ heard = [p \in Streams |-> {}]

At(p, pc) == call[p].pc = pc
Active(p) == call[p].pc \notin {"idle", "ended"}
Holding(p) == call[p].pc \in {"token", "request", "stream"}

(* A coroutine runs only when no handler blocks the event loop. *)
LoopFree == \A a \in Asks : ~Active(a)
MayRun(p) == p \in Streams => LoopFree

(* A free slot is needed, and what holds all of them waits for the loop.   *)
LoopStuck ==
  /\ slots = 0 /\ \E a \in Asks : At(a, "slot")
  /\ \A p \in Callers : Holding(p) => p \in Streams

-----------------------------------------------------------------------------
(* Retrying.                                                               *)

(* classify_llm_failure: a status decides alone; without one, what timed   *)
(* out or lost its connection is transient.  Only a 429 names the time to  *)
(* wait, in a header that may be absent or no number (-1).                 *)
Classified(error) ==
  IF error.status # 0
  THEN [transient |-> error.status \in {408, 429} \cup 500..599,
        after |-> IF error.status = 429 THEN error.header ELSE -1]
  ELSE [transient |-> error.kind \in {"timeout", "connection"}, after |-> -1]

(* Otherwise the wait doubles with every attempt, with up to a quarter of  *)
(* jitter.                                                                 *)
Delays(f, attempt) ==
  LET base == Least(MaxBackoff, BaseBackoff * 2^(attempt - 1)) IN
  IF f.after >= 0 THEN {Least(f.after, MaxRetryAfter)}
  ELSE {Least(MaxBackoff, base + jitter) : jitter \in 0..(base \div 4)}

(* _retry_delay *)
MayRetry(c, f, delay) ==
  f.transient /\ c.attempt < MaxAttempts /\ c.waited + delay <= BackoffBudget

(* A caller waits for its next attempt or gives up. *)
AfterFailure(p, error) ==
  LET c == call[p] IN
  \E delay \in Delays(Classified(error), c.attempt) :
    call' = [call EXCEPT ![p] =
      IF MayRetry(c, Classified(error), delay)
      THEN [c EXCEPT !.pc = "backoff", !.timer = delay, !.waited = c.waited + delay]
      ELSE [c EXCEPT !.pc = "ended", !.result = "failed"]]

-----------------------------------------------------------------------------
(* The attempt.                                                            *)

(* A call begins; threads call again when their last call has ended. *)
Begin(p) ==
  call' = [call EXCEPT ![p] = [Idle EXCEPT !.pc = "slot", !.attempt = 1]]

Invoke(p) ==
  /\ ~Active(p) /\ Begin(p)
  /\ UNCHANGED <<slots, tokens, since, ideal, open, heard>>

(* /retrieval/ask and a chat begin on the loop. *)
Start(p) ==
  /\ p \in Streams \cup Asks /\ At(p, "idle") /\ LoopFree
  /\ Invoke(p)

AcquireSlot(p) ==
  /\ At(p, "slot") /\ slots > 0 /\ MayRun(p)
  /\ slots' = slots - 1
  /\ call' = [call EXCEPT ![p].pc = "token"]
  /\ UNCHANGED <<tokens, since, ideal, open, heard>>

(* _take_token_or_delay, and the request if there was a token; a caller    *)
(* that has to wait tries again, as others may be faster.                  *)
TakeToken(p) ==
  /\ At(p, "token") /\ call[p].timer = 0 /\ MayRun(p)
  /\ since' = 0
  /\ LET level == Least(Capacity, tokens + since)
     IN  IF level >= RefillTicks
         THEN /\ tokens' = level - RefillTicks /\ ideal' = ideal - RefillTicks
              /\ call' = [call EXCEPT ![p].pc = "request"]
              /\ open' = IF p \in Streams THEN open \cup {p} ELSE open
         ELSE /\ tokens' = level
              /\ call' = [call EXCEPT ![p].timer = RefillTicks - level]
              /\ UNCHANGED <<ideal, open>>
  /\ UNCHANGED <<slots, heard>>

(* raw_response_from_provider_response: the text of the first choice. *)
Content(r) == IF r.choices = 0 THEN "missing" ELSE r.text

(* _parse_json_object: one closed thinking block and one code fence around *)
(* everything are removed, and what is left is a JSON object.              *)
Parses(r) == Content(r) \in {"plain", "fenced", "thought"} /\ r.object

(* The object is the schema's own, or lies alone under the schema's name.  *)
Unwraps(r) ==
  \/ r.wrappers = 1 /\ ~r.others /\ r.inner
  \/ r.wrappers = 0 /\ ~r.unknown

(* The caller gets an object that is valid for the schema, or an error.    *)
Normalizes(r) == Parses(r) /\ Unwraps(r) /\ r.valid

(* A blocking request returns.  A reply that is not the object asked for   *)
(* fails outside the retry loop.                                           *)
Respond(p) ==
  /\ p \notin Streams /\ At(p, "request")
  /\ slots' = slots + 1
  /\ \E r \in Replies :
       call' = [call EXCEPT ![p].pc = "ended",
                  ![p].result = IF p \in Asks \/ Normalizes(r) THEN "answer" ELSE "refused"]
  /\ UNCHANGED <<tokens, since, ideal, open, heard>>

(* It raises: the slot is returned before the wait. *)
RequestFails(p) ==
  /\ p \notin Streams /\ At(p, "request")
  /\ slots' = slots + 1
  /\ \E error \in Errors : AfterFailure(p, error)
  /\ UNCHANGED <<tokens, since, ideal, open, heard>>

NextAttempt(p) ==
  /\ At(p, "backoff") /\ call[p].timer = 0 /\ MayRun(p)
  /\ call' = [call EXCEPT ![p].pc = "slot", ![p].attempt = @ + 1]
  /\ UNCHANGED <<slots, tokens, since, ideal, open, heard>>

-----------------------------------------------------------------------------
(* Streams.                                                                *)

(* The first text or reasoning arrives in time and is passed on. *)
FirstActivity(p) ==
  /\ p \in Streams /\ At(p, "request") /\ LoopFree
  /\ call' = [call EXCEPT ![p].pc = "stream"]
  /\ heard' = [heard EXCEPT ![p] = @ \cup {call[p].attempt}]
  /\ UNCHANGED <<slots, tokens, since, ideal, open>>

(* The rest arrives; the slot was held until here. *)
StreamEnds(p) ==
  /\ At(p, "stream") /\ LoopFree
  /\ slots' = slots + 1
  /\ open' = open \ {p}
  /\ call' = [call EXCEPT ![p].pc = "ended", ![p].result = "answer"]
  /\ UNCHANGED <<tokens, since, ideal, heard>>

(* The stream breaks, is empty, or its first activity is late.  The slot   *)
(* is returned, then the stream is closed.                                 *)
StreamBreaks(p) ==
  /\ p \in Streams /\ call[p].pc \in {"request", "stream"} /\ LoopFree
  /\ slots' = slots + 1
  /\ call' = [call EXCEPT ![p].pc = IF At(p, "request") THEN "closing" ELSE "aborting"]
  /\ UNCHANGED <<tokens, since, ideal, open, heard>>

(* Only a stream of which nothing was passed on is retried. *)
Closed(p) ==
  /\ call[p].pc \in {"closing", "aborting"} /\ LoopFree
  /\ open' = open \ {p}
  /\ IF At(p, "closing")
     THEN \E error \in Errors : AfterFailure(p, error)
     ELSE call' = [call EXCEPT ![p].pc = "ended", ![p].result = "failed"]
  /\ UNCHANGED <<slots, tokens, since, ideal, heard>>

(* Mutation: a stream that waits for a token keeps its slot. *)
CancelKeepsSlot(p) ==
  /\ p \in Streams /\ Active(p) /\ call[p].pc # "aborting" /\ LoopFree
  /\ slots' = IF call[p].pc \in {"request", "stream"} THEN slots + 1 ELSE slots
  /\ call' = [call EXCEPT ![p].pc = IF p \in open THEN "aborting" ELSE "ended",
                          ![p].result = "failed"]
  /\ UNCHANGED <<tokens, since, ideal, open, heard>>

(* The consumer goes away or its own time is over, wherever the call is;   *)
(* what closes the stream then is not cancelled once more.                 *)
Cancel(p) ==
  /\ p \in Streams /\ Active(p) /\ call[p].pc # "aborting" /\ LoopFree
  /\ slots' = IF Holding(p) THEN slots + 1 ELSE slots
  /\ call' = [call EXCEPT ![p].pc = IF p \in open THEN "aborting" ELSE "ended",
                          ![p].result = "failed"]
  /\ UNCHANGED <<tokens, since, ideal, open, heard>>

-----------------------------------------------------------------------------
Tick ==
  /\ since' = Least(Capacity, since + 1)
  /\ ideal' = Least(Capacity, ideal + 1)
  /\ call' = [p \in Callers |-> [call[p] EXCEPT !.timer = IF @ > 0 THEN @ - 1 ELSE 0]]
  /\ UNCHANGED <<slots, tokens, open, heard>>

(* What a caller does of its own accord.  Requests and the gaps of a       *)
(* stream have timeouts, so the provider's silence ends them too.          *)
Step(p) ==
  \/ AcquireSlot(p) \/ TakeToken(p) \/ Respond(p) \/ RequestFails(p) \/ NextAttempt(p)
  \/ FirstActivity(p) \/ StreamEnds(p) \/ StreamBreaks(p) \/ Closed(p)

-----------------------------------------------------------------------------
(* Properties.                                                             *)

CallType ==
  /\ slots \in 0..MaxConcurrency
  /\ tokens \in 0..Capacity /\ since \in 0..Capacity
  /\ \A p \in Callers :
       /\ call[p].pc \in {"idle", "slot", "token", "request", "stream", "closing",
                          "aborting", "backoff", "ended"}
       /\ call[p].result \in {"none", "answer", "refused", "failed"}

(* Every slot is free or held by exactly one call that is inside its       *)
(* attempt: no failure, retry, wait for a token or cancellation loses a    *)
(* slot or returns it twice.                                               *)
SlotsAreExact == slots + Cardinality({p \in Callers : Holding(p)}) = MaxConcurrency

(* In no period do more attempts reach the provider than the burst and     *)
(* what was refilled in that period, whoever looks at the bucket when.     *)
RateHonoured == ideal >= 0

(* The consumer of a stream sees chunks of one attempt only.               *)
HeardOnce == \A p \in Streams : Cardinality(heard[p]) <= 1

(* No call makes more attempts or waits longer than it may, whatever the   *)
(* provider asks for.                                                      *)
RetryWithinBudget ==
  \A p \in Callers : call[p].attempt <= MaxAttempts /\ call[p].waited <= BackoffBudget

(* A call that has ended left no stream open.                              *)
EndedIsClosed == \A p \in open : Active(p)

(* Every call that was begun ends, unless /retrieval/ask blocks the event  *)
(* loop waiting for a slot while streams of that loop hold all of them.    *)
EveryCallEnds == \A p \in Callers : At(p, "slot") ~> (At(p, "ended") \/ LoopStuck)

\* Slots, tokens, retries and streams are accounted for exactly, whatever call
\* fails, is retried or is cancelled at whatever moment.
LimitsKept ==
  /\ SlotsAreExact
  /\ RateHonoured
  /\ RetryWithinBudget
  /\ HeardOnce
  /\ EndedIsClosed
=============================================================================
