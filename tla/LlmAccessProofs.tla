--------------------------- MODULE LlmAccessProofs ---------------------------
(***************************************************************************)
(* Proofs about LlmAccess and TenderAnalysis.                              *)
(*                                                                         *)
(* The limits of the calls to the language model are kept by tender jobs,  *)
(* chats and questions that call it at the same time, for any number of    *)
(* callers, slots and tokens and any policy of retries.  The files of an   *)
(* analysis are disjoint and one that calls itself completed saw all of    *)
(* its chunks, for any documents, answers and budgets.                     *)
(***************************************************************************)
EXTENDS TenderAnalysis, FiniteSetTheorems, WellFoundedInduction, TLAPS

PCs == {"idle", "slot", "token", "request", "stream", "closing", "aborting", "backoff", "ended"}
Results == {"none", "answer", "refused", "failed"}
CallRecord == [pc : PCs, attempt : Nat, waited : Int, timer : Int, result : Results]

-----------------------------------------------------------------------------
(* The inductive invariant.                                                *)

Shape ==
  /\ call \in [Callers -> CallRecord]
  /\ slots \in Nat /\ tokens \in Nat /\ since \in Nat /\ ideal \in Int
  /\ open \subseteq Streams /\ heard \in [Streams -> SUBSET Nat]

(* A call that waits for its next attempt may make one. *)
Budget ==
  \A p \in Callers :
    /\ call[p].attempt <= MaxAttempts /\ call[p].waited <= BackoffBudget
    /\ Active(p) => call[p].attempt >= 1
    /\ At(p, "backoff") => call[p].attempt < MaxAttempts

(* The bucket never promises more than one that is refilled at every tick. *)
Bucket == Least(Capacity, tokens + since) <= ideal /\ ideal <= Capacity

(* Streams are open while they are asked for, read and closed. *)
OpenIsBusy == \A p \in open : call[p].pc \in {"request", "stream", "closing", "aborting"}

(* Nothing was passed on of a stream that may still be retried, and of any *)
(* other what one attempt returned.                                        *)
HeardFromOne ==
  \A p \in Streams :
    /\ heard[p] # {} => call[p].pc \in {"stream", "aborting", "ended"}
    /\ \E n \in Nat : heard[p] \subseteq {n}

LInv == Shape /\ Budget /\ SlotsAreExact /\ Bucket /\ OpenIsBusy /\ HeardFromOne

-----------------------------------------------------------------------------
(* The operators.                                                          *)

LEMMA CapacityType == Capacity \in Nat /\ RefillTicks \in Nat /\ RefillTicks <= Capacity /\ RefillTicks > 0
<1> DEFINE n == Burst - 1
<1>1. n \in Nat /\ RefillTicks \in Nat /\ RefillTicks > 0 /\ Burst = n + 1
  BY LlmAssumption
<1>2. Capacity = n * RefillTicks + RefillTicks
  BY <1>1, LlmAssumption DEF Capacity
<1>3. n * RefillTicks \in Nat
  BY <1>1
<1>. QED  BY <1>1, <1>2, <1>3

\* A wait before the next attempt (_retry_delay) is a number of ticks.
LEMMA DelaysAreNumbers ==
  ASSUME NEW error \in Errors, NEW n \in Nat \ {0},
         NEW delay \in Delays(Classified(error), n)
  PROVE  delay \in Int
<1> DEFINE f == Classified(error)
           base == Least(MaxBackoff, BaseBackoff * 2^(n - 1))
<1>1. f.after \in Int
  BY LlmAssumption DEF Classified
<1>2. base \in Int
  <2>1. n - 1 \in Nat
    OBVIOUS
  <2>2. 2^(n - 1) \in Int
    BY <2>1
  <2>3. BaseBackoff * 2^(n - 1) \in Int
    BY <2>2, LlmAssumption
  <2>. QED  BY <2>3, LlmAssumption DEF Least
<1>3. CASE f.after >= 0
  BY <1>1, <1>3, LlmAssumption DEF Delays, Least
<1>4. CASE ~(f.after >= 0)
  <2>1. PICK jitter \in 0..(base \div 4) : delay = Least(MaxBackoff, base + jitter)
    BY <1>4 DEF Delays
  <2>. QED  BY <2>1, <1>2, LlmAssumption DEF Least
<1>. QED  BY <1>3, <1>4

\* One call moves: the slots stay exact when it takes a slot as it begins to
\* hold one, and returns it as it ceases to.
LEMMA SlotsFollow ==
  ASSUME Shape, SlotsAreExact, NEW p \in Callers, NEW r \in CallRecord,
         call' = [call EXCEPT ![p] = r],
         slots' = slots + (IF Holding(p) THEN 1 ELSE 0)
                        - (IF r.pc \in {"token", "request", "stream"} THEN 1 ELSE 0)
  PROVE  SlotsAreExact' /\ (slots > 0 \/ slots' >= slots => slots' \in Nat)
<1> DEFINE H == {q \in Callers : Holding(q)}
           K == {q \in Callers : call'[q].pc \in {"token", "request", "stream"}}
           new == r.pc \in {"token", "request", "stream"}
<1>1. IsFiniteSet(H) /\ IsFiniteSet(K)
  BY LlmAssumption, FS_Subset
<1>2. \A q \in Callers : call'[q] = IF q = p THEN r ELSE call[q]
  BY DEF Shape
<1>3. (p \in K <=> new) /\ (p \in H <=> Holding(p)) /\ K \ {p} = H \ {p}
  BY <1>2 DEF Holding
<1>4. Cardinality(H) \in Nat /\ Cardinality(K) \in Nat
  BY <1>1, FS_CardinalityType
<1>5. Cardinality(H) = Cardinality(H \ {p}) + (IF Holding(p) THEN 1 ELSE 0)
  <2>1. Cardinality(H \ {p}) = IF p \in H THEN Cardinality(H) - 1 ELSE Cardinality(H)
    BY <1>1, FS_RemoveElement
  <2>. QED  BY <2>1, <1>3, <1>4
<1>6. Cardinality(K) = Cardinality(K \ {p}) + (IF new THEN 1 ELSE 0)
  <2>1. Cardinality(K \ {p}) = IF p \in K THEN Cardinality(K) - 1 ELSE Cardinality(K)
    BY <1>1, FS_RemoveElement
  <2>. QED  BY <2>1, <1>3, <1>4
<1>7. slots' + Cardinality(K) = slots + Cardinality(H)
  <2>1. PICK n : n = Cardinality(H \ {p}) /\ n \in Nat
    BY <1>1, FS_RemoveElement, FS_CardinalityType
  <2>2. Cardinality(K \ {p}) = n
    BY <1>3, <2>1
  <2>3. slots' = slots + (IF Holding(p) THEN 1 ELSE 0) - (IF new THEN 1 ELSE 0) /\ slots \in Nat
    BY DEF Shape
  <2> HIDE DEF H, K, new
  <2>. QED  BY <1>5, <1>6, <2>1, <2>2, <2>3
<1>8. (Cardinality({q \in Callers : Holding(q)}))' = Cardinality(K)
  BY DEF Holding
<1>9. SlotsAreExact'
  BY <1>7, <1>8 DEF SlotsAreExact
<1>. QED  BY <1>9 DEF Shape
-----------------------------------------------------------------------------
(* The steps.                                                              *)

\* What a step of a caller leaves behind: its own record and slot, the bucket,
\* and for a stream whether it is open and what was heard of it.
Turns(p, r) ==
  /\ r \in CallRecord /\ call' = [call EXCEPT ![p] = r]
  /\ slots' = slots + (IF Holding(p) THEN 1 ELSE 0)
                    - (IF r.pc \in {"token", "request", "stream"} THEN 1 ELSE 0)
  /\ slots' \in Nat
  /\ r.attempt <= MaxAttempts /\ r.waited <= BackoffBudget
  /\ r.pc \notin {"idle", "ended"} => r.attempt >= 1
  /\ r.pc = "backoff" => r.attempt < MaxAttempts

LEMMA TurnsKeep ==
  ASSUME LInv, NEW p \in Callers, NEW r, Turns(p, r)
  PROVE  /\ call' \in [Callers -> CallRecord]
         /\ Budget' /\ SlotsAreExact'
         /\ \A q \in Callers : call'[q] = IF q = p THEN r ELSE call[q]
<1>1. call' \in [Callers -> CallRecord] /\ \A q \in Callers : call'[q] = IF q = p THEN r ELSE call[q]
  BY DEF LInv, Shape, Turns
<1>2. SlotsAreExact'
  BY SlotsFollow DEF LInv, Turns
<1>3. Budget'
  BY <1>1 DEF LInv, Budget, Turns, Active, At
<1>. QED  BY <1>1, <1>2, <1>3

\* A failed attempt is followed by another one only within the limits.
LEMMA FailureTurns ==
  ASSUME LInv, NEW p \in Callers, Active(p), NEW error \in Errors, AfterFailure(p, error),
         slots' = slots + (IF Holding(p) THEN 1 ELSE 0)
  PROVE  \E r : Turns(p, r) /\ r.pc \in {"backoff", "ended"}
<1> DEFINE c == call[p]
           f == Classified(error)
<1>1. /\ c \in CallRecord /\ c.attempt \in Nat \ {0} /\ c.attempt <= MaxAttempts
      /\ c.waited <= BackoffBudget /\ slots \in Nat
  BY DEF LInv, Shape, Budget, CallRecord
<1> DEFINE again(d) == [c EXCEPT !.pc = "backoff", !.timer = d, !.waited = c.waited + d]
           over == [c EXCEPT !.pc = "ended", !.result = "failed"]
           r(d) == IF MayRetry(c, f, d) THEN again(d) ELSE over
<1>2. PICK delay \in Delays(f, c.attempt) : call' = [call EXCEPT ![p] = r(delay)]
  BY DEF AfterFailure
<1>3. delay \in Int
  BY <1>1, DelaysAreNumbers
<1>4. /\ again(delay) \in CallRecord /\ again(delay).pc = "backoff"
      /\ again(delay).attempt = c.attempt /\ again(delay).waited = c.waited + delay
  <2> HIDE DEF c
  <2>1. c.waited \in Int
    BY <1>1 DEF CallRecord
  <2>2. PICK w : w = c.waited + delay /\ w \in Int
    BY <2>1, <1>3
  <2>3. again(delay) = [c EXCEPT !.pc = "backoff", !.timer = delay, !.waited = w]
    BY <2>2
  <2> HIDE DEF again
  <2>. QED  BY <1>1, <1>3, <2>2, <2>3 DEF CallRecord, PCs
<1>5. over \in CallRecord /\ over.pc = "ended" /\ over.attempt = c.attempt /\ over.waited = c.waited
  <2> HIDE DEF c
  <2>. QED  BY <1>1 DEF CallRecord, PCs, Results
<1>6. MayRetry(c, f, delay) => c.attempt < MaxAttempts /\ c.waited + delay <= BackoffBudget
  BY DEF MayRetry
<1>7. (r(delay) = again(delay) /\ MayRetry(c, f, delay)) \/ r(delay) = over
  OBVIOUS
<1>8. slots' \in Nat
  BY <1>1
<1>9. Turns(p, r(delay)) /\ r(delay).pc \in {"backoff", "ended"}
  <2> HIDE DEF r, again, over, c, f
  <2>1. CASE r(delay) = again(delay) /\ MayRetry(c, f, delay)
    BY <2>1, <1>1, <1>2, <1>4, <1>6, <1>8 DEF Turns
  <2>2. CASE r(delay) = over
    BY <2>2, <1>1, <1>2, <1>5, <1>8 DEF Turns
  <2>. QED  BY <2>1, <2>2, <1>7
<1>. QED  BY <1>9

\* What else a step has to see to: the bucket, and the stream if it is one.
LEMMA TurnIsSafe ==
  ASSUME LInv, NEW p \in Callers, NEW r, Turns(p, r),
         tokens' \in Nat, since' \in Nat, ideal' \in Int, Bucket',
         open' \subseteq Streams, open' \ {p} \subseteq open,
         p \in open' => r.pc \in {"request", "stream", "closing", "aborting"},
         heard' = heard,
         p \in Streams /\ heard[p] # {} => r.pc \in {"stream", "aborting", "ended"}
  PROVE  LInv'
<1>1. /\ call' \in [Callers -> CallRecord] /\ Budget' /\ SlotsAreExact'
      /\ \A q \in Callers : call'[q] = IF q = p THEN r ELSE call[q]
  BY TurnsKeep
<1>2. Shape'
  BY <1>1 DEF LInv, Shape, Turns
<1>3. Streams \subseteq Callers
  BY DEF Callers
<1>4. OpenIsBusy'
  BY <1>1, <1>3 DEF LInv, OpenIsBusy
<1>5. HeardFromOne'
  BY <1>1, <1>3 DEF LInv, HeardFromOne
<1>. QED  BY <1>1, <1>2, <1>4, <1>5 DEF LInv

\* A call begins.
LEMMA InvokeIsSafe ==
  ASSUME LInv, NEW p \in Callers, Invoke(p), p \in Streams => At(p, "idle")
  PROVE  LInv'
<1> DEFINE r == [Idle EXCEPT !.pc = "slot", !.attempt = 1]
<1>1. call' = [call EXCEPT ![p] = r] /\ UNCHANGED <<slots, tokens, since, ideal, open, heard>>
  BY DEF Invoke, Begin
<1>2. ~Holding(p) /\ slots \in Nat
  BY DEF Invoke, Active, Holding, LInv, Shape
<1>3. Turns(p, r)
  <2>1. Idle \in CallRecord /\ Idle.waited = 0
    BY DEF CallRecord, PCs, Results, Idle
  <2>2. r \in CallRecord /\ r.pc = "slot" /\ r.attempt = 1 /\ r.waited = 0
    BY <2>1 DEF CallRecord, PCs
  <2> HIDE DEF r
  <2>. QED  BY <1>1, <1>2, <2>2, LlmAssumption DEF Turns
<1>4. p \notin open /\ (p \in Streams => heard[p] = {})
  BY DEF LInv, OpenIsBusy, HeardFromOne, Invoke, Active, At
<1>5. Bucket'
  BY <1>1 DEF LInv, Bucket
<1>6. tokens' \in Nat /\ since' \in Nat /\ ideal' \in Int /\ open' \subseteq Streams
  BY <1>1 DEF LInv, Shape
<1> HIDE DEF r
<1>. QED  BY <1>1, <1>3, <1>4, <1>5, <1>6, TurnIsSafe

\* An attempt takes a slot.
LEMMA AcquireIsSafe ==
  ASSUME LInv, NEW p \in Callers, AcquireSlot(p)
  PROVE  LInv'
<1> DEFINE c == call[p]
           r == [c EXCEPT !.pc = "token"]
<1>1. /\ call' = [call EXCEPT ![p] = r] /\ slots' = slots - 1 /\ slots > 0
      /\ UNCHANGED <<tokens, since, ideal, open, heard>> /\ c.pc = "slot"
  BY DEF AcquireSlot, At
<1>2. c \in CallRecord /\ c.attempt <= MaxAttempts /\ c.attempt >= 1 /\ c.waited <= BackoffBudget
  BY <1>1 DEF LInv, Shape, Budget, Active
<1>3. r \in CallRecord /\ r.pc = "token" /\ r.attempt = c.attempt /\ r.waited = c.waited
  BY <1>2 DEF CallRecord, PCs
<1>4. ~Holding(p) /\ slots \in Nat
  BY <1>1 DEF Holding, LInv, Shape
<1>5. Turns(p, r)
  <2> HIDE DEF r, c
  <2>. QED  BY <1>1, <1>2, <1>3, <1>4 DEF Turns
<1>6. p \notin open /\ (p \in Streams => heard[p] = {})
  BY <1>1 DEF LInv, OpenIsBusy, HeardFromOne
<1>7. Bucket'
  BY <1>1 DEF LInv, Bucket
<1>8. tokens' \in Nat /\ since' \in Nat /\ ideal' \in Int /\ open' \subseteq Streams
  BY <1>1 DEF LInv, Shape
<1> HIDE DEF r
<1>. QED  BY <1>1, <1>5, <1>6, <1>7, <1>8, TurnIsSafe

\* It takes a token, or learns how long it has to wait.
LEMMA TokenIsSafe ==
  ASSUME LInv, NEW p \in Callers, TakeToken(p)
  PROVE  LInv'
<1> DEFINE c == call[p]
           level == Least(Capacity, tokens + since)
           go == [c EXCEPT !.pc = "request"]
           stay == [c EXCEPT !.timer = RefillTicks - level]
<1>1. /\ c.pc = "token" /\ since' = 0 /\ slots' = slots /\ heard' = heard
  BY DEF TakeToken, At
<1>2. c \in CallRecord /\ c.attempt <= MaxAttempts /\ c.attempt >= 1 /\ c.waited <= BackoffBudget
  BY <1>1 DEF LInv, Shape, Budget, Active
<1>3. level \in Nat /\ level <= Capacity /\ level <= ideal /\ ideal <= Capacity /\ ideal \in Int
  BY CapacityType DEF LInv, Shape, Bucket, Least
<1>4. Holding(p) /\ slots \in Nat /\ open \subseteq Streams
  BY <1>1 DEF Holding, LInv, Shape
<1>5. p \notin open /\ (p \in Streams => heard[p] = {})
  BY <1>1 DEF LInv, OpenIsBusy, HeardFromOne
<1>6. CASE level >= RefillTicks
  <2>1. /\ tokens' = level - RefillTicks /\ ideal' = ideal - RefillTicks
        /\ call' = [call EXCEPT ![p] = go]
        /\ open' = IF p \in Streams THEN open \cup {p} ELSE open
    BY <1>6 DEF TakeToken
  <2>2. go \in CallRecord /\ go.pc = "request" /\ go.attempt = c.attempt /\ go.waited = c.waited
    BY <1>2 DEF CallRecord, PCs
  <2>3. Turns(p, go)
    <3> HIDE DEF go, c
    <3>. QED  BY <1>1, <1>2, <1>4, <2>1, <2>2 DEF Turns
  <2>4. tokens' \in Nat /\ since' \in Nat /\ ideal' \in Int /\ Bucket'
    <3> HIDE DEF level
    <3>. QED  BY <1>1, <1>3, <1>6, <2>1, CapacityType DEF Bucket, Least
  <2>5. open' \subseteq Streams /\ open' \ {p} \subseteq open
    BY <2>1, <1>4
  <2> HIDE DEF go
  <2>. QED  BY <1>1, <1>5, <2>2, <2>3, <2>4, <2>5, TurnIsSafe
<1>7. CASE ~(level >= RefillTicks)
  <2>1. tokens' = level /\ ideal' = ideal /\ open' = open /\ call' = [call EXCEPT ![p] = stay]
    BY <1>7 DEF TakeToken
  <2>2. stay \in CallRecord /\ stay.pc = "token" /\ stay.attempt = c.attempt /\ stay.waited = c.waited
    <3> HIDE DEF level
    <3>1. RefillTicks - level \in Int
      BY <1>3, CapacityType
    <3>. QED  BY <3>1, <1>1, <1>2 DEF CallRecord, PCs
  <2>3. Turns(p, stay)
    <3> HIDE DEF stay, c
    <3>. QED  BY <1>1, <1>2, <1>4, <2>1, <2>2 DEF Turns
  <2>4. tokens' \in Nat /\ since' \in Nat /\ ideal' \in Int /\ Bucket'
    <3> HIDE DEF level
    <3>. QED  BY <1>1, <1>3, <1>7, <2>1, CapacityType DEF Bucket, Least
  <2> HIDE DEF stay
  <2>. QED  BY <1>1, <1>4, <1>5, <2>1, <2>2, <2>3, <2>4, TurnIsSafe
<1>. QED  BY <1>6, <1>7

\* A blocking request returns or raises, and a call waited for its next attempt.
LEMMA RequestIsSafe ==
  ASSUME LInv, NEW p \in Callers, Respond(p) \/ RequestFails(p) \/ NextAttempt(p)
  PROVE  LInv'
<1> DEFINE c == call[p]
<1>1. c \in CallRecord /\ c.attempt <= MaxAttempts /\ c.waited <= BackoffBudget /\ slots \in Nat
  BY DEF LInv, Shape, Budget
<1>2. /\ UNCHANGED <<tokens, since, ideal, open, heard>>
      /\ tokens' \in Nat /\ since' \in Nat /\ ideal' \in Int /\ open' \subseteq Streams
      /\ Bucket'
  BY DEF Respond, RequestFails, NextAttempt, LInv, Shape, Bucket
<1>3. CASE Respond(p)
  <2>1. PICK word \in Results : call' = [call EXCEPT ![p] = [c EXCEPT !.pc = "ended", !.result = word]]
    BY <1>3 DEF Respond, Results
  <2>2. PICK r : r = [c EXCEPT !.pc = "ended", !.result = word]
    OBVIOUS
  <2>3. r \in CallRecord /\ r.pc = "ended" /\ r.attempt = c.attempt /\ r.waited = c.waited
    BY <1>1, <2>2 DEF CallRecord, PCs
  <2>4. Holding(p) /\ slots' = slots + 1 /\ p \notin Streams
    BY <1>3 DEF Respond, Holding, At
  <2>5. Turns(p, r)
    <3> HIDE DEF c
    <3>. QED  BY <1>1, <2>1, <2>2, <2>3, <2>4 DEF Turns
  <2>. QED  BY <1>2, <2>3, <2>4, <2>5, TurnIsSafe
<1>4. CASE RequestFails(p)
  <2>1. Holding(p) /\ Active(p) /\ slots' = slots + 1 /\ p \notin Streams
    BY <1>4 DEF RequestFails, Holding, Active, At
  <2>2. PICK error \in Errors : AfterFailure(p, error)
    BY <1>4 DEF RequestFails
  <2>3. PICK r : Turns(p, r) /\ r.pc \in {"backoff", "ended"}
    BY <2>1, <2>2, FailureTurns
  <2>. QED  BY <1>2, <2>1, <2>3, TurnIsSafe
<1>5. CASE NextAttempt(p)
  <2>1. call' = [call EXCEPT ![p] = [c EXCEPT !.pc = "slot", !.attempt = c.attempt + 1]]
    BY <1>5 DEF NextAttempt
  <2>2. c.pc = "backoff" /\ c.attempt < MaxAttempts /\ slots' = slots /\ ~Holding(p)
    BY <1>5 DEF NextAttempt, At, LInv, Budget, Holding
  <2>3. PICK n : n = c.attempt + 1 /\ n \in Nat /\ n <= MaxAttempts /\ n >= 1
    BY <1>1, <2>2, LlmAssumption DEF CallRecord
  <2>4. PICK r : r = [c EXCEPT !.pc = "slot", !.attempt = n]
    OBVIOUS
  <2>5. r \in CallRecord /\ r.pc = "slot" /\ r.attempt = n /\ r.waited = c.waited
    BY <1>1, <2>3, <2>4 DEF CallRecord, PCs
  <2>6. p \notin open /\ (p \in Streams => heard[p] = {})
    BY <2>2 DEF LInv, OpenIsBusy, HeardFromOne
  <2>7. call' = [call EXCEPT ![p] = r]
    BY <2>1, <2>3, <2>4
  <2>8. Turns(p, r)
    <3> HIDE DEF c
    <3>. QED  BY <1>1, <2>2, <2>3, <2>5, <2>7 DEF Turns
  <2>. QED  BY <1>2, <2>5, <2>6, <2>8, TurnIsSafe
<1>. QED  BY <1>3, <1>4, <1>5

\* A stream ends, breaks, is closed or is cancelled.
LEMMA StreamIsSafe ==
  ASSUME LInv, NEW p \in Callers, StreamEnds(p) \/ StreamBreaks(p) \/ Closed(p) \/ Cancel(p)
  PROVE  LInv'
<1> DEFINE c == call[p]
<1>1. /\ c \in CallRecord /\ c.attempt <= MaxAttempts /\ c.waited <= BackoffBudget /\ slots \in Nat
      /\ Active(p) => c.attempt >= 1
  BY DEF LInv, Shape, Budget
<1>2. /\ UNCHANGED <<tokens, since, ideal, heard>>
      /\ tokens' \in Nat /\ since' \in Nat /\ ideal' \in Int /\ Bucket'
  BY DEF StreamEnds, StreamBreaks, Closed, Cancel, LInv, Shape, Bucket
<1>3. /\ open \subseteq Streams
      /\ p \in Streams /\ heard[p] # {} => c.pc \in {"stream", "aborting", "ended"}
  BY DEF LInv, Shape, HeardFromOne
<1>4. ASSUME NEW pc \in PCs, NEW word \in Results,
             call' = [call EXCEPT ![p] = [c EXCEPT !.pc = pc, !.result = word]],
             slots' = slots + (IF Holding(p) THEN 1 ELSE 0),
             pc \notin {"token", "request", "stream", "backoff"}, Active(p),
             open' \subseteq open, p \in open' => pc \in {"closing", "aborting"},
             c.pc \in {"stream", "aborting", "ended"} => pc \in {"aborting", "ended"}
      PROVE  LInv'
  <2>1. PICK r : r = [c EXCEPT !.pc = pc, !.result = word]
    OBVIOUS
  <2>2. r \in CallRecord /\ r.pc = pc /\ r.attempt = c.attempt /\ r.waited = c.waited
    BY <1>1, <1>4, <2>1 DEF CallRecord
  <2>3. Turns(p, r)
    <3> HIDE DEF c
    <3>. QED  BY <1>1, <1>4, <2>1, <2>2 DEF Turns
  <2>4. open' \subseteq Streams /\ open' \ {p} \subseteq open
    BY <1>3, <1>4
  <2> HIDE DEF c
  <2>. QED  BY <1>2, <1>3, <1>4, <2>2, <2>3, <2>4, TurnIsSafe
<1>5. c.result \in Results
  BY <1>1 DEF CallRecord
<1>6. \A pc : [call EXCEPT ![p] = [c EXCEPT !.pc = pc]] = [call EXCEPT ![p] = [c EXCEPT !.pc = pc, !.result = c.result]]
  BY <1>1 DEF CallRecord
<1>7. CASE StreamEnds(p)
  <2>1. /\ c.pc = "stream" /\ slots' = slots + 1 /\ open' = open \ {p}
        /\ call' = [call EXCEPT ![p] = [c EXCEPT !.pc = "ended", !.result = "answer"]]
    BY <1>7 DEF StreamEnds, At
  <2>2. Holding(p) /\ Active(p)
    BY <2>1 DEF Holding, Active
  <2> HIDE DEF c
  <2>. QED  BY <1>4, <2>1, <2>2 DEF PCs, Results
<1>8. CASE StreamBreaks(p)
  <2>1. PICK pc : pc = IF At(p, "request") THEN "closing" ELSE "aborting"
    OBVIOUS
  <2>2. /\ c.pc \in {"request", "stream"} /\ slots' = slots + 1 /\ open' = open
        /\ call' = [call EXCEPT ![p] = [c EXCEPT !.pc = pc]]
    BY <1>8, <2>1 DEF StreamBreaks
  <2>3. Holding(p) /\ Active(p) /\ (c.pc = "stream" => pc = "aborting")
    BY <2>1, <2>2 DEF Holding, Active, At
  <2>4. pc \in {"closing", "aborting"}
    BY <2>1
  <2>5. call' = [call EXCEPT ![p] = [c EXCEPT !.pc = pc, !.result = c.result]]
    BY <2>2, <1>6
  <2> HIDE DEF c
  <2>. QED  BY <1>4, <1>5, <2>2, <2>3, <2>4, <2>5 DEF PCs
<1>9. CASE Closed(p)
  <2>1. open' = open \ {p} /\ slots' = slots /\ c.pc \in {"closing", "aborting"}
    BY <1>9 DEF Closed
  <2>2. ~Holding(p) /\ Active(p)
    BY <2>1 DEF Holding, Active
  <2>3. CASE c.pc = "closing"
    <3>1. PICK error \in Errors : AfterFailure(p, error)
      BY <1>9, <2>3 DEF Closed, At
    <3>2. PICK r : Turns(p, r) /\ r.pc \in {"backoff", "ended"}
      BY <1>1, <2>1, <2>2, <3>1, FailureTurns
    <3>3. p \notin open' /\ (p \in Streams => heard[p] = {}) /\ open' \subseteq Streams /\ open' \ {p} \subseteq open
      BY <1>3, <2>1, <2>3
    <3>. QED  BY <1>2, <3>2, <3>3, TurnIsSafe
  <2>4. CASE c.pc # "closing"
    <3>1. call' = [call EXCEPT ![p] = [c EXCEPT !.pc = "ended", !.result = "failed"]]
      BY <1>9, <2>4 DEF Closed, At
    <3>2. slots' = slots + 0
      BY <1>1, <2>1
    <3> HIDE DEF c
    <3>. QED  BY <1>4, <2>1, <2>2, <3>1, <3>2 DEF PCs, Results
  <2>. QED  BY <2>3, <2>4
<1>10. CASE Cancel(p)
  <2>1. PICK pc : pc = IF p \in open THEN "aborting" ELSE "ended"
    OBVIOUS
  <2>2. /\ Active(p) /\ open' = open
        /\ call' = [call EXCEPT ![p] = [c EXCEPT !.pc = pc, !.result = "failed"]]
        /\ slots' = IF Holding(p) THEN slots + 1 ELSE slots
    BY <1>10, <2>1 DEF Cancel
  <2>3. pc \in {"aborting", "ended"} /\ (p \in open => pc = "aborting")
    BY <2>1
  <2>4. slots' = slots + (IF Holding(p) THEN 1 ELSE 0)
    BY <1>1, <2>2
  <2> HIDE DEF c
  <2>. QED  BY <1>4, <2>2, <2>3, <2>4 DEF PCs, Results
<1>. QED  BY <1>7, <1>8, <1>9, <1>10

\* The first chunk of a stream is passed on.
LEMMA FirstActivityIsSafe ==
  ASSUME LInv, NEW p \in Callers, FirstActivity(p)
  PROVE  LInv'
<1> DEFINE c == call[p]
<1>1. /\ p \in Streams /\ c.pc = "request" /\ call' = [call EXCEPT ![p] = [c EXCEPT !.pc = "stream"]]
      /\ heard' = [heard EXCEPT ![p] = heard[p] \cup {c.attempt}]
      /\ UNCHANGED <<slots, tokens, since, ideal, open>>
  BY DEF FirstActivity, At
<1>2. /\ c \in CallRecord /\ c.attempt <= MaxAttempts /\ c.waited <= BackoffBudget /\ c.attempt >= 1
      /\ slots \in Nat /\ Holding(p) /\ heard \in [Streams -> SUBSET Nat]
  BY <1>1 DEF LInv, Shape, Budget, Active, Holding
<1>3. PICK r : r = [c EXCEPT !.pc = "stream"]
  OBVIOUS
<1>4. r \in CallRecord /\ r.pc = "stream" /\ r.attempt = c.attempt /\ r.waited = c.waited
  BY <1>2, <1>3 DEF CallRecord, PCs
<1>5. Turns(p, r)
  <2> HIDE DEF c
  <2>. QED  BY <1>1, <1>2, <1>3, <1>4 DEF Turns
<1>6. /\ call' \in [Callers -> CallRecord] /\ Budget' /\ SlotsAreExact'
      /\ \A q \in Callers : call'[q] = IF q = p THEN r ELSE call[q]
  BY <1>5, TurnsKeep
<1>7. heard[p] = {} /\ c.attempt \in Nat
  BY <1>1, <1>2 DEF LInv, HeardFromOne, CallRecord
<1>8. heard' \in [Streams -> SUBSET Nat] /\ \A q \in Streams : heard'[q] = IF q = p THEN {c.attempt} ELSE heard[q]
  <2> HIDE DEF c
  <2>. QED  BY <1>1, <1>2, <1>7
<1>9. Shape'
  BY <1>1, <1>6, <1>8 DEF LInv, Shape
<1>10. Bucket'
  BY <1>1 DEF LInv, Bucket
<1>11. Streams \subseteq Callers
  BY DEF Callers
<1>12. OpenIsBusy'
  BY <1>1, <1>4, <1>6, <1>11 DEF LInv, OpenIsBusy, Shape
<1>13. HeardFromOne'
  BY <1>4, <1>6, <1>7, <1>8, <1>11 DEF LInv, HeardFromOne
<1>. QED  BY <1>6, <1>9, <1>10, <1>12, <1>13 DEF LInv

\* Time passes.
LEMMA TickIsSafe ==
  ASSUME LInv, Tick
  PROVE  LInv'
<1>1. /\ call \in [Callers -> CallRecord]
      /\ call' = [p \in Callers |-> [call[p] EXCEPT !.timer = IF @ > 0 THEN @ - 1 ELSE 0]]
      /\ since' = Least(Capacity, since + 1) /\ ideal' = Least(Capacity, ideal + 1)
      /\ UNCHANGED <<slots, tokens, open, heard>>
  BY DEF LInv, Shape, Tick
<1>2. ASSUME NEW p \in Callers
      PROVE  /\ call'[p] \in CallRecord /\ call'[p].pc = call[p].pc
             /\ call'[p].attempt = call[p].attempt /\ call'[p].waited = call[p].waited
  <2>1. PICK c : c = call[p] /\ c \in CallRecord
    BY <1>1
  <2>2. PICK n \in Int : call'[p] = [c EXCEPT !.timer = n]
    <3>1. (IF c.timer > 0 THEN c.timer - 1 ELSE 0) \in Int
      BY <2>1 DEF CallRecord
    <3>2. call'[p] = [c EXCEPT !.timer = IF c.timer > 0 THEN c.timer - 1 ELSE 0]
      BY <1>1, <2>1
    <3>. QED  BY <3>1, <3>2
  <2>. QED  BY <2>1, <2>2 DEF CallRecord
<1>3. call' \in [Callers -> CallRecord]
  BY <1>1, <1>2
<1>4. Streams \subseteq Callers /\ open \subseteq Streams
  BY DEF Callers, LInv, Shape
<1>5. Shape' /\ Bucket'
  BY <1>1, <1>3, CapacityType DEF LInv, Shape, Bucket, Least
<1>6. Budget'
  BY <1>2 DEF LInv, Budget, Active, At
<1>7. OpenIsBusy' /\ HeardFromOne'
  BY <1>1, <1>2, <1>4 DEF LInv, OpenIsBusy, HeardFromOne
<1>8. SlotsAreExact'
  <2>1. {p \in Callers : Holding(p)} = {p \in Callers : call'[p].pc \in {"token", "request", "stream"}}
    BY <1>2 DEF Holding
  <2>2. (Cardinality({p \in Callers : Holding(p)}))' = Cardinality({p \in Callers : call'[p].pc \in {"token", "request", "stream"}})
    BY DEF Holding
  <2>. QED  BY <1>1, <2>1, <2>2 DEF LInv, SlotsAreExact
<1>. QED  BY <1>5, <1>6, <1>7, <1>8 DEF LInv

LEMMA LInvInitially == LlmInit => LInv
<1> SUFFICES ASSUME LlmInit PROVE LInv
  OBVIOUS
<1>1. Idle \in CallRecord /\ Idle.pc = "idle" /\ Idle.attempt = 0 /\ Idle.waited = 0
  BY DEF CallRecord, PCs, Results, Idle
<1>2. \A p \in Callers : call[p] = Idle
  BY DEF LlmInit
<1>3. Shape
  BY <1>1, CapacityType, LlmAssumption DEF LlmInit, Shape
<1>4. Budget
  BY <1>1, <1>2, LlmAssumption DEF Budget, Active, At
<1>5. {p \in Callers : Holding(p)} = {}
  BY <1>1, <1>2 DEF Holding
<1>6. SlotsAreExact
  BY <1>5, FS_EmptySet, LlmAssumption DEF SlotsAreExact, LlmInit
<1>7. Bucket
  BY CapacityType DEF Bucket, Least, LlmInit
<1>8. OpenIsBusy /\ HeardFromOne
  BY <1>1, <1>2 DEF OpenIsBusy, HeardFromOne, LlmInit, Callers
<1>. QED  BY <1>3, <1>4, <1>6, <1>7, <1>8 DEF LInv

LEMMA LInvKept == LInv /\ [Next]_tenderVars => LInv'
<1> SUFFICES ASSUME LInv, [Next]_tenderVars PROVE LInv'
  OBVIOUS
<1>1. Threads \subseteq Callers /\ Streams \subseteq Callers /\ Asks \subseteq Callers
  BY DEF Callers
<1>2. CASE UNCHANGED llmVars
  BY <1>2 DEF llmVars, LInv, Shape, Budget, SlotsAreExact, Bucket, OpenIsBusy, HeardFromOne,
              Active, At, Holding
<1>3. ASSUME NEW p \in Callers, Step(p) \/ Cancel(p)
      PROVE  LInv'
  BY <1>3, AcquireIsSafe, TokenIsSafe, RequestIsSafe, FirstActivityIsSafe, StreamIsSafe DEF Step
<1>4. ASSUME NEW t \in Threads, Work(t) \/ Extract(t) \/ TimeIsUp(t)
      PROVE  LInv'
  <2>1. UNCHANGED llmVars \/ Invoke(t)
    BY <1>4 DEF Work, Read, CallModel, NoAnswer, BoundaryAnswer, VerifyAnswer, ChunkAnswer,
                MergeAnswer, Extract, TimeIsUp
  <2>2. t \in Callers /\ t \notin Streams
    BY <1>1, LlmAssumption
  <2>. QED  BY <1>2, <2>1, <2>2, InvokeIsSafe
<1>5. ASSUME NEW p \in Streams \cup Asks, Others(p)
      PROVE  LInv'
  <2>1. CASE Start(p)
    BY <1>1, <2>1, InvokeIsSafe DEF Start
  <2>. QED  BY <1>1, <1>3, <1>5, <2>1 DEF Others
<1>6. CASE Tick
  BY <1>6, TickIsSafe
<1>. QED  BY <1>1, <1>2, <1>3, <1>4, <1>5, <1>6 DEF Next, tenderVars

LEMMA LInvImplies == LInv => LimitsKept
<1> SUFFICES ASSUME LInv PROVE LimitsKept
  OBVIOUS
<1>1. RateHonoured
  BY CapacityType DEF LInv, Shape, Bucket, RateHonoured, Least
<1>2. RetryWithinBudget
  BY DEF LInv, Budget, RetryWithinBudget
<1>3. EndedIsClosed
  BY DEF LInv, OpenIsBusy, EndedIsClosed, Active
<1>4. HeardOnce
  <2> SUFFICES ASSUME NEW p \in Streams PROVE Cardinality(heard[p]) <= 1
    BY DEF HeardOnce
  <2>1. PICK n \in Nat : heard[p] \subseteq {n}
    BY DEF LInv, HeardFromOne
  <2>2. IsFiniteSet({n}) /\ Cardinality({n}) = 1
    BY FS_Singleton
  <2>. QED  BY <2>1, <2>2, FS_Subset
<1>. QED  BY <1>1, <1>2, <1>3, <1>4 DEF LInv, LimitsKept

\* The limits of the calls to the model: slots, tokens, retries and streams are
\* accounted for exactly (request_governance.py, transient_retry.py and the
\* adapters), whatever call fails, is retried or is cancelled at whatever moment,
\* for every number of callers, slots and tokens and every policy of retries.
THEOREM LimitsAreKept == Spec => []LimitsKept
<1>1. TenderInit => LInv
  BY LInvInitially DEF TenderInit
<1>. QED  BY <1>1, LInvKept, LInvImplies, PTL DEF Spec

-----------------------------------------------------------------------------
(* Volumes.                                                                *)

LEMMA IdsTyped ==
  ASSUME NEW doc \in Names
  PROVE  /\ Ids[doc] \in SUBSET Nat /\ IsFiniteSet(Ids[doc])
         /\ \A id \in Ids[doc] : Body(doc)[id].kind # "section"
<1>1. /\ DOMAIN Body(doc) = 1..Len(Body(doc)) /\ Len(Body(doc)) \in Nat
  BY TenderAssumption DEF Names, Body
<1>2. IsFiniteSet(DOMAIN Body(doc)) /\ DOMAIN Body(doc) \in SUBSET Nat
  BY <1>1, FS_Interval
<1>3. Ids[doc] = {n \in DOMAIN Body(doc) : Body(doc)[n].kind # "section" /\ TextOf(Body(doc)[n]) # <<>>}
  BY Zenon DEF Ids
<1>4. Ids[doc] \in SUBSET DOMAIN Body(doc)
  BY <1>3
<1>. QED  BY <1>2, <1>3, <1>4, FS_Subset

\* Positions count the blocks, so they keep their order and tell what lies between.
LEMMA PositionsCount ==
  ASSUME NEW doc \in Names, NEW a \in Ids[doc], NEW b \in Ids[doc]
  PROVE  /\ Position(doc, a) \in Nat /\ Position(doc, b) \in Nat
         /\ a <= b => Position(doc, a) <= Position(doc, b)
         /\ a < b => /\ IsFiniteSet({id \in Ids[doc] : a < id /\ id < b})
                     /\ Cardinality({id \in Ids[doc] : a < id /\ id < b})
                          = Position(doc, b) - Position(doc, a) - 1
<1> DEFINE upTo(x) == {id \in Ids[doc] : id <= x}
           between == {id \in Ids[doc] : a < id /\ id < b}
<1>1. Ids[doc] \in SUBSET Nat /\ IsFiniteSet(Ids[doc]) /\ a \in Nat /\ b \in Nat
  BY IdsTyped
<1>2. \A x : upTo(x) \in SUBSET Ids[doc] /\ between \in SUBSET Ids[doc]
  OBVIOUS
<1>3. /\ IsFiniteSet(upTo(a)) /\ IsFiniteSet(upTo(b)) /\ IsFiniteSet(between)
  BY <1>1, <1>2, FS_Subset
<1>4. /\ Cardinality(upTo(a)) \in Nat /\ Cardinality(upTo(b)) \in Nat
      /\ Cardinality(between) \in Nat
  BY <1>3, FS_CardinalityType
<1>5. Position(doc, a) = Cardinality(upTo(a)) /\ Position(doc, b) = Cardinality(upTo(b))
  BY DEF Position
<1>6. a <= b => Cardinality(upTo(a)) <= Cardinality(upTo(b))
  <2> SUFFICES ASSUME a <= b PROVE Cardinality(upTo(a)) <= Cardinality(upTo(b))
    OBVIOUS
  <2>1. upTo(a) \in SUBSET upTo(b)
    BY <1>1
  <2> HIDE DEF upTo
  <2>. QED  BY <1>3, <2>1, FS_Subset
<1>7. ASSUME a < b
      PROVE  Cardinality(between) = Cardinality(upTo(b)) - Cardinality(upTo(a)) - 1
  <2> DEFINE rest == upTo(b) \ {b}
  <2>1. b \in upTo(b)
    BY <1>1
  <2>2. rest = upTo(a) \cup between /\ upTo(a) \cap between = {}
    BY <1>1, <1>7
  <2>3. Cardinality(rest) = Cardinality(upTo(b)) - 1
    <3> HIDE DEF upTo
    <3>. QED  BY <1>3, <2>1, FS_RemoveElement
  <2> HIDE DEF upTo, between, rest
  <2>4. Cardinality({}) = 0
    BY FS_EmptySet
  <2>5. Cardinality(rest) = Cardinality(upTo(a)) + Cardinality(between) - 0
    BY <1>3, <2>2, <2>4, FS_Union
  <2>. QED  BY <1>4, <2>3, <2>5
<1>. QED  BY <1>3, <1>4, <1>5, <1>6, <1>7

\* The file of a volume goes from its first block to its last.
LEMMA FileOfVolume ==
  ASSUME NEW doc \in Names, NEW output, output.start \in Ids[doc], output.end \in Ids[doc],
         output.start <= output.end
  PROVE  /\ Copied(doc, output) \in SUBSET (output.start..output.end)
         /\ Min(Copied(doc, output)) = output.start /\ Max(Copied(doc, output)) = output.end
<1> DEFINE s == output.start
           e == output.end
           F == Copied(doc, output)
<1>1. s \in Nat /\ e \in Nat /\ Body(doc)[s].kind # "section" /\ Body(doc)[e].kind # "section"
  BY IdsTyped
<1>2. F \in SUBSET (s..e) /\ s \in F /\ e \in F
  BY <1>1 DEF Copied
<1> HIDE DEF s, e, F
<1>3. \A x \in F : x \in Int /\ s <= x /\ x <= e
  BY <1>1, <1>2
<1>4. Min(F) \in F /\ \A y \in F : Min(F) <= y
  <2>1. s \in F /\ \A y \in F : s <= y
    BY <1>2, <1>3
  <2>2. \E x \in F : \A y \in F : x <= y
    BY <2>1, Zenon
  <2>3. Min(F) = CHOOSE x \in F : \A y \in F : x <= y
    BY Zenon DEF Min
  <2>. QED  BY <2>2, <2>3, Zenon
<1>5. Max(F) \in F /\ \A y \in F : Max(F) >= y
  <2>1. e \in F /\ \A y \in F : e >= y
    BY <1>1, <1>2, <1>3
  <2>2. \E x \in F : \A y \in F : x >= y
    BY <2>1, Zenon
  <2>3. Max(F) = CHOOSE x \in F : \A y \in F : x >= y
    BY Zenon DEF Max
  <2>. QED  BY <2>2, <2>3, Zenon
<1>6. Min(F) = s
  <2>1. Min(F) <= s /\ s <= Min(F) /\ Min(F) \in Int
    BY <1>2, <1>3, <1>4
  <2>. QED  BY <1>1, <2>1
<1>7. Max(F) = e
  <2>1. e <= Max(F) /\ Max(F) <= e /\ Max(F) \in Int
    <3>1. Max(F) \in F /\ Max(F) >= e
      BY <1>2, <1>5
    <3>2. Max(F) \in Int /\ Max(F) <= e
      BY <1>3, <3>1
    <3>. QED  BY <1>1, <3>1, <3>2
  <2>. QED  BY <1>1, <2>1
<1>. QED  BY <1>2, <1>6, <1>7 DEF s, e, F

Follows(outputs, i, k) ==
  /\ Earlier(outputs, i, k)
  /\ ~\E l \in DOMAIN outputs : Earlier(outputs, i, l) /\ Earlier(outputs, l, k)

\* A set of numbers has a least element.
LEMMA LeastNumber ==
  ASSUME NEW T \in SUBSET Nat, T # {}
  PROVE  \E x \in T : \A y \in T : x <= y
<1>1. \E x \in T : \A y \in T : ~ (<<y, x>> \in OpToRel(<, Nat))
  BY NatLessThanWellFounded, WFMin
<1>2. ASSUME NEW x \in T, NEW y \in T, ~(<<y, x>> \in OpToRel(<, Nat))
      PROVE  x <= y
  BY <1>2 DEF OpToRel
<1>. QED  BY <1>1, <1>2

\* A volume that is not the last has one that follows it.
LEMMA FollowerExists ==
  ASSUME NEW outputs, NEW n \in Nat, DOMAIN outputs = 1..n,
         \A i \in 1..n : outputs[i].start \in Nat,
         NEW i \in 1..n, NEW k \in 1..n, Earlier(outputs, i, k)
  PROVE  \E l \in 1..n : Follows(outputs, i, l) /\ outputs[l].start <= outputs[k].start
<1> DEFINE later == {l \in 1..n : Earlier(outputs, i, l)}
           starts == {outputs[l].start : l \in later}
<1>1. k \in later /\ outputs[k].start \in starts /\ starts \in SUBSET Nat
  OBVIOUS
<1>2. PICK x \in starts : \A y \in starts : x <= y
  <2> HIDE DEF starts
  <2>. QED  BY <1>1, LeastNumber
<1> DEFINE first == {l \in later : outputs[l].start = x}
<1>3. first # {} /\ first \in SUBSET Nat
  BY <1>2
<1>4. PICK l \in first : \A m \in first : l <= m
  <2> HIDE DEF first
  <2>. QED  BY <1>3, LeastNumber
<1>5. l \in 1..n /\ Earlier(outputs, i, l) /\ outputs[l].start = x
  BY <1>4
<1>6. ASSUME NEW m \in 1..n, Earlier(outputs, i, m), Earlier(outputs, m, l)
      PROVE  FALSE
  <2>1. m \in later /\ outputs[m].start \in starts
    BY <1>6
  <2>2. x <= outputs[m].start /\ outputs[m].start \in Nat /\ x \in Nat
    BY <1>1, <1>2, <2>1
  <2>3. outputs[m].start = x /\ m < l
    BY <1>5, <1>6, <2>2 DEF Earlier
  <2>4. m \in first
    BY <2>1, <2>3
  <2>. QED  BY <1>4, <1>5, <2>3, <2>4
<1>7. outputs[l].start <= outputs[k].start
  BY <1>1, <1>2, <1>5
<1>. QED  BY <1>5, <1>6, <1>7 DEF Follows

\* The boundaries of a valid volume are blocks.
LEMMA BoundariesAreBlocks ==
  ASSUME NEW doc \in Names, NEW a, ValidAnalysis(doc, a), NEW i \in DOMAIN a.outputs,
         None \notin {a.outputs[i].start, a.outputs[i].end}
  PROVE  a.outputs[i].start \in Ids[doc] /\ a.outputs[i].end \in Ids[doc]
<1>1. {a.outputs[i].start, a.outputs[i].end} \in SUBSET OutputRefs(a.outputs[i])
  BY DEF OutputRefs
<1>2. OutputRefs(a.outputs[i]) \in SUBSET References(a)
  BY DEF References
<1>3. References(a) \in SUBSET Ids[doc]
  BY DEF ValidAnalysis
<1>. QED  BY <1>1, <1>2, <1>3

\* What NoOverlap says of neighbours.
LEMMA NeighboursApart ==
  ASSUME NEW doc, NEW a, NoOverlap(doc, a), NEW i \in DOMAIN a.outputs, NEW k \in DOMAIN a.outputs,
         Follows(a.outputs, i, k)
  PROVE  Position(doc, a.outputs[k].start) - Position(doc, a.outputs[i].end) - 1 \in 0..MaxGap
BY DEF NoOverlap, Follows

Bounds(doc, outputs, n) ==
  /\ DOMAIN outputs = 1..n
  /\ \A i \in 1..n : /\ outputs[i].start \in Ids[doc] /\ outputs[i].end \in Ids[doc]
                     /\ outputs[i].start <= outputs[i].end

\* Volumes accepted by NoOverlap lie one after the other.
LEMMA VolumesApart ==
  ASSUME NEW doc \in Names, NEW a, NEW n \in Nat, Bounds(doc, a.outputs, n), NoOverlap(doc, a),
         NEW i \in 1..n, NEW k \in 1..n, Earlier(a.outputs, i, k)
  PROVE  a.outputs[i].end < a.outputs[k].start
<1>1. \A m \in 1..n : a.outputs[m].start \in Nat /\ a.outputs[m].end \in Nat
  BY IdsTyped DEF Bounds
<1>2. PICK l \in 1..n : Follows(a.outputs, i, l) /\ a.outputs[l].start <= a.outputs[k].start
  BY <1>1, FollowerExists DEF Bounds
<1>3. PICK s, e : s = a.outputs[l].start /\ e = a.outputs[i].end
  OBVIOUS
<1>4. s \in Ids[doc] /\ e \in Ids[doc] /\ s \in Nat /\ e \in Nat
  BY <1>1, <1>3 DEF Bounds
<1>5. Position(doc, s) - Position(doc, e) - 1 \in 0..MaxGap
  BY <1>2, <1>3, NeighboursApart DEF Bounds
<1>6. /\ Position(doc, s) \in Nat /\ Position(doc, e) \in Nat
      /\ s <= e => Position(doc, s) <= Position(doc, e)
  BY <1>4, PositionsCount
<1>7. e < s
  BY <1>4, <1>5, <1>6, TenderAssumption
<1>. QED  BY <1>1, <1>2, <1>3, <1>4, <1>7

Files(doc, outputs) == [i \in DOMAIN outputs |-> Copied(doc, outputs[i])]

\* One file is disjoint from the others.
LEMMA OneFileDisjoint ==
  ASSUME NEW doc, NEW files, \A i, k \in DOMAIN files : i = k
  PROVE  Disjoint(doc, files)
BY Zenon DEF Disjoint

\* The files of such volumes are disjoint and leave few blocks out.
LEMMA FilesDisjoint ==
  ASSUME NEW doc \in Names, NEW a, NEW n \in Nat, Bounds(doc, a.outputs, n), NoOverlap(doc, a)
  PROVE  Disjoint(doc, Files(doc, a.outputs))
<1> DEFINE files == Files(doc, a.outputs)
           st(i) == a.outputs[i].start
           en(i) == a.outputs[i].end
           left == {id \in Ids[doc] : \A i \in DOMAIN files : id \notin files[i]}
           between(i, k) == {id \in left : Max(files[i]) < id /\ id < Min(files[k])}
           next(i, k) == /\ Max(files[i]) < Min(files[k])
                         /\ \A l \in DOMAIN files : ~(Max(files[i]) < Min(files[l]) /\ Max(files[l]) < Min(files[k]))
<1>1. DOMAIN files = 1..n /\ \A i \in 1..n : files[i] = Copied(doc, a.outputs[i])
  BY DEF Files, Bounds
<1>2. \A i \in 1..n : /\ st(i) \in Nat /\ en(i) \in Nat /\ st(i) <= en(i)
                      /\ st(i) \in Ids[doc] /\ en(i) \in Ids[doc]
  BY IdsTyped DEF Bounds
<1>3. ASSUME NEW i \in 1..n
      PROVE  files[i] \in SUBSET (st(i)..en(i)) /\ Min(files[i]) = st(i) /\ Max(files[i]) = en(i)
  BY <1>1, <1>2, FileOfVolume
<1>4. ASSUME NEW i \in 1..n, NEW k \in 1..n, Earlier(a.outputs, i, k)
      PROVE  en(i) < st(k)
  BY <1>4, VolumesApart
<1>5. ASSUME NEW i \in 1..n, NEW k \in 1..n, i # k
      PROVE  Earlier(a.outputs, i, k) \/ Earlier(a.outputs, k, i)
  BY <1>2, <1>5 DEF Earlier
<1>6. ASSUME NEW i \in 1..n, NEW k \in 1..n, i # k
      PROVE  files[i] \cap files[k] = {}
  <2>1. en(i) < st(k) \/ en(k) < st(i)
    BY <1>4, <1>5, <1>6
  <2>2. files[i] \in SUBSET (st(i)..en(i)) /\ files[k] \in SUBSET (st(k)..en(k))
    BY <1>3
  <2>3. st(i) \in Nat /\ en(i) \in Nat /\ st(k) \in Nat /\ en(k) \in Nat
    BY <1>2
  <2> HIDE DEF files, st, en
  <2>. QED  BY <2>1, <2>2, <2>3
<1>7. ASSUME NEW i \in 1..n, NEW k \in 1..n, i # k, next(i, k)
      PROVE  Cardinality(between(i, k)) <= MaxGap
  <2>1. en(i) < st(k) /\ \A l \in 1..n : ~(en(i) < st(l) /\ en(l) < st(k))
    <3>1. Max(files[i]) < Min(files[k])
      BY <1>7
    <3>2. ASSUME NEW l \in 1..n, en(i) < st(l), en(l) < st(k) PROVE FALSE
      <4>1. Max(files[i]) < Min(files[l]) /\ Max(files[l]) < Min(files[k])
        BY <3>2, <1>3
      <4>. QED  BY <1>1, <1>7, <4>1
    <3>. QED  BY <3>1, <3>2, <1>3
  <2>2. Earlier(a.outputs, i, k)
    BY <2>1, <1>2 DEF Earlier
  <2>3. Follows(a.outputs, i, k)
    <3>1. ASSUME NEW l \in 1..n, Earlier(a.outputs, i, l), Earlier(a.outputs, l, k) PROVE FALSE
      BY <3>1, <2>1, <1>4
    <3>. QED  BY <2>2, <3>1 DEF Follows, Bounds
  <2>4. Position(doc, st(k)) - Position(doc, en(i)) - 1 \in 0..MaxGap
    BY <2>3, NeighboursApart DEF Bounds
  <2> DEFINE all == {id \in Ids[doc] : en(i) < id /\ id < st(k)}
  <2>5. between(i, k) \in SUBSET all
    <3>1. Max(files[i]) = en(i) /\ Min(files[k]) = st(k)
      BY <1>3
    <3>. QED  BY <3>1
  <2>6. /\ Position(doc, st(k)) \in Nat /\ Position(doc, en(i)) \in Nat
        /\ IsFiniteSet(all) /\ Cardinality(all) = Position(doc, st(k)) - Position(doc, en(i)) - 1
    BY <2>1, <1>2, PositionsCount
  <2> HIDE DEF between, all
  <2>7. Cardinality(between(i, k)) <= Cardinality(all) /\ Cardinality(between(i, k)) \in Nat
    BY <2>5, <2>6, FS_Subset, FS_CardinalityType
  <2>. QED  BY <2>4, <2>6, <2>7, TenderAssumption
<1> HIDE DEF files
<1>. QED  BY <1>1, <1>6, <1>7, Zenon DEF Disjoint, files

-----------------------------------------------------------------------------
(* The jobs.                                                               *)

JobFields == {"doc", "pc", "stage", "calls", "tries", "todo", "results", "gaps", "analysis",
              "files", "outcome"}
AnswerFields == {"status", "package", "start", "end", "outputs", "evidence"}

AnswerOK(a) ==
  /\ DOMAIN a = AnswerFields /\ a.status \in {"completed", "needs_review"}
  /\ Len(a.outputs) \in Nat /\ a.outputs = [i \in 1..Len(a.outputs) |-> a.outputs[i]]
  /\ \A i \in DOMAIN a.outputs : DOMAIN a.outputs[i] = {"name", "slug", "start", "end", "refs"}

OneOutput(a) == AnswerOK(a) /\ DOMAIN a.outputs = 1..1

(* A job under way has no files, and the analysis it verifies one volume. *)
Basic(j) ==
  /\ DOMAIN j = JobFields /\ j.doc \in Names
  /\ j.pc \in {"new", "ask", "wait", "ended"}
  /\ j.calls \in 0..MaxCalls /\ j.tries \in 0..MaxRetries
  /\ j.outcome \in {"none", "failed", "extracted", "completed", "needs_review"}
  /\ (j.outcome \in {"none", "failed"}) = (j.files = <<>>)
Staged(j) ==
  /\ j.pc # "ended" => j.outcome = "none"
  /\ j.stage \in {"boundary", "verify"} => ~Large(j.doc)
  /\ j.stage \in {"chunk", "merge"} => Large(j.doc)
  /\ j.stage = "verify" /\ j.pc # "ended" => OneOutput(j.analysis[1])
JobOK(j) ==
  /\ Basic(j) /\ Staged(j)
  /\ ~Large(j.doc) => Disjoint(j.doc, j.files)
  /\ j.outcome = "completed" /\ j.stage = "merge" => ~j.gaps

JobsInv == job = [t \in Threads |-> job[t]] /\ \A t \in Threads : JobOK(job[t])

LEMMA AnswersAreOK ==
  ASSUME NEW doc \in Names, NEW a \in Answers(doc)
  PROVE  AnswerOK(a) /\ a.package \in {"single", "multi", "uncertain"}
BY TenderAssumption DEF AnswerOK, AnswerFields, Names

\* No files are disjoint.
LEMMA NoFilesDisjoint == \A doc : Disjoint(doc, <<>>)
<1>1. DOMAIN <<>> = {}
  OBVIOUS
<1>2. ASSUME NEW doc PROVE Disjoint(doc, <<>>)
  BY <1>1, OneFileDisjoint
<1>. QED  BY <1>2

\* How jobs go on.
LEMMA FailedOK ==
  ASSUME NEW j, JobOK(j), j.pc # "ended"
  PROVE  JobOK(Failed(j))
<1> DEFINE k == Failed(j)
<1>1. /\ DOMAIN k = DOMAIN j /\ k.pc = "ended" /\ k.outcome = "failed" /\ k.doc = j.doc /\ k.stage = j.stage
      /\ k.calls = j.calls /\ k.tries = j.tries /\ k.files = j.files
  BY DEF Failed, JobOK, Basic, JobFields
<1>2. j.files = <<>>
  BY DEF JobOK, Basic, Staged
<1> HIDE DEF k
<1>3. Basic(k)
  BY <1>1, <1>2 DEF JobOK, Basic
<1>4. Staged(k)
  BY <1>1 DEF JobOK, Staged
<1>5. Disjoint(k.doc, k.files)
  BY <1>1, <1>2, NoFilesDisjoint
<1>. QED  BY <1>1, <1>3, <1>4, <1>5 DEF JobOK, k

(* k is j with other chunks, results or gaps. *)
SameJob(j, k) ==
  /\ DOMAIN k = DOMAIN j /\ k.doc = j.doc /\ k.pc = j.pc /\ k.stage = j.stage /\ k.calls = j.calls
  /\ k.tries = j.tries /\ k.outcome = j.outcome /\ k.files = j.files /\ k.analysis = j.analysis

LEMMA SameJobOK ==
  ASSUME NEW j, NEW k, JobOK(j), j.pc # "ended", SameJob(j, k)
  PROVE  JobOK(k) /\ k.pc # "ended"
<1>1. Basic(k)
  BY DEF JobOK, Basic, SameJob
<1>2. Staged(k)
  BY DEF JobOK, Staged, SameJob
<1>3. k.outcome = "none" /\ k.doc = j.doc /\ k.files = j.files
  BY DEF JobOK, Staged, SameJob
<1>. QED  BY <1>1, <1>2, <1>3 DEF JobOK, SameJob

LEMMA AskOK ==
  ASSUME NEW j, JobOK(j), j.pc # "ended", NEW stage,
         stage \in {"boundary", "verify"} => ~Large(j.doc),
         stage \in {"chunk", "merge"} => Large(j.doc),
         stage = "verify" => OneOutput(j.analysis[1])
  PROVE  JobOK(Ask(j, stage))
<1> DEFINE k == Ask(j, stage)
<1>1. /\ DOMAIN k = DOMAIN j /\ k.pc = "ask" /\ k.outcome = j.outcome /\ k.doc = j.doc /\ k.stage = stage
      /\ k.calls = j.calls /\ k.tries = 0 /\ k.files = j.files /\ k.analysis = j.analysis
  BY DEF Ask, JobOK, Basic, JobFields
<1> HIDE DEF k
<1>2. j.outcome = "none"
  BY DEF JobOK, Staged
<1>3. Basic(k)
  BY <1>1, TenderAssumption DEF JobOK, Basic
<1>4. Staged(k)
  BY <1>1, <1>2 DEF Staged
<1>. QED  BY <1>1, <1>2, <1>3, <1>4 DEF JobOK, k

LEMMA AgainOK ==
  ASSUME NEW j, JobOK(j), j.pc # "ended"
  PROVE  JobOK(Again(j))
<1>1. CASE j.tries < MaxRetries
  <2> DEFINE k == Again(j)
  <2>1. j.tries \in 0..MaxRetries /\ DOMAIN j = JobFields
    BY DEF JobOK, Basic
  <2>2. /\ DOMAIN k = DOMAIN j /\ k.pc = "ask" /\ k.outcome = j.outcome /\ k.doc = j.doc /\ k.stage = j.stage
        /\ k.calls = j.calls /\ k.tries = j.tries + 1 /\ k.files = j.files /\ k.analysis = j.analysis
        /\ k.gaps = j.gaps
    BY <1>1, <2>1 DEF Again, JobFields
  <2> HIDE DEF k
  <2>3. k.tries \in 0..MaxRetries
    BY <1>1, <2>1, <2>2, TenderAssumption
  <2>4. j.outcome = "none"
    BY DEF JobOK, Staged
  <2>5. Basic(k)
    BY <2>2, <2>3 DEF JobOK, Basic
  <2>6. Staged(k)
    BY <2>2, <2>4 DEF JobOK, Staged
  <2>. QED  BY <2>2, <2>4, <2>5, <2>6 DEF JobOK, k
<1>2. CASE ~(j.tries < MaxRetries)
  BY <1>2, FailedOK DEF Again
<1>. QED  BY <1>1, <1>2

LEMMA MergeLevelOK ==
  ASSUME NEW j, JobOK(j), j.pc # "ended", Large(j.doc), NEW items
  PROVE  JobOK(MergeLevel(j, items))
<1>1. CASE \E i \in DOMAIN items : items[i] > MergeChars
  BY <1>1, FailedOK DEF MergeLevel
<1>2. CASE ~\E i \in DOMAIN items : items[i] > MergeChars
  <2>1. PICK k : k = [j EXCEPT !.todo = Batches(items), !.results = <<>>]
    OBVIOUS
  <2>2. SameJob(j, k)
    BY <2>1 DEF SameJob, JobOK, Basic, JobFields
  <2>3. JobOK(k) /\ k.pc # "ended" /\ k.doc = j.doc
    BY <2>2, SameJobOK DEF SameJob
  <2>4. MergeLevel(j, items) = Ask(k, "merge")
    BY <1>2, <2>1 DEF MergeLevel
  <2>. QED  BY <2>3, <2>4, AskOK
<1>. QED  BY <1>1, <1>2

LEMMA RenderedOK ==
  ASSUME NEW j, JobOK(j), j.pc # "ended", NEW a, AnswerOK(a),
         ~Large(j.doc) /\ Renderable(a.outputs) => Disjoint(j.doc, Files(j.doc, a.outputs)),
         j.stage = "merge" /\ a.status = "completed" => ~j.gaps
  PROVE  JobOK(Rendered(j, a))
<1>1. CASE Renderable(a.outputs)
  <2> DEFINE files == Files(j.doc, a.outputs)
             k == [j EXCEPT !.pc = "ended", !.outcome = a.status, !.analysis = <<a>>, !.files = files]
  <2>1. Rendered(j, a) = k
    BY <1>1 DEF Rendered, Files
  <2>2. files # <<>>
    <3>1. a.outputs # <<>> /\ Len(a.outputs) \in Nat /\ a.outputs = [i \in 1..Len(a.outputs) |-> a.outputs[i]]
      BY <1>1 DEF Renderable, AnswerOK
    <3>2. Len(a.outputs) # 0
      <4>1. SUFFICES ASSUME Len(a.outputs) = 0 PROVE FALSE
        OBVIOUS
      <4>2. a.outputs = [i \in 1..0 |-> a.outputs[i]]
        BY <3>1, <4>1
      <4>3. DOMAIN a.outputs = {} /\ 1..0 = {}
        BY <4>2
      <4>4. a.outputs = [i \in {} |-> a.outputs[i]] /\ <<>> = [i \in {} |-> a.outputs[i]]
        BY <4>2, <4>3
      <4>. QED  BY <3>1, <4>4
    <3>3. 1 \in DOMAIN files
      BY <3>1, <3>2 DEF Files
    <3>. QED  BY <3>3
  <2>3. DOMAIN j = JobFields
    BY DEF JobOK, Basic
  <2> HIDE DEF files
  <2>4. /\ DOMAIN k = DOMAIN j /\ k.pc = "ended" /\ k.outcome = a.status /\ k.doc = j.doc
        /\ k.stage = j.stage /\ k.calls = j.calls /\ k.tries = j.tries /\ k.files = files /\ k.gaps = j.gaps
    BY <2>3 DEF JobFields
  <2>5. a.status \in {"completed", "needs_review"}
    BY DEF AnswerOK
  <2> HIDE DEF k
  <2>6. Basic(k)
    BY <2>2, <2>4, <2>5 DEF JobOK, Basic
  <2>7. Staged(k)
    BY <2>4 DEF JobOK, Staged
  <2>8. ~Large(k.doc) => Disjoint(k.doc, k.files)
    BY <1>1, <2>4 DEF files
  <2>. QED  BY <2>1, <2>4, <2>6, <2>7, <2>8 DEF JobOK
<1>2. CASE ~Renderable(a.outputs)
  BY <1>2, FailedOK DEF Rendered
<1>. QED  BY <1>1, <1>2

\* One job goes on.
LEMMA JobTurns ==
  ASSUME JobsInv, NEW t \in Threads, NEW r, JobOK(r), job' = [job EXCEPT ![t] = r]
  PROVE  JobsInv'
<1>1. DOMAIN job = Threads
  BY DEF JobsInv
<1>2. job' = [u \in Threads |-> job'[u]] /\ \A u \in Threads : job'[u] = IF u = t THEN r ELSE job[u]
  BY <1>1
<1>3. ASSUME NEW u \in Threads PROVE JobOK(job'[u])
  <2>1. CASE u = t
    BY <1>2, <2>1
  <2>2. CASE u # t
    BY <1>2, <2>2 DEF JobsInv
  <2>. QED  BY <2>1, <2>2
<1>4. ASSUME NEW u \in Threads PROVE JobOK(job[u])'
  BY <1>3 DEF JobOK, Basic, Staged, Disjoint, Large, OneOutput, AnswerOK
<1>. QED  BY <1>2, <1>4 DEF JobsInv

LEMMA ReadKeeps ==
  ASSUME JobsInv, NEW t \in Threads, Read(t)
  PROVE  JobsInv'
<1> DEFINE j == job[t]
           plan == Plan[j.doc]
<1>1. JobOK(j) /\ j.pc = "new"
  BY DEF JobsInv, Read
<1>2. PICK r : r = IF ~Accepted(j.doc) \/ Blocks[j.doc] = <<>> THEN Failed(j)
                   ELSE IF ~Large(j.doc) THEN Ask(j, "boundary")
                   ELSE IF Len(plan) \notin 1..MaxChunks THEN Failed(j)
                   ELSE Ask([j EXCEPT !.todo = plan], "chunk")
  OBVIOUS
<1>3. job' = [job EXCEPT ![t] = r]
  BY <1>2 DEF Read
<1> HIDE DEF plan
<1>4. PICK k : k = [j EXCEPT !.todo = plan]
  OBVIOUS
<1>5. SameJob(j, k)
  BY <1>1, <1>4 DEF SameJob, JobOK, Basic, JobFields
<1>6. JobOK(k) /\ k.pc # "ended" /\ k.doc = j.doc
  BY <1>1, <1>5, SameJobOK DEF SameJob
<1>7. JobOK(Failed(j))
  BY <1>1, FailedOK
<1>8. ~Large(j.doc) => JobOK(Ask(j, "boundary"))
  <2> SUFFICES ASSUME ~Large(j.doc) PROVE JobOK(Ask(j, "boundary"))
    OBVIOUS
  <2> HIDE DEF j
  <2>. QED  BY <1>1, AskOK
<1>9. Large(j.doc) => JobOK(Ask(k, "chunk"))
  BY <1>6, AskOK
<1> HIDE DEF j
<1>10. JobOK(r)
  BY <1>2, <1>4, <1>7, <1>8, <1>9
<1>. QED  BY <1>3, <1>10, JobTurns

LEMMA ExtractKeeps ==
  ASSUME JobsInv, NEW t \in Threads, Extract(t)
  PROVE  JobsInv'
<1> DEFINE j == job[t]
<1>1. JobOK(j) /\ j.pc = "new"
  BY DEF JobsInv, Extract
<1>2. PICK range \in Extracts(j.doc) :
        job' = [job EXCEPT ![t] =
          IF Accepted(j.doc) /\ {range[1], range[2]} \subseteq Ids[j.doc] /\ range[1] <= range[2]
          THEN [j EXCEPT !.pc = "ended", !.outcome = "extracted",
                         !.files = <<Copied(j.doc, [start |-> range[1], end |-> range[2]])>>]
          ELSE Failed(j)]
  BY DEF Extract
<1> DEFINE known == Accepted(j.doc) /\ {range[1], range[2]} \subseteq Ids[j.doc] /\ range[1] <= range[2]
           files == Copied(j.doc, [start |-> range[1], end |-> range[2]])
<1>3. PICK k : k = [j EXCEPT !.pc = "ended", !.outcome = "extracted", !.files = <<files>>]
  OBVIOUS
<1>4. /\ DOMAIN k = DOMAIN j /\ k.pc = "ended" /\ k.outcome = "extracted" /\ k.doc = j.doc
      /\ k.stage = j.stage /\ k.calls = j.calls /\ k.tries = j.tries /\ k.files = <<files>>
  BY <1>1, <1>3 DEF JobOK, Basic, JobFields
<1>5. k.files # <<>> /\ \A i, l \in DOMAIN k.files : i = l
  BY <1>4
<1>6. Basic(k) /\ Staged(k)
  BY <1>1, <1>4, <1>5 DEF JobOK, Basic, Staged
<1>7. Disjoint(k.doc, k.files)
  BY <1>5, OneFileDisjoint
<1>8. JobOK(k) /\ JobOK(Failed(j))
  BY <1>1, <1>4, <1>6, <1>7, FailedOK DEF JobOK
<1> HIDE DEF j
<1>9. CASE known
  <2>1. job' = [job EXCEPT ![t] = k]
    BY <1>2, <1>3, <1>9
  <2>. QED  BY <1>8, <2>1, JobTurns
<1>10. CASE ~known
  <2>1. job' = [job EXCEPT ![t] = Failed(j)]
    BY <1>2, <1>10
  <2>. QED  BY <1>8, <2>1, JobTurns
<1>. QED  BY <1>9, <1>10

LEMMA CallKeeps ==
  ASSUME JobsInv, NEW t \in Threads, CallModel(t)
  PROVE  JobsInv'
<1> DEFINE j == job[t]
<1>1. JobOK(j) /\ j.pc = "ask" /\ DOMAIN job = Threads
  BY DEF JobsInv, CallModel
<1>2. CASE j.stage \in {"boundary", "verify"} \/ j.calls < MaxCalls
  <2>1. PICK n : n = IF Large(j.doc) THEN j.calls + 1 ELSE j.calls
    OBVIOUS
  <2>2. PICK k : k = [j EXCEPT !.pc = "wait", !.calls = n]
    OBVIOUS
  <2>3. job' = [job EXCEPT ![t] = k]
    BY <1>1, <1>2, <2>1, <2>2 DEF CallModel
  <2>4. /\ DOMAIN k = DOMAIN j /\ k.pc = "wait" /\ k.outcome = j.outcome /\ k.doc = j.doc /\ k.stage = j.stage
        /\ k.calls = n /\ k.tries = j.tries /\ k.files = j.files /\ k.analysis = j.analysis
        /\ k.gaps = j.gaps
    BY <1>1, <2>2 DEF JobOK, Basic, JobFields
  <2>5. n \in 0..MaxCalls
    <3>1. j.calls \in 0..MaxCalls /\ (j.stage \in {"boundary", "verify"} => ~Large(j.doc))
      BY <1>1 DEF JobOK, Basic, Staged
    <3> HIDE DEF j
    <3>. QED  BY <1>2, <2>1, <3>1, TenderAssumption
  <2> HIDE DEF j
  <2>6. Basic(k)
    BY <1>1, <2>4, <2>5 DEF JobOK, Basic
  <2>7. Staged(k)
    BY <1>1, <2>4 DEF JobOK, Staged
  <2>8. JobOK(k)
    BY <1>1, <2>4, <2>6, <2>7 DEF JobOK
  <2>. QED  BY <2>3, <2>8, JobTurns
<1>3. CASE ~(j.stage \in {"boundary", "verify"} \/ j.calls < MaxCalls)
  <2>1. job' = [job EXCEPT ![t] = Failed(j)]
    BY <1>3 DEF CallModel
  <2>2. JobOK(Failed(j))
    BY <1>1, FailedOK
  <2>. QED  BY <2>1, <2>2, JobTurns
<1>. QED  BY <1>2, <1>3

LEMMA EndingKeeps ==
  ASSUME JobsInv, NEW t \in Threads, TimeIsUp(t) \/ NoAnswer(t)
  PROVE  JobsInv'
<1> DEFINE j == job[t]
<1>1. JobOK(j) /\ j.pc # "ended"
  BY DEF JobsInv, TimeIsUp, NoAnswer, Answered
<1>2. JobOK(Failed(j)) /\ JobOK(Again(j))
  BY <1>1, FailedOK, AgainOK
<1>3. job' = [job EXCEPT ![t] = Failed(j)] \/ job' = [job EXCEPT ![t] = Again(j)]
  BY DEF TimeIsUp, NoAnswer
<1>. QED  BY <1>2, <1>3, JobTurns

\* A multi-volume answer that was accepted has disjoint files.
LEMMA AcceptedDisjoint ==
  ASSUME NEW doc \in Names, NEW a, AnswerOK(a), ValidAnalysis(doc, a),
         ExplicitBoundaries(doc, a, FALSE), a.package # "single"
  PROVE  Disjoint(doc, Files(doc, a.outputs))
<1>1. PICK n \in Nat : n = Len(a.outputs)
  BY DEF AnswerOK
<1>2. DOMAIN a.outputs = 1..n
  BY <1>1 DEF AnswerOK
<1>3. ASSUME NEW i \in 1..n
      PROVE  /\ a.outputs[i].start \in Ids[doc] /\ a.outputs[i].end \in Ids[doc]
             /\ a.outputs[i].start <= a.outputs[i].end
  <2>1. InRegion(a, a.outputs[i])
    BY <1>2 DEF ExplicitBoundaries
  <2>. QED  BY <1>2, <2>1, BoundariesAreBlocks DEF InRegion
<1>4. NoOverlap(doc, a)
  BY DEF ExplicitBoundaries
<1>. QED  BY <1>2, <1>3, <1>4, FilesDisjoint DEF Bounds

LEMMA OneOutputDisjoint ==
  ASSUME NEW doc, NEW a, OneOutput(a)
  PROVE  Disjoint(doc, Files(doc, a.outputs))
<1>1. DOMAIN Files(doc, a.outputs) = 1..1
  BY DEF Files, OneOutput
<1>2. \A i, k \in DOMAIN Files(doc, a.outputs) : i = k
  BY <1>1
<1>. QED  BY <1>2, OneFileDisjoint

LEMMA BoundaryKeeps ==
  ASSUME JobsInv, NEW t \in Threads, BoundaryAnswer(t)
  PROVE  JobsInv'
<1> DEFINE j == job[t]
<1>1. JobOK(j) /\ j.pc = "wait" /\ j.stage = "boundary" /\ DOMAIN job = Threads /\ j.doc \in Names
  BY DEF JobsInv, BoundaryAnswer, Got, Answered, JobOK, Basic
<1>2. PICK a \in Answers(j.doc) :
        job' = [job EXCEPT ![t] =
          IF ~(ValidAnalysis(j.doc, a) /\ ExplicitBoundaries(j.doc, a, FALSE)) THEN Failed(j)
          ELSE IF a.package = "single" THEN Ask([j EXCEPT !.analysis = <<a>>], "verify")
          ELSE Rendered(j, a)]
  BY <1>1 DEF BoundaryAnswer
<1>3. AnswerOK(a)
  BY <1>1, AnswersAreOK
<1>4. CASE ~(ValidAnalysis(j.doc, a) /\ ExplicitBoundaries(j.doc, a, FALSE))
  <2>1. job' = [job EXCEPT ![t] = Failed(j)]
    BY <1>2, <1>4
  <2>2. JobOK(Failed(j))
    BY <1>1, FailedOK
  <2>. QED  BY <2>1, <2>2, JobTurns
<1>5. CASE /\ ValidAnalysis(j.doc, a) /\ ExplicitBoundaries(j.doc, a, FALSE)
           /\ a.package = "single"
  <2>1. PICK k : k = [j EXCEPT !.analysis = <<a>>]
    OBVIOUS
  <2>2. job' = [job EXCEPT ![t] = Ask(k, "verify")]
    BY <1>2, <1>5, <2>1
  <2>3. OneOutput(a)
    <3>1. Len(a.outputs) = 1
      BY <1>5 DEF ValidAnalysis
    <3>. QED  BY <1>3, <3>1 DEF OneOutput, AnswerOK
  <2>4. /\ DOMAIN k = DOMAIN j /\ k.doc = j.doc /\ k.pc = j.pc /\ k.stage = j.stage /\ k.calls = j.calls
        /\ k.tries = j.tries /\ k.outcome = j.outcome /\ k.files = j.files /\ k.analysis[1] = a
    BY <1>1, <2>1 DEF JobOK, Basic, JobFields
  <2> HIDE DEF j
  <2>5. Basic(k)
    BY <1>1, <2>4 DEF JobOK, Basic
  <2>6. Staged(k) /\ ~Large(k.doc)
    BY <1>1, <2>4 DEF JobOK, Staged
  <2>7. JobOK(k)
    BY <1>1, <2>4, <2>5, <2>6 DEF JobOK, Staged
  <2>8. JobOK(Ask(k, "verify"))
    <3>1. k.pc # "ended" /\ OneOutput(k.analysis[1])
      BY <1>1, <2>3, <2>4
    <3>. QED  BY <2>6, <2>7, <3>1, AskOK
  <2>. QED  BY <2>2, <2>8, JobTurns
<1>6. CASE /\ ValidAnalysis(j.doc, a) /\ ExplicitBoundaries(j.doc, a, FALSE)
           /\ a.package # "single"
  <2>1. job' = [job EXCEPT ![t] = Rendered(j, a)]
    BY <1>2, <1>6
  <2>2. Disjoint(j.doc, Files(j.doc, a.outputs))
    BY <1>1, <1>3, <1>6, AcceptedDisjoint
  <2> HIDE DEF j
  <2>3. JobOK(Rendered(j, a))
    BY <1>1, <1>3, <2>2, RenderedOK
  <2>. QED  BY <2>1, <2>3, JobTurns
<1>. QED  BY <1>4, <1>5, <1>6

LEMMA VerifyKeeps ==
  ASSUME JobsInv, NEW t \in Threads, VerifyAnswer(t)
  PROVE  JobsInv'
<1> DEFINE j == job[t]
           a == j.analysis[1]
<1>1. JobOK(j) /\ j.pc = "wait" /\ j.stage = "verify" /\ DOMAIN job = Threads /\ OneOutput(a)
  BY DEF JobsInv, VerifyAnswer, Got, Answered, JobOK, Staged
<1>2. PICK v \in Verdicts(j.doc) :
        job' = [job EXCEPT ![t] =
          IF ~v.adjust THEN Rendered(j, a)
          ELSE IF None \notin {v.start, v.end} /\ ValidAnalysis(j.doc, Adjusted(a, v))
                  /\ ExplicitBoundaries(j.doc, Adjusted(a, v), TRUE) THEN Rendered(j, Adjusted(a, v))
          ELSE Failed(j)]
  BY <1>1 DEF VerifyAnswer
<1>3. OneOutput(Adjusted(a, v))
  <2>1. DOMAIN a.outputs = 1..1 /\ DOMAIN a.outputs[1] = {"name", "slug", "start", "end", "refs"}
        /\ DOMAIN a = AnswerFields /\ a.status \in {"completed", "needs_review"}
    BY <1>1 DEF OneOutput, AnswerOK
  <2> HIDE DEF a
  <2>2. PICK o : o = [a.outputs[1] EXCEPT !.start = v.start, !.end = v.end]
    OBVIOUS
  <2>3. PICK b : b = [a EXCEPT !.start = v.start, !.end = v.end, !.outputs = <<o>>]
    OBVIOUS
  <2>4. b = Adjusted(a, v)
    BY <2>1, <2>2, <2>3 DEF Adjusted, AnswerFields
  <2>5. DOMAIN b = AnswerFields /\ b.status = a.status /\ b.outputs = <<o>>
    BY <2>1, <2>3 DEF AnswerFields
  <2>6. DOMAIN o = {"name", "slug", "start", "end", "refs"}
    BY <2>1, <2>2
  <2>7. Len(b.outputs) = 1 /\ DOMAIN b.outputs = 1..1 /\ b.outputs[1] = o
    BY <2>5
  <2>8. b.outputs = [i \in 1..1 |-> b.outputs[i]]
    BY <2>5
  <2>9. AnswerOK(b)
    BY <2>1, <2>5, <2>6, <2>7, <2>8 DEF AnswerOK
  <2>. QED  BY <2>4, <2>7, <2>9 DEF OneOutput
<1> HIDE DEF a
<1>4. ASSUME NEW b, OneOutput(b) PROVE JobOK(Rendered(j, b))
  <2>1. Disjoint(j.doc, Files(j.doc, b.outputs)) /\ AnswerOK(b)
    BY <1>4, OneOutputDisjoint DEF OneOutput
  <2> HIDE DEF j
  <2>. QED  BY <1>1, <2>1, RenderedOK
<1>5. JobOK(Failed(j)) /\ JobOK(Rendered(j, a)) /\ JobOK(Rendered(j, Adjusted(a, v)))
  BY <1>1, <1>3, <1>4, FailedOK
<1>6. \/ job' = [job EXCEPT ![t] = Failed(j)]
      \/ job' = [job EXCEPT ![t] = Rendered(j, a)]
      \/ job' = [job EXCEPT ![t] = Rendered(j, Adjusted(a, v))]
  <2> HIDE DEF j
  <2>. QED  BY <1>2
<1> HIDE DEF j
<1>. QED  BY <1>5, <1>6, JobTurns

LEMMA ChunkKeeps ==
  ASSUME JobsInv, NEW t \in Threads, ChunkAnswer(t)
  PROVE  JobsInv'
<1> DEFINE j == job[t]
<1>1. JobOK(j) /\ j.pc = "wait" /\ j.stage = "chunk" /\ Large(j.doc)
  BY DEF JobsInv, ChunkAnswer, Got, Answered, JobOK, Staged
<1>2. PICK size \in ResultSizes, ownEvidence \in BOOLEAN, complete \in BOOLEAN :
        LET k == [j EXCEPT !.todo = Tail(@), !.results = Append(@, size), !.gaps = @ \/ ~complete]
        IN  job' = [job EXCEPT ![t] =
              IF size > MaxOutput \/ ~ownEvidence THEN Again(j)
              ELSE IF k.todo = <<>> THEN MergeLevel(k, k.results)
              ELSE Ask(k, "chunk")]
  BY DEF ChunkAnswer
<1> DEFINE k == [j EXCEPT !.todo = Tail(@), !.results = Append(@, size), !.gaps = @ \/ ~complete]
<1>3. SameJob(j, k)
  BY <1>1 DEF SameJob, JobOK, Basic, JobFields
<1> HIDE DEF k
<1>4. JobOK(k) /\ k.pc # "ended" /\ Large(k.doc)
  BY <1>1, <1>3, SameJobOK DEF SameJob
<1>5. JobOK(Again(j)) /\ JobOK(MergeLevel(k, k.results)) /\ JobOK(Ask(k, "chunk"))
  BY <1>1, <1>4, AgainOK, MergeLevelOK, AskOK
<1>6. \/ job' = [job EXCEPT ![t] = Again(j)]
      \/ job' = [job EXCEPT ![t] = MergeLevel(k, k.results)]
      \/ job' = [job EXCEPT ![t] = Ask(k, "chunk")]
  BY <1>2 DEF k
<1> HIDE DEF j
<1>. QED  BY <1>5, <1>6, JobTurns

LEMMA MergeKeeps ==
  ASSUME JobsInv, NEW t \in Threads, MergeAnswer(t)
  PROVE  JobsInv'
<1> DEFINE j == job[t]
<1>1. JobOK(j) /\ j.pc = "wait" /\ j.stage = "merge" /\ Large(j.doc) /\ j.doc \in Names
  BY DEF JobsInv, MergeAnswer, Got, Answered, JobOK, Staged, Basic
<1>2. PICK size \in ResultSizes :
        LET k == [j EXCEPT !.todo = Tail(@), !.results = Append(@, size)]
        IN  \/ job' = [job EXCEPT ![t] = Again(j)]
            \/ job' = [job EXCEPT ![t] = Ask(k, "merge")]
            \/ job' = [job EXCEPT ![t] = MergeLevel(k, k.results)]
            \/ \E a \in Answers(j.doc) :
                 job' = [job EXCEPT ![t] = IF ValidAnalysis(j.doc, Reviewed(k, a))
                                           THEN Rendered(k, Reviewed(k, a)) ELSE Failed(k)]
  BY Zenon DEF MergeAnswer
<1> DEFINE k == [j EXCEPT !.todo = Tail(@), !.results = Append(@, size)]
<1>3. SameJob(j, k)
  BY <1>1 DEF SameJob, JobOK, Basic, JobFields
<1> HIDE DEF k
<1>4. JobOK(k) /\ k.pc # "ended" /\ Large(k.doc) /\ k.doc = j.doc
  BY <1>1, <1>3, SameJobOK DEF SameJob
<1>5. JobOK(Again(j)) /\ JobOK(MergeLevel(k, k.results)) /\ JobOK(Ask(k, "merge")) /\ JobOK(Failed(k))
  BY <1>1, <1>4, AgainOK, MergeLevelOK, AskOK, FailedOK
<1>6. ASSUME NEW a \in Answers(j.doc) PROVE JobOK(Rendered(k, Reviewed(k, a)))
  <2>1. AnswerOK(a)
    BY <1>1, AnswersAreOK
  <2>2. AnswerOK(Reviewed(k, a)) /\ (k.gaps => Reviewed(k, a).status = "needs_review")
    BY <2>1 DEF AnswerOK, Reviewed, AnswerFields
  <2>. QED  BY <1>4, <2>2, RenderedOK
<1>7. \/ job' = [job EXCEPT ![t] = Again(j)]
      \/ job' = [job EXCEPT ![t] = MergeLevel(k, k.results)]
      \/ job' = [job EXCEPT ![t] = Ask(k, "merge")]
      \/ job' = [job EXCEPT ![t] = Failed(k)]
      \/ \E a \in Answers(j.doc) : job' = [job EXCEPT ![t] = Rendered(k, Reviewed(k, a))]
  BY <1>2 DEF k
<1> HIDE DEF j
<1>. QED  BY <1>5, <1>6, <1>7, JobTurns

(* The bucket is never fuller than it can be. *)
BucketBounded == tokens <= Capacity /\ since <= Capacity

AInv == LInv /\ BucketBounded /\ JobsInv

LEMMA BucketStays == LInv /\ BucketBounded /\ [Next]_tenderVars => BucketBounded'
<1> SUFFICES ASSUME LInv, BucketBounded, [Next]_tenderVars PROVE BucketBounded'
  OBVIOUS
<1>1. tokens \in Nat /\ since \in Nat /\ Capacity \in Nat /\ RefillTicks \in Nat
  BY CapacityType DEF LInv, Shape
<1>2. CASE UNCHANGED <<tokens, since>>
  BY <1>2 DEF BucketBounded
<1>3. ASSUME NEW p, TakeToken(p) PROVE BucketBounded'
  <2>1. PICK level : level = Least(Capacity, tokens + since)
    OBVIOUS
  <2>2. level \in Nat /\ level <= Capacity
    BY <1>1, <2>1 DEF Least
  <2>3. since' = 0 /\ (tokens' = level \/ tokens' = level - RefillTicks)
    BY <1>3, <2>1 DEF TakeToken
  <2>. QED  BY <1>1, <2>2, <2>3 DEF BucketBounded
<1>4. ASSUME NEW p, Step(p) \/ Cancel(p) PROVE BucketBounded'
  BY <1>2, <1>3, <1>4 DEF Step, AcquireSlot, Respond, RequestFails, NextAttempt, FirstActivity,
                          StreamEnds, StreamBreaks, Closed, Cancel
<1>5. ASSUME NEW t \in Threads, Work(t) \/ Extract(t) \/ TimeIsUp(t) PROVE BucketBounded'
  BY <1>2, <1>5 DEF Work, Read, CallModel, Invoke, NoAnswer, BoundaryAnswer, VerifyAnswer, ChunkAnswer,
                    MergeAnswer, Extract, TimeIsUp, llmVars
<1>6. ASSUME NEW p, Others(p) PROVE BucketBounded'
  <2>1. Start(p) \/ Step(p) \/ Cancel(p)
    BY <1>6 DEF Others
  <2>2. CASE Start(p)
    BY <1>2, <2>2 DEF Start, Invoke
  <2>. QED  BY <1>4, <2>1, <2>2
<1>7. CASE Tick
  BY <1>1, <1>7 DEF Tick, Least, BucketBounded
<1>. QED  BY <1>2, <1>4, <1>5, <1>6, <1>7 DEF Next, tenderVars, llmVars

LEMMA JobsKept == JobsInv /\ [Next]_tenderVars => JobsInv'
<1> SUFFICES ASSUME JobsInv, [Next]_tenderVars PROVE JobsInv'
  OBVIOUS
<1>1. CASE UNCHANGED job
  <2>1. ASSUME NEW t \in Threads PROVE JobOK(job[t])'
    <3>1. JobOK(job'[t])
      BY <1>1 DEF JobsInv
    <3>. QED  BY <3>1 DEF JobOK, Basic, Staged, Disjoint, Large, OneOutput, AnswerOK
  <2>. QED  BY <1>1, <2>1 DEF JobsInv
<1>2. ASSUME NEW t \in Threads, Work(t) \/ Extract(t) \/ TimeIsUp(t) PROVE JobsInv'
  BY <1>2, ReadKeeps, CallKeeps, EndingKeeps, BoundaryKeeps, VerifyKeeps, ChunkKeeps, MergeKeeps,
     ExtractKeeps DEF Work
<1>. QED  BY <1>1, <1>2 DEF Next, Others, tenderVars

LEMMA JobsInitially == TenderInit => JobsInv
<1> SUFFICES ASSUME TenderInit PROVE JobsInv
  OBVIOUS
<1>1. PICK doc \in Names : job = [t \in Threads |-> NewJob(doc)]
  BY DEF TenderInit
<1>2. PICK j : j = NewJob(doc)
  OBVIOUS
<1>3. /\ DOMAIN j = JobFields /\ j.doc = doc /\ j.pc = "new" /\ j.stage = "none" /\ j.calls = 0 /\ j.tries = 0
      /\ j.files = <<>> /\ j.outcome = "none"
  BY <1>2 DEF NewJob, JobFields
<1>4. Basic(j) /\ Staged(j)
  BY <1>3, TenderAssumption DEF Basic, Staged
<1>5. JobOK(j)
  BY <1>3, <1>4, NoFilesDisjoint DEF JobOK
<1>. QED  BY <1>1, <1>2, <1>5 DEF JobsInv

LEMMA AInvImplies == AInv => AnalysisSound
<1> SUFFICES ASSUME AInv PROVE AnalysisSound
  OBVIOUS
<1>1. slots \in 0..MaxConcurrency
  <2>1. {p \in Callers : Holding(p)} \in SUBSET Callers
    OBVIOUS
  <2>2. Cardinality({p \in Callers : Holding(p)}) \in Nat
    BY <2>1, LlmAssumption, FS_Subset, FS_CardinalityType
  <2>. QED  BY <2>2, LlmAssumption DEF AInv, LInv, Shape, SlotsAreExact
<1>2. CallType
  BY <1>1, CapacityType DEF AInv, LInv, Shape, BucketBounded, CallType, CallRecord, PCs, Results
<1>3. ASSUME NEW t \in Threads PROVE JobOK(job[t])
  BY DEF AInv, JobsInv
<1>. QED  BY <1>2, <1>3 DEF AnalysisSound, TypeOK, VolumesDisjoint, CompletedSawAll, JobOK, Basic

\* What the tender agent delivers (service.py, tender_docx.py): a job stays within
\* its calls and retries and has files only when it succeeded; the volumes that a
\* document analysed in one piece is cut into at explicit boundaries share no
\* element and leave few blocks out between them (a chunked document's volumes are
\* not checked by the code, and nothing is said of them); an analysis that was not
\* given all of its chunks never calls itself completed.
THEOREM AnalysisStaysSound == Spec => []AnalysisSound
<1>1. TenderInit => AInv
  <2>1. TenderInit => LInv
    BY LInvInitially DEF TenderInit
  <2>2. TenderInit => BucketBounded
    BY CapacityType DEF TenderInit, LlmInit, BucketBounded
  <2>. QED  BY <2>1, <2>2, JobsInitially DEF AInv
<1>2. AInv /\ [Next]_tenderVars => AInv'
  BY LInvKept, BucketStays, JobsKept DEF AInv
<1>. QED  BY <1>1, <1>2, AInvImplies, PTL DEF Spec
=============================================================================
