----------------------------- MODULE TaskDomain -----------------------------
(***************************************************************************)
(* The Task aggregate of app/platform/task/domain/models.py: its records   *)
(* and, for every method that changes a Task, the condition under which    *)
(* the method does not raise (Can...) and the Task it leaves behind.  A    *)
(* method that raises leaves the stored Task as it was, because the        *)
(* application layer saves only after the method has returned.             *)
(*                                                                         *)
(* Times are integers.  A lease token is drawn from secrets.token_urlsafe  *)
(* for every attempt, so "the caller holds the token of attempt n" is      *)
(* modelled by the caller naming n.                                        *)
(***************************************************************************)
EXTENDS Integers, Sequences

CONSTANTS
  Fingerprints,   \* input and result fingerprints
  Commands,       \* command_id values that HTTP clients send
  NoFingerprint,  \* result_fingerprint is None
  MaxAttempts,    \* Task.max_attempts, fixed by the submission profile
  AllowManualRetry \* Task.allow_manual_retry, fixed by the profile

ASSUME MaxAttemptsAssumption == MaxAttempts \in Nat \ {0}

ASSUME NoFingerprintAssumption == NoFingerprint \notin Fingerprints

ASSUME AllowManualRetryAssumption == AllowManualRetry \in BOOLEAN

-----------------------------------------------------------------------------
(* Records *)

TaskStatus == {"absent", "queued", "running", "retry_wait",
               "cancel_requested", "succeeded", "failed", "cancelled"}

Executing == {"running", "cancel_requested"}

AttemptStatus == {"active", "succeeded", "failed", "cancelled", "expired"}

FailureCategory == {"none", "transient", "permanent", "lease_expired"}

Attempt ==
  [status   : AttemptStatus,
   created  : Nat,              \* created_at
   lease    : Nat,              \* lease_expires_at
   renewal  : Nat,              \* renewal_sequence
   category : FailureCategory,
   result   : Fingerprints \cup {NoFingerprint}]

EventType == {"created", "claimed", "cancel_requested", "cancelled",
              "succeeded", "failed", "retry_scheduled", "requeued",
              "retry_requested", "recovered"}

\* "key" is what makes the transition_id unique within its event type: the
\* attempt number, the command id or the available_at the id is built from.
\* "outcome" is the metadata of a TASK_RECOVERED event and "absent" otherwise.
Event ==
  [type    : EventType,
   key     : Nat \cup Commands,
   outcome : TaskStatus]

Task ==
  [status     : TaskStatus,
   input      : Fingerprints \cup {NoFingerprint},
   available  : Nat,            \* available_at
   cancelAsked: BOOLEAN,        \* cancel_requested_at is set
   attempts   : Seq(Attempt),
   result     : Fingerprints \cup {NoFingerprint},
   failed     : BOOLEAN,        \* failure_code is set
   events     : Seq(Event)]

\* No row with this submission key: the state before create().
AbsentTask ==
  [status |-> "absent", input |-> NoFingerprint, available |-> 0,
   cancelAsked |-> FALSE, attempts |-> <<>>, result |-> NoFingerprint,
   failed |-> FALSE, events |-> <<>>]

AttemptCount(t) == Len(t.attempts)

\* _append_event: the next sequence number is the position in the log.
EventOf(type, key) == [type |-> type, key |-> key, outcome |-> "absent"]

\* The conflict _append_event raises when the transition was already logged.
FreshTransition(t, type, key) ==
  \A i \in DOMAIN t.events :
     ~(t.events[i].type = type /\ t.events[i].key = key)

\* The attempt n of the task is its active attempt (find_attempt followed by
\* the check against active_attempt).
IsActive(t, n) == n \in DOMAIN t.attempts /\ t.attempts[n].status = "active"

\* _assert_active_lease: active, and the lease has not run out.
HoldsLease(t, n, now) == IsActive(t, n) /\ now < t.attempts[n].lease

FinishAttempt(a, status, category, result) ==
  [a EXCEPT !.status = status, !.category = category, !.result = result]

-----------------------------------------------------------------------------
(* Task.create *)

NewTask(input, now) ==
  [AbsentTask EXCEPT
     !.status = "queued", !.input = input, !.available = now,
     !.events = <<EventOf("created", 0)>>]

(* Task.claim *)

CanClaim(t, now, lease) ==
  /\ t.status = "queued"
  /\ now >= t.available
  /\ AttemptCount(t) < MaxAttempts
  /\ lease > now                     \* TaskAttempt.__post_init__

ClaimTask(t, now, lease) ==
  [t EXCEPT
     !.status = "running",
     !.attempts = Append(@, [status |-> "active", created |-> now,
                             lease |-> lease, renewal |-> 0,
                             category |-> "none", result |-> NoFingerprint]),
     !.events = Append(@, EventOf("claimed", AttemptCount(t) + 1))]

(* Task.renew_lease, TaskAttempt.renew.  A replay with the same sequence   *)
(* number and the same expiry changes nothing.                             *)

CanRenew(t, n, seq, expiry, now) ==
  /\ t.status \in Executing
  /\ HoldsLease(t, n, now)
  /\ seq > t.attempts[n].renewal
  /\ expiry > t.attempts[n].lease

RenewTask(t, n, seq, expiry) ==
  [t EXCEPT !.attempts[n] = [@ EXCEPT !.renewal = seq, !.lease = expiry]]

(* Task.request_cancel *)

CanRequestCancel(t) == t.status \in {"queued", "retry_wait", "running"}

RequestCancelTask(t, command) ==
  [t EXCEPT
     !.cancelAsked = TRUE,
     !.status = IF @ = "running" THEN "cancel_requested" ELSE "cancelled",
     !.events = Append(@, EventOf(
        IF t.status = "running" THEN "cancel_requested" ELSE "cancelled",
        command))]

(* Task.confirm_cancel; a replay after the cancellation changes nothing. *)

CanConfirmCancel(t, n, now) ==
  /\ t.status = "cancel_requested"
  /\ HoldsLease(t, n, now)

ConfirmCancelTask(t, n) ==
  [t EXCEPT
     !.status = "cancelled",
     !.attempts[n] = FinishAttempt(@, "cancelled", "none", NoFingerprint),
     !.events = Append(@, EventOf("cancelled", n))]

(* Task.complete; a replay of the same result changes nothing. *)

\* Mutation: a worker may commit after its lease has run out.
CanCompleteLate(t, n, now) == t.status = "running" /\ IsActive(t, n)

CanComplete(t, n, now) ==
  /\ t.status = "running"
  /\ HoldsLease(t, n, now)

\* Mutation: failure_code of an earlier attempt is not reset.
CompleteTaskKeepsFailure(t, n, result) ==
  [t EXCEPT
     !.status = "succeeded",
     !.attempts[n] = FinishAttempt(@, "succeeded", "none", result),
     !.result = result,
     !.events = Append(@, EventOf("succeeded", n))]

CompleteTask(t, n, result) ==
  [t EXCEPT
     !.status = "succeeded",
     !.attempts[n] = FinishAttempt(@, "succeeded", "none", result),
     !.result = result,
     !.failed = FALSE,
     !.events = Append(@, EventOf("succeeded", n))]

(* Task.fail *)

IsRetryable(t, category) ==
  category = "transient" /\ AttemptCount(t) < MaxAttempts

\* Mutation: a failure is accepted while a cancellation is pending.
CanFailWhileCancelling(t, n, category, retryAt, now) ==
  /\ t.status \in Executing
  /\ HoldsLease(t, n, now)
  /\ IsRetryable(t, category) => retryAt >= now

CanFail(t, n, category, retryAt, now) ==
  /\ t.status = "running"
  /\ HoldsLease(t, n, now)
  /\ IsRetryable(t, category) => retryAt >= now

FailTask(t, n, category, result, retryAt) ==
  LET retry == IsRetryable(t, category)
  IN  [t EXCEPT
         !.status = IF retry THEN "retry_wait" ELSE "failed",
         !.available = IF retry THEN retryAt ELSE @,
         !.attempts[n] = FinishAttempt(@, "failed", category, result),
         !.result = result,
         !.failed = TRUE,
         !.events = Append(@, EventOf(
            IF retry THEN "retry_scheduled" ELSE "failed", n))]

(* Task.requeue_due *)

CanRequeueDue(t, key, now) ==
  /\ t.status = "retry_wait"
  /\ now >= t.available
  /\ FreshTransition(t, "requeued", key)

RequeueDueTask(t, key, now) ==
  [t EXCEPT
     !.status = "queued", !.available = now,
     !.events = Append(@, EventOf("requeued", key))]

(* Task.request_manual_retry *)

CanManualRetry(t, command) ==
  /\ t.status = "failed"
  /\ AllowManualRetry
  /\ AttemptCount(t) < MaxAttempts
  /\ FreshTransition(t, "retry_requested", command)

ManualRetryTask(t, command, now) ==
  [t EXCEPT
     !.status = "queued", !.available = now, !.failed = FALSE,
     !.result = NoFingerprint,
     !.events = Append(@, EventOf("retry_requested", command))]

(* Task.recover_expired_attempt *)

CanRecover(t, n, now) ==
  /\ t.status \in Executing
  /\ IsActive(t, n)
  /\ now >= t.attempts[n].lease

RecoveryOutcome(t, retryAt, now) ==
  CASE t.status = "cancel_requested"     -> "cancelled"
    [] t.status # "cancel_requested"
       /\ AttemptCount(t) >= MaxAttempts -> "failed"
    [] OTHER -> IF retryAt > now THEN "retry_wait" ELSE "queued"

\* Mutation: the expired attempt is not finished.
RecoverTaskLeavesAttempt(t, n, retryAt, now) ==
  [t EXCEPT
     !.status = RecoveryOutcome(t, retryAt, now),
     !.events = Append(@, [type |-> "recovered", key |-> n,
                           outcome |-> RecoveryOutcome(t, retryAt, now)])]

\* Mutation: available_at is not moved to the recovery backoff.
RecoverTaskKeepsAvailability(t, n, retryAt, now) ==
  [t EXCEPT
     !.status = RecoveryOutcome(t, retryAt, now),
     !.attempts[n] = FinishAttempt(@, "expired", "lease_expired",
                                   NoFingerprint),
     !.events = Append(@, [type |-> "recovered", key |-> n,
                           outcome |-> RecoveryOutcome(t, retryAt, now)])]

RecoverTask(t, n, retryAt, now) ==
  LET outcome == RecoveryOutcome(t, retryAt, now)
  IN  [t EXCEPT
         !.status = outcome,
         !.available = CASE outcome = "retry_wait" -> retryAt
                         [] outcome = "queued"     -> now
                         [] OTHER                  -> @,
         !.failed = @ \/ outcome = "failed",
         !.attempts[n] = FinishAttempt(@, "expired", "lease_expired",
                                       NoFingerprint),
         !.events = Append(@, [type |-> "recovered", key |-> n,
                               outcome |-> outcome])]
=============================================================================
