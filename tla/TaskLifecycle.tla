---------------------------- MODULE TaskLifecycle ----------------------------
(***************************************************************************)
(* TaskLifecycleService over PostgresTaskRepository.  Every command reads  *)
(* the task row FOR UPDATE, checks the command receipt, runs the domain    *)
(* method and commits task, attempts, events and receipt in one            *)
(* transaction, so a command is one atomic step of the task row and the    *)
(* clock it uses is read under the lock.                                   *)
(*                                                                         *)
(* What is not atomic is kept: the schedulers read their candidates in one *)
(* transaction and act on them in later ones (the first commit of a batch  *)
(* releases the locks of the whole batch), and an executor that holds an   *)
(* attempt may call at any later time, after its lease has run out or the  *)
(* task has moved on, and any number of times.                             *)
(***************************************************************************)
EXTENDS TaskDomain

CONSTANTS
  Keys,          \* submissions: one (owner, task_type, idempotency_key) each
  LeaseTTL,      \* SecureLeaseIssuer ttl
  RetryDelay,    \* TenderTaskExecutor.retry_delay
  RecoveryDelay, \* RecoveryCoordinator retry_delay
  MaxRenewals,   \* bound: renewal sequence numbers
  MaxTime        \* bound: the clock

ASSUME TimingAssumption ==
  /\ LeaseTTL \in Nat \ {0}
  /\ RetryDelay \in Nat \ {0}
  /\ RecoveryDelay \in Nat
  /\ MaxRenewals \in Nat
  /\ MaxTime \in Nat

VARIABLES
  clock,
  tasks,     \* the task, task_attempt and task_event tables
  receipts,  \* the task_command_receipt table
  expired,   \* candidates read by RecoveryCoordinator scans
  due        \* candidates read by RetryScheduler scans

vars == <<clock, tasks, receipts, expired, due>>

ExpiredTaskCandidate == [key : Keys, attempt : Nat, lease : Nat, at : Nat]

DueRetryCandidate == [key : Keys, available : Nat]

CommandReceipt ==
       [type : {"cancel", "manual-retry"}, key : Keys, id : Commands]
  \cup [type : {"requeue"}, key : Keys, id : Nat]
  \cup [type : {"recover"}, key : Keys, id : Nat \X Nat]

Receipt(type, k, id) == [type |-> type, key |-> k, id |-> id]

Init ==
  /\ clock = 0
  /\ tasks = [k \in Keys |-> AbsentTask]
  /\ receipts = {}
  /\ expired = {}
  /\ due = {}

-----------------------------------------------------------------------------
(* Commands of TaskLifecycleService *)

\* save(task) of a command that keeps no receipt.
SaveTask(k, t) ==
  /\ tasks' = [tasks EXCEPT ![k] = t]
  /\ UNCHANGED <<clock, receipts, expired, due>>

\* save(task, command_receipt): the receipt commits with the task.
SaveWithReceipt(k, t, receipt) ==
  /\ tasks' = [tasks EXCEPT ![k] = t]
  /\ receipts' = receipts \cup {receipt}
  /\ UNCHANGED <<clock, expired, due>>

\* create_or_get_submission: a second submission with the key reads the row
\* the first one wrote and returns it, or raises if the inputs differ.
Submit(k, input) ==
  /\ tasks[k].status = "absent"
  /\ SaveTask(k, NewTask(input, clock))

\* The worker reads its clock before it selects the row, so the lease may
\* have lost up to LeaseTTL - 1 of its length when the claim is committed.
Claim(k, lease) ==
  /\ CanClaim(tasks[k], clock, lease)
  /\ SaveTask(k, ClaimTask(tasks[k], clock, lease))

RenewLease(k, n, seq, expiry) ==
  /\ CanRenew(tasks[k], n, seq, expiry, clock)
  /\ SaveTask(k, RenewTask(tasks[k], n, seq, expiry))

Cancel(k, command) ==
  /\ Receipt("cancel", k, command) \notin receipts
  /\ CanRequestCancel(tasks[k])
  /\ SaveWithReceipt(k, RequestCancelTask(tasks[k], command),
                     Receipt("cancel", k, command))

ConfirmCancellation(k, n) ==
  /\ CanConfirmCancel(tasks[k], n, clock)
  /\ SaveTask(k, ConfirmCancelTask(tasks[k], n))

Complete(k, n, result) ==
  /\ CanComplete(tasks[k], n, clock)
  /\ SaveTask(k, CompleteTask(tasks[k], n, result))

\* raised is when the executor computed retry_at, before this transaction.
Fail(k, n, category, result, raised) ==
  /\ CanFail(tasks[k], n, category, raised + RetryDelay, clock)
  /\ SaveTask(k, FailTask(tasks[k], n, category, result, raised + RetryDelay))

Retry(k, command) ==
  /\ Receipt("manual-retry", k, command) \notin receipts
  /\ CanManualRetry(tasks[k], command)
  /\ SaveWithReceipt(k, ManualRetryTask(tasks[k], command, clock),
                     Receipt("manual-retry", k, command))

RequeueDue(c) ==
  /\ Receipt("requeue", c.key, c.available) \notin receipts
  /\ CanRequeueDue(tasks[c.key], c.available, clock)
  /\ SaveWithReceipt(c.key,
                     RequeueDueTask(tasks[c.key], c.available, clock),
                     Receipt("requeue", c.key, c.available))

Recover(c) ==
  LET id      == <<c.attempt, c.lease>>
      retryAt == IF RecoveryDelay > 0 THEN c.at + RecoveryDelay ELSE 0
  IN  /\ Receipt("recover", c.key, id) \notin receipts
      /\ CanRecover(tasks[c.key], c.attempt, clock)
      /\ SaveWithReceipt(c.key,
                         RecoverTask(tasks[c.key], c.attempt, retryAt, clock),
                         Receipt("recover", c.key, id))

-----------------------------------------------------------------------------
(* The scans of the schedulers; a candidate once read stays usable. *)

ScanExpired(k, n) ==
  /\ tasks[k].status \in Executing
  /\ IsActive(tasks[k], n)
  /\ tasks[k].attempts[n].lease <= clock
  /\ expired' = expired \cup {[key |-> k, attempt |-> n,
                               lease |-> tasks[k].attempts[n].lease,
                               at |-> clock]}
  /\ UNCHANGED <<clock, tasks, receipts, due>>

ScanDue(k) ==
  /\ tasks[k].status = "retry_wait"
  /\ tasks[k].available <= clock
  /\ due' = due \cup {[key |-> k, available |-> tasks[k].available]}
  /\ UNCHANGED <<clock, tasks, receipts, expired>>

Tick ==
  /\ clock < MaxTime
  /\ clock' = clock + 1
  /\ UNCHANGED <<tasks, receipts, expired, due>>

-----------------------------------------------------------------------------

\* What the holder of attempt n may ask for.
HolderStep(k, n) ==
  \/ \E seq \in 1..MaxRenewals : \E ext \in 1..LeaseTTL :
        RenewLease(k, n, seq, tasks[k].attempts[n].lease + ext)
  \/ ConfirmCancellation(k, n)
  \/ \E result \in Fingerprints : Complete(k, n, result)
  \/ \E category \in {"transient", "permanent"}, result \in Fingerprints :
        \E raised \in tasks[k].attempts[n].created..clock :
           Fail(k, n, category, result, raised)

TaskStep(k) ==
  \/ \E input \in Fingerprints : Submit(k, input)
  \/ \E lease \in (clock + 1)..(clock + LeaseTTL) : Claim(k, lease)
  \/ \E command \in Commands : Cancel(k, command) \/ Retry(k, command)
  \/ ScanDue(k)
  \/ \E n \in DOMAIN tasks[k].attempts : HolderStep(k, n) \/ ScanExpired(k, n)

SchedulerStep ==
  \/ \E c \in due : RequeueDue(c)
  \/ \E c \in expired : Recover(c)

Next ==
  \/ \E k \in Keys : TaskStep(k)
  \/ SchedulerStep
  \/ Tick

Spec == Init /\ [][Next]_vars

-----------------------------------------------------------------------------
(* Properties *)

\* Every variable has its type (the schema of sql/013_task_lifecycle.sql).
TypeOK ==
  /\ clock \in Nat
  /\ tasks \in [Keys -> Task]
  /\ receipts \subseteq CommandReceipt
  /\ expired \subseteq ExpiredTaskCandidate
  /\ due \subseteq DueRetryCandidate

\* A task is executing exactly when it has an active attempt, only its last
\* attempt can be active and there are never more than MaxAttempts of them:
\* claims, late workers and recovery together never leave two executions with
\* a right to commit (_validate_invariants, max_attempts).
OneActiveAttempt ==
  \A k \in Keys :
     LET t == tasks[k]
     IN  /\ AttemptCount(t) <= MaxAttempts
         /\ t.status \in Executing <=> IsActive(t, AttemptCount(t))
         /\ \A n \in DOMAIN t.attempts :
               n < AttemptCount(t) => ~IsActive(t, n)

\* A waiting task has an attempt left.  claim() raises for a queued task that
\* has none, and get_next_queued_for_update, which orders by available_at,
\* would return that same row to every later poll.
WaitingIsClaimable ==
  \A k \in Keys :
     tasks[k].status \in {"queued", "retry_wait"}
        => AttemptCount(tasks[k]) < MaxAttempts

\* The receipt of an earlier requeue or recovery never answers for the one the
\* task needs now: command ids are built from available_at and from the lease,
\* and if one could repeat, the scheduler would report success for ever
\* without moving the task.
SchedulerCommandIsFresh ==
  \A k \in Keys :
     LET t == tasks[k]
     IN  /\ t.status = "retry_wait"
              => /\ Receipt("requeue", k, t.available) \notin receipts
                 /\ FreshTransition(t, "requeued", t.available)
         /\ \A n \in DOMAIN t.attempts : IsActive(t, n) =>
              Receipt("recover", k, <<n, t.attempts[n].lease>>) \notin receipts

\* Once request_cancel was accepted the task ends cancelled: neither a late
\* success, nor a failure with retries left, nor lease recovery revives it.
CancelSticks ==
  \A k \in Keys :
     tasks[k].cancelAsked
        <=> tasks[k].status \in {"cancel_requested", "cancelled"}

\* Of the attempts that told a result, a success or a failure with its
\* manifest, n is the latest.
LastReport(t, n) ==
  /\ t.attempts[n].status \in {"succeeded", "failed"}
  /\ \A m \in DOMAIN t.attempts :
        t.attempts[m].status \in {"succeeded", "failed"} => m <= n

\* The published result belongs to the attempt that won: a task succeeded if
\* and only if its last attempt did, no other attempt did, and
\* result_fingerprint is the one that attempt committed.  Whatever the status,
\* a stored fingerprint is that of the latest attempt that told one, never an
\* older one's and never one of an attempt that expired or was cancelled.
ResultIsTheWinners ==
  \A k \in Keys :
     LET t == tasks[k]
     IN  /\ \A n \in DOMAIN t.attempts :
              t.attempts[n].status = "succeeded"
                 => n = AttemptCount(t) /\ t.status = "succeeded" /\ ~t.failed
         /\ t.status = "succeeded"
              => \E n \in DOMAIN t.attempts :
                    /\ t.attempts[n].status = "succeeded"
                    /\ t.result = t.attempts[n].result
         /\ t.result # NoFingerprint
              => \E n \in DOMAIN t.attempts :
                    LastReport(t, n) /\ t.result = t.attempts[n].result

\* The status a reader of the event log concludes from its last event.
StatusTold(e) ==
  CASE e.type \in {"created", "requeued", "retry_requested"} -> "queued"
    [] e.type = "claimed"         -> "running"
    [] e.type = "retry_scheduled" -> "retry_wait"
    [] e.type = "recovered"       -> e.outcome
    [] OTHER                      -> e.type

\* The event log, which clients poll instead of the task, tells the truth: its
\* last event names the status the task is in, and there is one claimed event
\* for each attempt, in order.
EventsTellStatus ==
  \A k \in Keys :
     LET t == tasks[k]
     IN  /\ t.status # "absent" <=> t.events # <<>>
         /\ t.events # <<>> => StatusTold(t.events[Len(t.events)]) = t.status
         /\ \A n \in 1..MaxAttempts :
               n \in DOMAIN t.attempts <=> ~FreshTransition(t, "claimed", n)

\* An attempt is expired only after the lease it holds now has run out, which
\* need not be the lease the scan saw, and only its holder ends it otherwise,
\* before that moment: recovery and a worker never both decide an attempt.
LeaseHonoured ==
  [][\A k \in Keys : \A n \in DOMAIN tasks[k].attempts :
        LET old == tasks[k].attempts[n]
            new == tasks'[k].attempts[n]
        IN  old.status = "active" /\ new.status # "active"
               => (new.status = "expired" <=> clock >= old.lease)]_vars

\* Attempts and events are history: a finished attempt keeps its outcome, its
\* lease and its fingerprint, and nothing is removed or rewritten.
HistoryIsAppendOnly ==
  [][\A k \in Keys :
        /\ \A n \in DOMAIN tasks[k].attempts :
              /\ n \in DOMAIN tasks'[k].attempts
              /\ \/ tasks[k].attempts[n].status = "active"
                 \/ tasks'[k].attempts[n] = tasks[k].attempts[n]
        /\ \A i \in DOMAIN tasks[k].events :
              /\ i \in DOMAIN tasks'[k].events
              /\ tasks'[k].events[i] = tasks[k].events[i]]_vars

-----------------------------------------------------------------------------
(* Refinement *)

\* The phase an owner sees (TaskView.status) for a stored status.
PhaseOf(status) ==
  CASE status \in {"queued", "retry_wait"} -> "waiting"
    [] status = "cancel_requested"         -> "stopping"
    [] OTHER                               -> status

Promise == INSTANCE TaskPromise WITH
  Results   <- Fingerprints,
  NoResult  <- NoFingerprint,
  phase     <- [k \in Keys |-> PhaseOf(tasks[k].status)],
  runs      <- [k \in Keys |-> AttemptCount(tasks[k])],
  published <- [k \in Keys |-> IF tasks[k].status = "succeeded"
                               THEN tasks[k].result ELSE NoFingerprint]

\* Leases, receipts, late workers and stale scheduler candidates are invisible
\* to the owner: every step of the lifecycle is a step of TaskPromise or none.
PromiseKept == Promise!Spec

\* The rows of a task agree with each other whatever order late workers, owners
\* and schedulers come in: one active attempt at most, waiting tasks claimable,
\* cancellations final, and a log that tells the status.
TasksConsistent ==
  /\ TypeOK
  /\ OneActiveAttempt
  /\ WaitingIsClaimable
  /\ CancelSticks
  /\ EventsTellStatus

\* Of an attempt, recovery and its holder never both decide the end, and what
\* was decided is never rewritten.
AttemptsHonoured ==
  /\ LeaseHonoured
  /\ HistoryIsAppendOnly
=============================================================================
