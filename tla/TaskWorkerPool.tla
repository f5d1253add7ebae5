--------------------------- MODULE TaskWorkerPool ---------------------------
(***************************************************************************)
(* Worker processes (TaskWorkerRunner, TaskWorker, TenderTaskExecutor)     *)
(* working on one task row and one result directory                        *)
(* (FilesystemTenderTaskResultStore): who runs which stage when, what an   *)
(* execution does between the moments it looks at the task, crashes, and   *)
(* files written outside the transaction.                                  *)
(*                                                                         *)
(* Time is relative: now is 0, available, lease and retryAt are distances  *)
(* to it and PoolTick shrinks them, so the state space is finite and       *)
(* liveness can be checked.  Event log and receipts are left out:         *)
(* TaskLifecycle proves that a receipt never swallows the command a task   *)
(* needs.                                                                  *)
(***************************************************************************)
EXTENDS TaskDomain

CONSTANTS
  Workers,     \* worker processes
  LeaseTTL,    \* SecureLeaseIssuer ttl
  RetryDelay,  \* TenderTaskExecutor.retry_delay
  Client,      \* a command id
  ConversationBound, \* the submission names a conversation
  Snapshot,    \* input_fingerprint of the submission
  FailureCode, \* what a failed attempt stores in place of a result fingerprint
  ArtifactsOf  \* for a result fingerprint, the artifacts of that result

ASSUME PoolAssumption ==
  /\ LeaseTTL \in Nat \ {0}
  /\ RetryDelay \in Nat \ {0}
  /\ ConversationBound \in BOOLEAN
  /\ Client \in Commands
  /\ {Snapshot, FailureCode} \subseteq Fingerprints
  /\ DOMAIN ArtifactsOf \subseteq Fingerprints

VARIABLES
  task,      \* the row, its times relative to now
  pc,        \* where each worker is in its loop
  work,      \* what its current execution knows
  manifest,  \* resources/{task_id}.json: the result it lists, if any
  document,  \* {task_id}.json: the result it was written from, if any
  overlap    \* history: two executions were in the result store together

files == <<manifest, document>>

\* The fingerprints results can have.
Results == DOMAIN ArtifactsOf

poolVars == <<task, pc, work, manifest, document, overlap>>

Stage == {"recovery", "retry", "poll"}

Outcome == {"none", "success", "transient", "permanent", "cancelled"}

Work == [attempt : Nat, outcome : Outcome,
         result : Fingerprints \cup {NoFingerprint}, retryAt : Int]

NoWork == [attempt |-> 0, outcome |-> "none", result |-> NoFingerprint,
           retryAt |-> 0]

PoolInit ==
  /\ task = AbsentTask
  /\ pc = [w \in Workers |-> "recovery"]
  /\ work = [w \in Workers |-> NoWork]
  /\ manifest = NoFingerprint
  /\ document = NoFingerprint
  /\ overlap = FALSE

\* The row without its event log.
Stored(t) == [t EXCEPT !.events = <<>>]

GoTo(w, where) == pc' = [pc EXCEPT ![w] = where]

-----------------------------------------------------------------------------
(* TaskWorkerRunner.run_once: recovery, retry and execution in this order, *)
(* each in a session of its own.                                           *)

RecoveryStage(w) ==
  /\ pc[w] = "recovery"
  /\ GoTo(w, "retry")
  /\ LET n == AttemptCount(task)
     IN  task' = IF CanRecover(task, n, 0)
                 THEN Stored(RecoverTask(task, n, 0, 0))
                 ELSE task
  /\ UNCHANGED <<work, files, overlap>>

RetryStage(w) ==
  /\ pc[w] = "retry"
  /\ GoTo(w, "poll")
  /\ task' = IF CanRequeueDue(task, 0, 0)
             THEN Stored(RequeueDueTask(task, 0, 0))
             ELSE task
  /\ UNCHANGED <<work, files, overlap>>

\* TaskWorker.poll_once up to the claim.  lease is what is left of the TTL
\* that was counted from before the row was selected.
Claim(w, lease) ==
  /\ pc[w] = "poll"
  /\ CanClaim(task, 0, lease)
  /\ task' = Stored(ClaimTask(task, 0, lease))
  /\ work' = [work EXCEPT ![w] =
                [NoWork EXCEPT !.attempt = AttemptCount(task) + 1]]
  /\ GoTo(w, "read")
  /\ UNCHANGED <<files, overlap>>

\* Mutation: the runner repeats its last stage only.
PollIdleKeepsPolling(w) ==
  /\ pc[w] = "poll"
  /\ ~(task.status = "queued" /\ task.available <= 0)
  /\ UNCHANGED poolVars

\* WorkerPollStatus.IDLE, then the wait for the poll interval.
PollIdle(w) ==
  /\ pc[w] = "poll"
  /\ ~(task.status = "queued" /\ task.available <= 0)
  /\ GoTo(w, "recovery")
  /\ UNCHANGED <<task, work, files, overlap>>

-----------------------------------------------------------------------------
(* TenderTaskExecutor.execute *)

\* TaskLifecycleService.is_cancel_requested: false for a lost lease.
CancelSeen(w) ==
  /\ task.status = "cancel_requested"
  /\ HoldsLease(task, work[w].attempt, 0)

\* The execution ends with an outcome that poll_once has to commit.
Ends(w, outcome, result, retryAt) ==
  /\ work' = [work EXCEPT ![w] = [@ EXCEPT !.outcome = outcome,
                                           !.result = result,
                                           !.retryAt = retryAt]]
  /\ GoTo(w, "commit")

\* A failure code stands in the place of the result.
Fails(w) == Ends(w, "permanent", FailureCode, 0)

\* Cancellation check, snapshot, cancellation check.
ReadSnapshot(w) ==
  /\ pc[w] = "read"
  /\ \/ CancelSeen(w) /\ Ends(w, "cancelled", NoFingerprint, 0)
     \/ Fails(w)
     \/ ~CancelSeen(w) /\ GoTo(w, "renew") /\ UNCHANGED work
  /\ UNCHANGED <<task, files, overlap>>

\* context.renew_lease(); a rejected renewal is an exception that the executor
\* turns into a permanent failure.
RenewLease(w) ==
  LET n == work[w].attempt
      expiry == task.attempts[n].lease + LeaseTTL
  IN  /\ pc[w] = "renew"
      /\ IF CanRenew(task, n, 1, expiry, 0)
         THEN /\ task' = RenewTask(task, n, 1, expiry)
              /\ GoTo(w, "render")
              /\ UNCHANGED work
         ELSE /\ Fails(w)
              /\ UNCHANGED task
      /\ UNCHANGED <<files, overlap>>

\* TenderApplication.execute: an answer of the model, which need not be the
\* one of an earlier attempt, an upstream failure or a permanent one.
Render(w) ==
  /\ pc[w] = "render"
  /\ \/ /\ \E f \in Results : work' = [work EXCEPT ![w].result = f]
        /\ GoTo(w, "check")
     \/ Ends(w, "transient", FailureCode, RetryDelay)
     \/ Fails(w)
  /\ UNCHANGED <<task, files, overlap>>

\* An execution is inside FilesystemTenderTaskResultStore.save.
InStore(w) == pc[w] \in {"save", "stage", "look", "write"}

\* The last cancellation check, before the result is stored.
CheckBeforeSave(w) ==
  /\ pc[w] = "check"
  /\ IF CancelSeen(w)
     THEN Ends(w, "cancelled", NoFingerprint, 0) /\ UNCHANGED overlap
     ELSE /\ GoTo(w, "save")
          /\ overlap' = (overlap \/ \E v \in Workers : InStore(v))
          /\ UNCHANGED work
  /\ UNCHANGED <<task, files>>

\* Two results list the same artifacts: _resource_identity compares name, type,
\* size and hash of each file.  _result_fingerprint hashes the analysis, the
\* model and the prompt version as well, so the fingerprints may differ.
SameArtifacts(f, g) ==
  /\ {f, g} \subseteq Results
  /\ ArtifactsOf[f] = ArtifactsOf[g]

\* Mutation: a manifest of the task is reused whatever it lists.
LookForManifestReusesAny(w) ==
  /\ pc[w] = "save"
  /\ GoTo(w, IF ConversationBound /\ manifest = NoFingerprint
             THEN "stage" ELSE "look")
  /\ UNCHANGED <<task, work, files, overlap>>

\* save: without a conversation no resources are kept.  save_resources looks
\* for a manifest: one that lists the same artifacts is reused, whatever else
\* the results differ in, if its attachments can still be read; any other one
\* is refused.
LookForManifest(w) ==
  /\ pc[w] = "save"
  /\ \/ /\ ConversationBound => SameArtifacts(manifest, work[w].result)
        /\ GoTo(w, "look")
        /\ UNCHANGED work
     \/ /\ ConversationBound
        /\ manifest = NoFingerprint
        /\ GoTo(w, "stage")
        /\ UNCHANGED work
     \/ /\ ConversationBound
        /\ manifest # NoFingerprint
        /\ Fails(w)
  /\ UNCHANGED <<task, files, overlap>>

\* Mutation: an error while the resources are written is swallowed.
WriteManifestSwallowsError(w) ==
  /\ pc[w] = "stage"
  /\ manifest' \in {manifest, work[w].result}
  /\ GoTo(w, "look")
  /\ UNCHANGED <<task, work, document, overlap>>

\* Attachments are staged and the manifest replaces whatever is there, or
\* staging fails and what was created is discarded.
WriteManifest(w) ==
  /\ pc[w] = "stage"
  /\ \/ /\ manifest' = work[w].result
        /\ GoTo(w, "look")
        /\ UNCHANGED work
     \/ Fails(w) /\ UNCHANGED manifest
  /\ UNCHANGED <<task, document, overlap>>

\* A document of the same task and owner is kept whatever it says.
LookForDocument(w) ==
  /\ pc[w] = "look"
  /\ IF document = NoFingerprint
     THEN GoTo(w, "write") /\ UNCHANGED work
     ELSE Ends(w, "success", work[w].result, 0)
  /\ UNCHANGED <<task, files, overlap>>

WriteDocument(w) ==
  /\ pc[w] = "write"
  /\ \/ document' = work[w].result /\ Ends(w, "success", work[w].result, 0)
     \/ Fails(w) /\ UNCHANGED document
  /\ UNCHANGED <<task, manifest, overlap>>

-----------------------------------------------------------------------------
(* The end of poll_once: a command that is not accepted is dropped. *)

CommitTo(t, job) ==
  LET n == job.attempt
  IN  CASE job.outcome = "success" /\ CanComplete(t, n, 0)
             -> CompleteTask(t, n, job.result)
        [] job.outcome = "cancelled" /\ CanConfirmCancel(t, n, 0)
             -> ConfirmCancelTask(t, n)
        [] job.outcome \in {"transient", "permanent"}
           /\ CanFail(t, n, job.outcome, job.retryAt, 0)
             -> FailTask(t, n, job.outcome, job.result, job.retryAt)
        [] OTHER -> t

Commit(w) ==
  /\ pc[w] = "commit"
  /\ task' = Stored(CommitTo(task, work[w]))
  /\ work' = [work EXCEPT ![w] = NoWork]
  /\ GoTo(w, "recovery")
  /\ UNCHANGED <<files, overlap>>

WorkerStep(w) ==
  \/ RecoveryStage(w) \/ RetryStage(w) \/ PollIdle(w)
  \/ \E lease \in 1..LeaseTTL : Claim(w, lease)
  \/ ReadSnapshot(w) \/ RenewLease(w) \/ Render(w) \/ CheckBeforeSave(w)
  \/ LookForManifest(w) \/ WriteManifest(w)
  \/ LookForDocument(w) \/ WriteDocument(w) \/ Commit(w)

\* The process dies during an execution and is started again; between two
\* executions a restart changes nothing.
WorkerDies(w) ==
  /\ pc[w] \notin Stage
  /\ work' = [work EXCEPT ![w] = NoWork]
  /\ GoTo(w, "recovery")
  /\ UNCHANGED <<task, files, overlap>>

-----------------------------------------------------------------------------
(* Owner and clock *)

Submit ==
  /\ task.status = "absent"
  /\ task' = Stored(NewTask(Snapshot, 0))
  /\ UNCHANGED <<pc, work, files, overlap>>

Cancel ==
  /\ CanRequestCancel(task)
  /\ task' = Stored(RequestCancelTask(task, Client))
  /\ UNCHANGED <<pc, work, files, overlap>>

ManualRetry ==
  /\ CanManualRetry(task, Client)
  /\ task' = Stored(ManualRetryTask(task, Client, 0))
  /\ UNCHANGED <<pc, work, files, overlap>>

Sooner(time, floor) == IF time > floor THEN time - 1 ELSE time

\* One unit of time passes for the row and for the retry_at of executions.
PoolTick ==
  /\ task' = [task EXCEPT
                !.available = Sooner(@, 0),
                !.attempts = [n \in DOMAIN task.attempts |->
                   [task.attempts[n] EXCEPT !.lease = Sooner(@, 0)]]]
  /\ work' = [w \in Workers |-> [work[w] EXCEPT !.retryAt = Sooner(@, -1)]]
  /\ UNCHANGED <<pc, files, overlap>>

PoolNext ==
  \/ \E w \in Workers : WorkerStep(w) \/ WorkerDies(w)
  \/ Submit \/ Cancel \/ ManualRetry
  \/ PoolTick

\* Workers keep polling and every call they make returns (the clients have
\* timeouts); time passes.  Nothing obliges an owner or a crash.
Fairness ==
  /\ WF_poolVars(PoolTick)
  /\ \A w \in Workers : WF_poolVars(WorkerStep(w))

PoolSpec == PoolInit /\ [][PoolNext]_poolVars /\ Fairness

-----------------------------------------------------------------------------
(* Properties *)

\* Every variable has its type; a row or an execution never has a time
\* further away than the lease and the retry delay allow.
PoolTypeOK ==
  /\ task \in Task
  /\ pc \in [Workers -> Stage \cup {"read", "renew", "render", "check", "save",
                                    "stage", "look", "write", "commit"}]
  /\ work \in [Workers -> Work]
  /\ {manifest, document} \subseteq Results \cup {NoFingerprint}
  /\ overlap \in BOOLEAN
  /\ task.available <= RetryDelay
  /\ \A n \in DOMAIN task.attempts : task.attempts[n].lease <= 2 * LeaseTTL

\* Of all the executions that are still going on, those of crashed and
\* recovered attempts included, at most one could commit to the task.
OneCommitter ==
  \A v, w \in Workers :
     /\ HoldsLease(task, work[v].attempt, 0)
     /\ HoldsLease(task, work[w].attempt, 0)
     => v = w

\* A succeeded task has its files: TenderTaskExecutor stores resources and
\* document before it reports success, whoever stored them and however many
\* executions died on the way.
DeliverableExists ==
  task.status = "succeeded"
     => /\ document # NoFingerprint
        /\ ConversationBound => manifest # NoFingerprint

\* The artifacts delivered for a succeeded task, by the manifest and by the
\* document, are those of the result its result_fingerprint was computed from,
\* although executions that crashed between storing and committing may have
\* left their own files.  (The rest of the document, analysis, model and prompt
\* version, may be an earlier execution's: a document that exists is kept, and
\* only artifacts are compared.  When an execution that lost its lease is in
\* the store beside the next one, each may replace the manifest of the other:
\* save_resources looks for one and writes it in two steps.)
DeliveredIsCommitted ==
  task.status = "succeeded" /\ ConversationBound /\ ~overlap
     => /\ SameArtifacts(manifest, task.result)
        /\ SameArtifacts(document, task.result)

\* A submitted task ends, whatever crashes, expires or fails: every execution
\* that disappears is noticed, requeued and run again until the attempts are
\* used up.
Terminates ==
  task.status \in {"queued", "running", "retry_wait", "cancel_requested"}
     ~> task.status \in {"succeeded", "failed", "cancelled"}

\* However many executions crash, expire or overlap, at most one can commit,
\* and a success has its files.
PoolConsistent ==
  /\ PoolTypeOK
  /\ OneCommitter
  /\ DeliverableExists
=============================================================================
