---------------------------- MODULE TaskPromise ----------------------------
(***************************************************************************)
(* What the task subsystem promises the owner of a task, with no attempts, *)
(* leases, receipts, schedulers or clocks: a submission is executed at     *)
(* most MaxAttempts times, ends at most once in success or cancellation,   *)
(* and what it publishes is published with its success and for good.       *)
(* TaskLifecycle implements this specification (PromiseKept there).        *)
(***************************************************************************)
EXTENDS Naturals

CONSTANTS Keys, Results, NoResult, MaxAttempts, AllowManualRetry

VARIABLES
  phase,      \* where the owner sees each task
  runs,       \* executions granted so far
  published   \* the result the owner may rely on

vars == <<phase, runs, published>>

Phase == {"absent", "waiting", "running", "stopping",
          "succeeded", "failed", "cancelled"}

Init ==
  /\ phase = [k \in Keys |-> "absent"]
  /\ runs = [k \in Keys |-> 0]
  /\ published = [k \in Keys |-> NoResult]

Move(k, from, to) ==
  /\ phase[k] = from
  /\ phase' = [phase EXCEPT ![k] = to]

Accept(k) == Move(k, "absent", "waiting") /\ UNCHANGED <<runs, published>>

Start(k) ==
  /\ runs[k] < MaxAttempts
  /\ Move(k, "waiting", "running")
  /\ runs' = [runs EXCEPT ![k] = @ + 1]
  /\ UNCHANGED published

\* The execution failed or was lost and another one is granted.
Postpone(k) ==
  /\ runs[k] < MaxAttempts
  /\ Move(k, "running", "waiting")
  /\ UNCHANGED <<runs, published>>

Succeed(k, r) ==
  /\ Move(k, "running", "succeeded")
  /\ published' = [published EXCEPT ![k] = r]
  /\ UNCHANGED runs

GiveUp(k) == Move(k, "running", "failed") /\ UNCHANGED <<runs, published>>

\* The owner asks for a manual retry of a failed task.
Reopen(k) ==
  /\ AllowManualRetry
  /\ runs[k] < MaxAttempts
  /\ Move(k, "failed", "waiting")
  /\ UNCHANGED <<runs, published>>

Cancel(k) ==
  /\ Move(k, "waiting", "cancelled") \/ Move(k, "running", "stopping")
  /\ UNCHANGED <<runs, published>>

Stopped(k) == Move(k, "stopping", "cancelled") /\ UNCHANGED <<runs, published>>

Next ==
  \E k \in Keys :
     \/ Accept(k) \/ Start(k) \/ Postpone(k) \/ GiveUp(k) \/ Reopen(k)
     \/ Cancel(k) \/ Stopped(k)
     \/ \E r \in Results : Succeed(k, r)

Spec == Init /\ [][Next]_vars
=============================================================================
