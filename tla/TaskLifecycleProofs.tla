------------------------- MODULE TaskLifecycleProofs -------------------------
(***************************************************************************)
(* Proofs about TaskLifecycle for every set of tasks, commands and         *)
(* fingerprints and every delay and limit.  TaskInv is the inductive       *)
(* invariant of one task: the five properties of a single task need each   *)
(* other (a claim can only add an attempt because no attempt is active,    *)
(* which needs the status, which the log tells).  Evolves says what a step *)
(* may do to a task's history; the action properties follow from it.       *)
(* ReceiptsInv relates receipts, candidates and tasks.  The last part      *)
(* shows that TaskLifecycle implements TaskPromise.                        *)
(***************************************************************************)
EXTENDS TaskLifecycle, TLAPS

AttemptsInv(t) ==
  /\ AttemptCount(t) <= MaxAttempts
  /\ t.status \in Executing <=> IsActive(t, AttemptCount(t))
  /\ \A n \in DOMAIN t.attempts : n < AttemptCount(t) => ~IsActive(t, n)

WaitingInv(t) ==
  t.status \in {"queued", "retry_wait"} => AttemptCount(t) < MaxAttempts

CancelInv(t) ==
  t.cancelAsked <=> t.status \in {"cancel_requested", "cancelled"}

WinnerInv(t) ==
  /\ \A n \in DOMAIN t.attempts :
       t.attempts[n].status = "succeeded"
          => n = AttemptCount(t) /\ t.status = "succeeded" /\ ~t.failed
  /\ t.status = "succeeded"
       => \E n \in DOMAIN t.attempts :
             /\ t.attempts[n].status = "succeeded"
             /\ t.result = t.attempts[n].result
  /\ t.result # NoFingerprint
       => \E n \in DOMAIN t.attempts :
             LastReport(t, n) /\ t.result = t.attempts[n].result

EventsInv(t) ==
  /\ t.status # "absent" <=> t.events # <<>>
  /\ t.events # <<>> => StatusTold(t.events[Len(t.events)]) = t.status
  /\ \A n \in 1..MaxAttempts :
        n \in DOMAIN t.attempts <=> ~FreshTransition(t, "claimed", n)

TaskInv(t) ==
  /\ AttemptsInv(t)
  /\ WaitingInv(t)
  /\ CancelInv(t)
  /\ WinnerInv(t)
  /\ EventsInv(t)

\* What a step at time now may do to the history of a task.
AttemptsEvolve(t, u, now) ==
  \A n \in DOMAIN t.attempts :
     LET old == t.attempts[n]
         new == u.attempts[n]
     IN  /\ n \in DOMAIN u.attempts
         /\ old.status = "active" \/ new = old
         /\ old.status = "active" /\ new.status # "active"
               => (new.status = "expired" <=> now >= old.lease)

EventsEvolve(t, u) ==
  \A i \in DOMAIN t.events :
     i \in DOMAIN u.events /\ u.events[i] = t.events[i]

Evolves(t, u, now) == AttemptsEvolve(t, u, now) /\ EventsEvolve(t, u)

-----------------------------------------------------------------------------

\* What Append does to length, domain and elements.
LEMMA AppendProperties ==
  ASSUME NEW S, NEW s \in Seq(S), NEW e \in S
  PROVE  /\ Append(s, e) \in Seq(S)
         /\ Len(Append(s, e)) = Len(s) + 1
         /\ DOMAIN Append(s, e) = 1..(Len(s) + 1)
         /\ \A i \in 1..Len(s) : Append(s, e)[i] = s[i]
         /\ Append(s, e)[Len(s) + 1] = e
         /\ Append(s, e) # <<>>
  OBVIOUS

\* Replacing one element keeps length, domain and the other elements.
LEMMA ReplaceProperties ==
  ASSUME NEW S, NEW s \in Seq(S), NEW n \in DOMAIN s, NEW e \in S
  PROVE  /\ [s EXCEPT ![n] = e] \in Seq(S)
         /\ Len([s EXCEPT ![n] = e]) = Len(s)
         /\ DOMAIN [s EXCEPT ![n] = e] = DOMAIN s
         /\ \A i \in DOMAIN s : i # n => [s EXCEPT ![n] = e][i] = s[i]
         /\ [s EXCEPT ![n] = e][n] = e
  OBVIOUS

\* EventOf builds an event whose fields are its arguments.
LEMMA EventOfType ==
  ASSUME NEW type \in EventType, NEW key \in Nat \cup Commands
  PROVE  EventOf(type, key) \in Event
  BY DEF EventOf, Event, TaskStatus

\* TaskAttempt.finish keeps creation time, lease and renewal sequence.
LEMMA FinishAttemptType ==
  ASSUME NEW a \in Attempt, NEW status \in AttemptStatus,
         NEW category \in FailureCategory,
         NEW result \in Fingerprints \cup {NoFingerprint}
  PROVE  /\ FinishAttempt(a, status, category, result) \in Attempt
         /\ FinishAttempt(a, status, category, result).status = status
         /\ FinishAttempt(a, status, category, result).result = result
  BY DEF FinishAttempt, Attempt

\* TaskAttempt.renew leaves the status alone.
LEMMA RenewedAttemptType ==
  ASSUME NEW a \in Attempt, NEW seq \in Nat, NEW expiry \in Nat
  PROVE  /\ [a EXCEPT !.renewal = seq, !.lease = expiry] \in Attempt
         /\ [a EXCEPT !.renewal = seq, !.lease = expiry].status = a.status
         /\ [a EXCEPT !.renewal = seq, !.lease = expiry].result = a.result
  BY DEF Attempt


-----------------------------------------------------------------------------
(* TaskInv is kept by a method that finishes the active attempt, and by one *)
(* that leaves the attempts alone.                                          *)

\* The active attempt of a task is its last one.
LEMMA ActiveIsLast ==
  ASSUME NEW t \in Task, AttemptsInv(t), NEW n, IsActive(t, n)
  PROVE  /\ n \in DOMAIN t.attempts
         /\ n = AttemptCount(t)
         /\ t.status \in Executing
BY DEF AttemptsInv, IsActive, AttemptCount, Task

\* After an append, only the transition of the new event is no longer fresh.
LEMMA FreshAfterAppend ==
  ASSUME NEW t \in Task, NEW u \in Task, NEW e \in Event,
         u.events = Append(t.events, e), NEW type, NEW key
  PROVE  FreshTransition(u, type, key)
            <=> /\ FreshTransition(t, type, key)
                /\ ~(e.type = type /\ e.key = key)
<1>1. /\ DOMAIN u.events = 1..(Len(t.events) + 1)
      /\ DOMAIN t.events = 1..Len(t.events)
      /\ Len(t.events) \in Nat
      /\ \A i \in 1..Len(t.events) : u.events[i] = t.events[i]
      /\ u.events[Len(t.events) + 1] = e
  BY AppendProperties DEF Task
<1>2. ASSUME FreshTransition(u, type, key)
      PROVE  FreshTransition(t, type, key) /\ ~(e.type = type /\ e.key = key)
  <2>1. ~(e.type = type /\ e.key = key)
    BY <1>1, <1>2 DEF FreshTransition
  <2>2. ASSUME NEW i \in DOMAIN t.events
        PROVE  ~(t.events[i].type = type /\ t.events[i].key = key)
    BY <1>1, <1>2 DEF FreshTransition
  <2> QED
    BY <2>1, <2>2 DEF FreshTransition
<1>3. ASSUME FreshTransition(t, type, key), ~(e.type = type /\ e.key = key),
             NEW i \in DOMAIN u.events
      PROVE  ~(u.events[i].type = type /\ u.events[i].key = key)
  <2>1. CASE i = Len(t.events) + 1
    BY <1>1, <1>3, <2>1
  <2>2. CASE i \in 1..Len(t.events)
    BY <1>1, <1>3, <2>2 DEF FreshTransition
  <2> QED
    BY <1>1, <2>1, <2>2
<1> QED
  BY <1>2, <1>3 DEF FreshTransition

\* A log that got one more event has evolved.
LEMMA AppendEvolves ==
  ASSUME NEW t \in Task, NEW u \in Task, NEW e \in Event,
         u.events = Append(t.events, e)
  PROVE  EventsEvolve(t, u)
<1>1. /\ DOMAIN u.events = 1..(Len(t.events) + 1)
      /\ DOMAIN t.events = 1..Len(t.events)
      /\ Len(t.events) \in Nat
      /\ \A i \in 1..Len(t.events) : u.events[i] = t.events[i]
  BY AppendProperties DEF Task
<1> QED
  BY <1>1 DEF EventsEvolve

\* An event that is no claim and tells the new status keeps the log truthful.
LEMMA EventsInvKept ==
  ASSUME NEW t \in Task, EventsInv(t), NEW u \in Task, NEW e \in Event,
         u.events = Append(t.events, e),
         u.status # "absent",
         StatusTold(e) = u.status,
         e.type # "claimed",
         DOMAIN u.attempts = DOMAIN t.attempts
  PROVE  EventsInv(u)
<1>1. /\ u.events # <<>>
      /\ u.events[Len(u.events)] = e
  BY AppendProperties DEF Task
<1>2. ASSUME NEW n \in 1..MaxAttempts
      PROVE  FreshTransition(u, "claimed", n) <=> FreshTransition(t, "claimed", n)
  BY FreshAfterAppend
<1> QED
  BY <1>1, <1>2 DEF EventsInv

\* A method that finishes the active attempt with one event keeps TaskInv if
\* it leaves waiting, cancellation and result right.
LEMMA FinishKeepsTaskInv ==
  ASSUME NEW t \in Task, TaskInv(t), NEW n, IsActive(t, n), NEW now,
         NEW u \in Task, NEW a \in Attempt, NEW e \in Event,
         a.status = "expired" <=> now >= t.attempts[n].lease,
         a.status # "active",
         u.attempts = [t.attempts EXCEPT ![n] = a],
         u.status \notin Executing \cup {"absent"},
         u.events = Append(t.events, e), StatusTold(e) = u.status,
         e.type # "claimed",
         WaitingInv(u), CancelInv(u),
         a.status = "succeeded" <=> u.status = "succeeded",
         a.status = "succeeded" => ~u.failed,
         \/ /\ a.status \in {"succeeded", "failed"}
            /\ u.result = a.result
         \/ /\ a.status \notin {"succeeded", "failed"}
            /\ u.result = t.result
  PROVE  TaskInv(u) /\ Evolves(t, u, now)
<1>1. n \in DOMAIN t.attempts /\ n = AttemptCount(t) /\ t.status \in Executing
  BY ActiveIsLast DEF TaskInv
<1>2. /\ AttemptCount(u) = AttemptCount(t)
      /\ DOMAIN u.attempts = DOMAIN t.attempts
      /\ \A i \in DOMAIN t.attempts : i # n => u.attempts[i] = t.attempts[i]
      /\ u.attempts[n] = a
  BY <1>1, ReplaceProperties DEF Task, AttemptCount
<1>3. AttemptsInv(u)
  BY <1>1, <1>2 DEF AttemptsInv, IsActive, TaskInv
<1>4. WinnerInv(u)
  <2>1. \A m \in DOMAIN u.attempts :
           u.attempts[m].status = "succeeded"
              => m = AttemptCount(u) /\ u.status = "succeeded" /\ ~u.failed
    BY <1>1, <1>2 DEF WinnerInv, TaskInv, Executing
  <2>2. u.status = "succeeded"
           => \E m \in DOMAIN u.attempts :
                 /\ u.attempts[m].status = "succeeded"
                 /\ u.result = u.attempts[m].result
    BY <1>1, <1>2
  <2>3. ASSUME u.result # NoFingerprint
        PROVE  \E m \in DOMAIN u.attempts :
                  LastReport(u, m) /\ u.result = u.attempts[m].result
    <3>1. CASE a.status \in {"succeeded", "failed"}
      <4>1. LastReport(u, n)
        BY <1>1, <1>2, <3>1 DEF LastReport, AttemptCount, Task
      <4> QED
        BY <1>1, <1>2, <3>1, <4>1
    <3>2. CASE a.status \notin {"succeeded", "failed"}
      <4>1. PICK m \in DOMAIN t.attempts :
                    LastReport(t, m) /\ t.result = t.attempts[m].result
        BY <2>3, <3>2 DEF WinnerInv, TaskInv
      <4>2. m # n
        BY <1>1, <4>1 DEF LastReport, IsActive
      <4>3. LastReport(u, m)
        BY <1>1, <1>2, <3>2, <4>1, <4>2 DEF LastReport
      <4> QED
        BY <1>1, <1>2, <3>2, <4>1, <4>2, <4>3
    <3> QED
      BY <3>1, <3>2
  <2> QED
    BY <2>1, <2>2, <2>3 DEF WinnerInv
<1>5. EventsInv(u)
  BY <1>2, EventsInvKept DEF TaskInv
<1>6. Evolves(t, u, now)
  BY <1>1, <1>2, AppendEvolves DEF Evolves, AttemptsEvolve, IsActive
<1> QED
  BY <1>3, <1>4, <1>5, <1>6 DEF TaskInv

\* A method that changes the status and leaves the attempts alone keeps
\* TaskInv if it leaves waiting and cancellation right.
LEMMA MoveKeepsTaskInv ==
  ASSUME NEW t \in Task, TaskInv(t), NEW now,
         NEW u \in Task, NEW e \in Event,
         u.attempts = t.attempts,
         t.status # "succeeded", u.status # "succeeded",
         u.result \in {t.result, NoFingerprint},
         t.status \in Executing <=> u.status \in Executing,
         u.status # "absent",
         u.events = Append(t.events, e), StatusTold(e) = u.status,
         e.type # "claimed",
         WaitingInv(u), CancelInv(u)
  PROVE  TaskInv(u) /\ Evolves(t, u, now)
<1>1. AttemptsInv(u)
  BY DEF AttemptsInv, IsActive, AttemptCount, TaskInv
<1>2. WinnerInv(u)
  BY DEF WinnerInv, TaskInv, AttemptCount, LastReport
<1>3. EventsInv(u)
  BY EventsInvKept DEF TaskInv
<1>4. Evolves(t, u, now)
  BY AppendEvolves DEF Evolves, AttemptsEvolve
<1> QED
  BY <1>1, <1>2, <1>3, <1>4 DEF TaskInv

-----------------------------------------------------------------------------
(* One lemma for each method of the aggregate. *)

\* Task.create makes a task that satisfies TaskInv.
LEMMA CreateKeepsTaskInv ==
  ASSUME NEW input \in Fingerprints, NEW now \in Nat
  PROVE  /\ NewTask(input, now) \in Task
         /\ TaskInv(NewTask(input, now))
<1> DEFINE u == NewTask(input, now)
           e == EventOf("created", 0)
<1>1. e \in Event /\ e.type = "created"
  BY EventOfType DEF EventType, EventOf
<1>2. /\ u.status = "queued" /\ u.attempts = <<>> /\ ~u.cancelAsked
      /\ u.events = <<e>> /\ u.result = NoFingerprint
  BY DEF NewTask, AbsentTask
<1>3. u \in Task
  <2> HIDE DEF e
  <2>1. <<e>> \in Seq(Event) /\ <<>> \in Seq(Attempt)
    BY <1>1
  <2> QED
    BY <2>1 DEF NewTask, AbsentTask, Task, TaskStatus, e
<1>4. AttemptsInv(u) /\ WaitingInv(u) /\ CancelInv(u) /\ WinnerInv(u)
  BY <1>2, MaxAttemptsAssumption
     DEF AttemptsInv, WaitingInv, CancelInv, WinnerInv, AttemptCount,
         IsActive, Executing
<1>5. EventsInv(u)
  BY <1>1, <1>2 DEF EventsInv, StatusTold, FreshTransition
<1> QED
  BY <1>3, <1>4, <1>5 DEF TaskInv

\* Task.claim: the only method that adds an attempt.
LEMMA ClaimKeepsTaskInv ==
  ASSUME NEW t \in Task, TaskInv(t), NEW now \in Nat, NEW lease \in Nat,
         CanClaim(t, now, lease)
  PROVE  /\ ClaimTask(t, now, lease) \in Task
         /\ TaskInv(ClaimTask(t, now, lease))
         /\ Evolves(t, ClaimTask(t, now, lease), now)
<1> DEFINE u == ClaimTask(t, now, lease)
           a == [status |-> "active", created |-> now, lease |-> lease,
                 renewal |-> 0, category |-> "none", result |-> NoFingerprint]
           c == AttemptCount(t)
           e == EventOf("claimed", c + 1)
<1>1. a \in Attempt /\ a.status = "active"
  BY DEF Attempt, AttemptStatus, FailureCategory
<1>2. c \in Nat /\ c < MaxAttempts /\ DOMAIN t.attempts = 1..c
  BY DEF CanClaim, AttemptCount, Task
<1>3. e \in Event /\ e.type = "claimed" /\ e.key = c + 1
  BY <1>2, EventOfType DEF EventType, EventOf
<1>4. /\ u.status = "running" /\ u.cancelAsked = t.cancelAsked
      /\ u.attempts = Append(t.attempts, a)
      /\ u.events = Append(t.events, e) /\ u.result = t.result
  BY DEF ClaimTask, Task
<1>5. t.status = "queued"
  BY DEF CanClaim
<1> HIDE DEF a, e
<1>6. u \in Task
  <2>1. Append(t.attempts, a) \in Seq(Attempt) /\ Append(t.events, e) \in Seq(Event)
    BY <1>1, <1>3 DEF Task
  <2> QED
    BY <2>1 DEF ClaimTask, Task, TaskStatus, a, e
<1>7. /\ AttemptCount(u) = c + 1
      /\ DOMAIN u.attempts = 1..(c + 1)
      /\ \A i \in 1..c : u.attempts[i] = t.attempts[i]
      /\ u.attempts[c + 1] = a
  BY <1>1, <1>4, AppendProperties DEF Task, AttemptCount
<1>8. \A i \in 1..c : ~IsActive(t, i)
  BY <1>2, <1>5 DEF TaskInv, AttemptsInv, Executing
<1> HIDE DEF u, c
<1>9. AttemptsInv(u)
  BY <1>1, <1>2, <1>4, <1>7, <1>8, MaxAttemptsAssumption
     DEF AttemptsInv, IsActive, Executing
<1>10. WaitingInv(u) /\ CancelInv(u)
  BY <1>4, <1>5 DEF TaskInv, WaitingInv, CancelInv
<1>11. WinnerInv(u)
  <2>1. \A n \in DOMAIN u.attempts : u.attempts[n].status # "succeeded"
    BY <1>1, <1>2, <1>5, <1>7 DEF TaskInv, WinnerInv
  <2>2. u.status # "succeeded"
    BY <1>4
  <2>3. ASSUME u.result # NoFingerprint
        PROVE  \E n \in DOMAIN u.attempts :
                  LastReport(u, n) /\ u.result = u.attempts[n].result
    <3>1. PICK n \in 1..c : LastReport(t, n) /\ t.result = t.attempts[n].result
      BY <1>2, <1>4, <2>3 DEF TaskInv, WinnerInv
    <3>2. n \in DOMAIN u.attempts /\ u.attempts[n] = t.attempts[n]
      BY <1>2, <1>7
    <3>3. LastReport(u, n)
      BY <1>1, <1>2, <1>7, <3>1, <3>2 DEF LastReport
    <3> QED
      BY <1>4, <3>1, <3>2, <3>3
  <2> QED
    BY <2>1, <2>2, <2>3 DEF WinnerInv
<1>12. EventsInv(u)
  <2>1. /\ u.events # <<>>
        /\ u.events[Len(u.events)] = e
    BY <1>3, <1>4, AppendProperties DEF Task
  <2>2. StatusTold(u.events[Len(u.events)]) = u.status
    BY <1>3, <1>4, <2>1 DEF StatusTold
  <2>3. ASSUME NEW m \in 1..MaxAttempts
        PROVE  m \in DOMAIN u.attempts <=> ~FreshTransition(u, "claimed", m)
    <3>1. ~FreshTransition(u, "claimed", m)
             <=> ~FreshTransition(t, "claimed", m) \/ m = c + 1
      BY <1>3, <1>4, <1>6, FreshAfterAppend DEF u
    <3>2. m \in 1..c <=> ~FreshTransition(t, "claimed", m)
      BY <1>2 DEF TaskInv, EventsInv
    <3> QED
      BY <1>2, <1>7, <3>1, <3>2
  <2> QED
    BY <1>4, <2>1, <2>2, <2>3 DEF EventsInv
<1>13. Evolves(t, u, now)
  <2>1. AttemptsEvolve(t, u, now)
    BY <1>2, <1>7 DEF AttemptsEvolve
  <2> QED
    BY <1>3, <1>4, <1>6, <2>1, AppendEvolves DEF Evolves, u
<1> QED
  BY <1>6, <1>9, <1>10, <1>11, <1>12, <1>13 DEF TaskInv, u

\* Task.renew_lease: only the lease of the active attempt changes.
LEMMA RenewKeepsTaskInv ==
  ASSUME NEW t \in Task, TaskInv(t), NEW n, NEW seq \in Nat,
         NEW expiry \in Nat, NEW now \in Nat, CanRenew(t, n, seq, expiry, now)
  PROVE  /\ RenewTask(t, n, seq, expiry) \in Task
         /\ TaskInv(RenewTask(t, n, seq, expiry))
         /\ Evolves(t, RenewTask(t, n, seq, expiry), now)
<1> DEFINE u == RenewTask(t, n, seq, expiry)
           a == [t.attempts[n] EXCEPT !.renewal = seq, !.lease = expiry]
<1>1. /\ n \in DOMAIN t.attempts /\ t.attempts[n].status = "active"
      /\ t.attempts[n] \in Attempt
  BY DEF CanRenew, HoldsLease, IsActive, Task
<1>2. /\ a \in Attempt /\ a.status = "active"
      /\ a.result = t.attempts[n].result
  BY <1>1, RenewedAttemptType
<1>3. /\ u.status = t.status /\ u.cancelAsked = t.cancelAsked
      /\ u.attempts = [t.attempts EXCEPT ![n] = a]
      /\ u.events = t.events /\ u.result = t.result /\ u.failed = t.failed
  BY DEF RenewTask, Task
<1> HIDE DEF a
<1>4. u \in Task
  <2>1. [t.attempts EXCEPT ![n] = a] \in Seq(Attempt)
    BY <1>1, <1>2, ReplaceProperties DEF Task
  <2> QED
    BY <2>1 DEF RenewTask, Task, a
<1>5. /\ AttemptCount(u) = AttemptCount(t)
      /\ DOMAIN u.attempts = DOMAIN t.attempts
      /\ \A i \in DOMAIN t.attempts : i # n => u.attempts[i] = t.attempts[i]
      /\ u.attempts[n] = a
  BY <1>1, <1>2, <1>3, ReplaceProperties DEF Task, AttemptCount
<1> HIDE DEF u
<1>6. AttemptsInv(u)
  BY <1>1, <1>2, <1>3, <1>5 DEF TaskInv, AttemptsInv, IsActive
<1>7. WinnerInv(u)
  BY <1>1, <1>2, <1>3, <1>5 DEF TaskInv, WinnerInv, LastReport
<1>8. WaitingInv(u) /\ CancelInv(u) /\ EventsInv(u)
  BY <1>3, <1>5 DEF TaskInv, WaitingInv, CancelInv, EventsInv, FreshTransition
<1>9. Evolves(t, u, now)
  BY <1>1, <1>2, <1>3, <1>5 DEF Evolves, AttemptsEvolve, EventsEvolve
<1> QED
  BY <1>4, <1>6, <1>7, <1>8, <1>9 DEF TaskInv, u

\* Task.request_cancel: cancelled at once, or a running task is asked to stop.
LEMMA RequestCancelKeepsTaskInv ==
  ASSUME NEW t \in Task, TaskInv(t), NEW command \in Commands, NEW now,
         CanRequestCancel(t)
  PROVE  /\ RequestCancelTask(t, command) \in Task
         /\ TaskInv(RequestCancelTask(t, command))
         /\ Evolves(t, RequestCancelTask(t, command), now)
<1> DEFINE u == RequestCancelTask(t, command)
           type == IF t.status = "running" THEN "cancel_requested" ELSE "cancelled"
           e == EventOf(type, command)
<1>1. e \in Event /\ e.type = type
  BY EventOfType DEF EventType, EventOf
<1>2. /\ u.status = type /\ u.cancelAsked
      /\ u.attempts = t.attempts /\ u.events = Append(t.events, e) /\ u.result = t.result
  BY DEF RequestCancelTask, Task
<1> HIDE DEF e
<1>3. u \in Task
  <2>1. Append(t.events, e) \in Seq(Event)
    BY <1>1 DEF Task
  <2> QED
    BY <2>1 DEF RequestCancelTask, Task, TaskStatus, e
<1>4. WaitingInv(u) /\ CancelInv(u)
  BY <1>2 DEF WaitingInv, CancelInv
<1>5. StatusTold(e) = u.status /\ e.type # "claimed" /\ u.status # "absent"
  BY <1>1, <1>2 DEF StatusTold
<1>6. t.status # "succeeded" /\ (t.status \in Executing <=> u.status \in Executing)
  BY <1>2 DEF CanRequestCancel, Executing
<1> HIDE DEF u
<1>7. TaskInv(u) /\ Evolves(t, u, now)
  BY <1>1, <1>2, <1>3, <1>4, <1>5, <1>6, MoveKeepsTaskInv
<1> QED
  BY <1>3, <1>7 DEF u

\* Task.confirm_cancel: the holder ends its attempt within the lease.
LEMMA ConfirmCancelKeepsTaskInv ==
  ASSUME NEW t \in Task, TaskInv(t), NEW n, NEW now \in Nat,
         CanConfirmCancel(t, n, now)
  PROVE  /\ ConfirmCancelTask(t, n) \in Task
         /\ TaskInv(ConfirmCancelTask(t, n))
         /\ Evolves(t, ConfirmCancelTask(t, n), now)
<1> DEFINE u == ConfirmCancelTask(t, n)
           a == FinishAttempt(t.attempts[n], "cancelled", "none", NoFingerprint)
           e == EventOf("cancelled", n)
<1>1. IsActive(t, n) /\ n \in DOMAIN t.attempts /\ n \in Nat
      /\ t.attempts[n] \in Attempt /\ now < t.attempts[n].lease
  BY DEF CanConfirmCancel, HoldsLease, IsActive, Task
<1>2. a \in Attempt /\ a.status = "cancelled"
  BY <1>1, FinishAttemptType
     DEF AttemptStatus, FailureCategory
<1>3. e \in Event /\ e.type = "cancelled"
  BY <1>1, EventOfType DEF EventType, EventOf
<1>4. /\ u.status = "cancelled" /\ u.cancelAsked = t.cancelAsked
      /\ u.attempts = [t.attempts EXCEPT ![n] = a]
      /\ u.events = Append(t.events, e) /\ u.result = t.result
  BY DEF ConfirmCancelTask, Task
<1> HIDE DEF a, e
<1>5. u \in Task
  <2>1. /\ [t.attempts EXCEPT ![n] = a] \in Seq(Attempt)
        /\ Append(t.events, e) \in Seq(Event)
    BY <1>1, <1>2, <1>3, ReplaceProperties DEF Task
  <2> QED
    BY <2>1 DEF ConfirmCancelTask, Task, TaskStatus, a, e
<1>6. WaitingInv(u) /\ CancelInv(u)
  BY <1>4 DEF WaitingInv, CancelInv, TaskInv, CanConfirmCancel
<1>7. StatusTold(e) = u.status
  BY <1>3, <1>4 DEF StatusTold
<1> HIDE DEF u
<1>8. TaskInv(u) /\ Evolves(t, u, now)
  <2>1. ~(now >= t.attempts[n].lease)
    BY <1>1 DEF Attempt
  <2> QED
    BY <1>1, <1>2, <1>3, <1>4, <1>5, <1>6, <1>7, <2>1, FinishKeepsTaskInv
       DEF Executing
<1> QED
  BY <1>5, <1>8 DEF u

\* Task.complete: the attempt that succeeds is the last and publishes its result.
LEMMA CompleteKeepsTaskInv ==
  ASSUME NEW t \in Task, TaskInv(t), NEW n, NEW now \in Nat,
         NEW result \in Fingerprints, CanComplete(t, n, now)
  PROVE  /\ CompleteTask(t, n, result) \in Task
         /\ TaskInv(CompleteTask(t, n, result))
         /\ Evolves(t, CompleteTask(t, n, result), now)
<1> DEFINE u == CompleteTask(t, n, result)
           a == FinishAttempt(t.attempts[n], "succeeded", "none", result)
           e == EventOf("succeeded", n)
<1>1. IsActive(t, n) /\ n \in DOMAIN t.attempts /\ n \in Nat
      /\ t.attempts[n] \in Attempt /\ now < t.attempts[n].lease
  BY DEF CanComplete, HoldsLease, IsActive, Task
<1>2. a \in Attempt /\ a.status = "succeeded" /\ a.result = result
  <2>1. /\ "succeeded" \in AttemptStatus /\ "none" \in FailureCategory
        /\ result \in Fingerprints \cup {NoFingerprint}
    BY DEF AttemptStatus, FailureCategory
  <2> QED
    BY <1>1, <2>1, FinishAttemptType
<1>3. e \in Event /\ e.type = "succeeded"
  BY <1>1, EventOfType DEF EventType, EventOf
<1>4. /\ u.status = "succeeded" /\ u.cancelAsked = t.cancelAsked
      /\ u.attempts = [t.attempts EXCEPT ![n] = a]
      /\ u.events = Append(t.events, e)
      /\ u.result = result /\ ~u.failed
  BY DEF CompleteTask, Task
<1> HIDE DEF a, e
<1>5. u \in Task
  <2>1. /\ [t.attempts EXCEPT ![n] = a] \in Seq(Attempt)
        /\ Append(t.events, e) \in Seq(Event)
    BY <1>1, <1>2, <1>3, ReplaceProperties DEF Task
  <2> QED
    BY <2>1 DEF CompleteTask, Task, TaskStatus, a, e
<1>6. WaitingInv(u) /\ CancelInv(u)
  BY <1>4 DEF WaitingInv, CancelInv, TaskInv, CanComplete
<1>7. StatusTold(e) = u.status
  BY <1>3, <1>4 DEF StatusTold
<1> HIDE DEF u
<1>8. TaskInv(u) /\ Evolves(t, u, now)
  <2>1. ~(now >= t.attempts[n].lease)
    BY <1>1 DEF Attempt
  <2> QED
    BY <1>1, <1>2, <1>3, <1>4, <1>5, <1>6, <1>7, <2>1, FinishKeepsTaskInv
       DEF Executing
<1> QED
  BY <1>5, <1>8 DEF u

\* Task.fail: a retry is granted only while attempts are left.
LEMMA FailKeepsTaskInv ==
  ASSUME NEW t \in Task, TaskInv(t), NEW n, NEW now \in Nat,
         NEW category \in FailureCategory, NEW result \in Fingerprints,
         NEW retryAt \in Nat, CanFail(t, n, category, retryAt, now)
  PROVE  /\ FailTask(t, n, category, result, retryAt) \in Task
         /\ TaskInv(FailTask(t, n, category, result, retryAt))
         /\ Evolves(t, FailTask(t, n, category, result, retryAt), now)
<1> DEFINE u == FailTask(t, n, category, result, retryAt)
           a == FinishAttempt(t.attempts[n], "failed", category, result)
           retry == IsRetryable(t, category)
           e == EventOf(IF retry THEN "retry_scheduled" ELSE "failed", n)
<1>1. IsActive(t, n) /\ n \in DOMAIN t.attempts /\ n \in Nat
      /\ t.attempts[n] \in Attempt /\ now < t.attempts[n].lease
  BY DEF CanFail, HoldsLease, IsActive, Task
<1>2. a \in Attempt /\ a.status = "failed" /\ a.result = result
  BY <1>1, FinishAttemptType DEF AttemptStatus
<1>3. e \in Event /\ e.type = IF retry THEN "retry_scheduled" ELSE "failed"
  BY <1>1, EventOfType DEF EventType, EventOf
<1>4. /\ u.status = IF retry THEN "retry_wait" ELSE "failed"
      /\ u.cancelAsked = t.cancelAsked
      /\ u.attempts = [t.attempts EXCEPT ![n] = a]
      /\ u.events = Append(t.events, e) /\ u.result = result
  BY DEF FailTask, Task
<1> HIDE DEF a, e
<1>5. u \in Task
  <2>1. /\ [t.attempts EXCEPT ![n] = a] \in Seq(Attempt)
        /\ Append(t.events, e) \in Seq(Event)
    BY <1>1, <1>2, <1>3, ReplaceProperties DEF Task
  <2> QED
    BY <2>1 DEF FailTask, Task, TaskStatus, a, e
<1>6. CancelInv(u)
  BY <1>4 DEF CancelInv, TaskInv, CanFail
<1>7. WaitingInv(u)
  <2>1. AttemptCount(u) = AttemptCount(t)
    BY <1>1, <1>2, <1>4, ReplaceProperties DEF Task, AttemptCount
  <2> QED
    BY <1>4, <2>1 DEF WaitingInv, IsRetryable
<1>8. StatusTold(e) = u.status
  BY <1>3, <1>4 DEF StatusTold
<1> HIDE DEF u
<1>9. TaskInv(u) /\ Evolves(t, u, now)
  <2>1. ~(now >= t.attempts[n].lease)
    BY <1>1 DEF Attempt
  <2> QED
    BY <1>1, <1>2, <1>3, <1>4, <1>5, <1>6, <1>7, <1>8, <2>1, FinishKeepsTaskInv
       DEF Executing
<1> QED
  BY <1>5, <1>9 DEF u

\* Task.requeue_due: a task that waited for its retry is queued.
LEMMA RequeueKeepsTaskInv ==
  ASSUME NEW t \in Task, TaskInv(t), NEW key \in Nat, NEW now \in Nat,
         CanRequeueDue(t, key, now)
  PROVE  /\ RequeueDueTask(t, key, now) \in Task
         /\ TaskInv(RequeueDueTask(t, key, now))
         /\ Evolves(t, RequeueDueTask(t, key, now), now)
<1> DEFINE u == RequeueDueTask(t, key, now)
           e == EventOf("requeued", key)
<1>1. e \in Event /\ e.type = "requeued"
  BY EventOfType DEF EventType, EventOf
<1>2. /\ u.status = "queued" /\ u.cancelAsked = t.cancelAsked
      /\ u.attempts = t.attempts /\ u.events = Append(t.events, e) /\ u.result = t.result
  BY DEF RequeueDueTask, Task
<1> HIDE DEF e
<1>3. u \in Task
  <2>1. Append(t.events, e) \in Seq(Event)
    BY <1>1 DEF Task
  <2> QED
    BY <2>1 DEF RequeueDueTask, Task, TaskStatus, e
<1>4. t.status = "retry_wait"
  BY DEF CanRequeueDue
<1>5. WaitingInv(u) /\ CancelInv(u)
  BY <1>2, <1>4 DEF WaitingInv, CancelInv, TaskInv, AttemptCount
<1>6. StatusTold(e) = u.status
  BY <1>1, <1>2 DEF StatusTold
<1> HIDE DEF u
<1>7. TaskInv(u) /\ Evolves(t, u, now)
  BY <1>1, <1>2, <1>3, <1>4, <1>5, <1>6, MoveKeepsTaskInv DEF Executing
<1> QED
  BY <1>3, <1>7 DEF u

\* Task.request_manual_retry: a failed task with attempts left is queued.
LEMMA ManualRetryKeepsTaskInv ==
  ASSUME NEW t \in Task, TaskInv(t), NEW command \in Commands, NEW now \in Nat,
         CanManualRetry(t, command)
  PROVE  /\ ManualRetryTask(t, command, now) \in Task
         /\ TaskInv(ManualRetryTask(t, command, now))
         /\ Evolves(t, ManualRetryTask(t, command, now), now)
<1> DEFINE u == ManualRetryTask(t, command, now)
           e == EventOf("retry_requested", command)
<1>1. e \in Event /\ e.type = "retry_requested"
  BY EventOfType DEF EventType, EventOf
<1>2. /\ u.status = "queued" /\ u.cancelAsked = t.cancelAsked
      /\ u.attempts = t.attempts /\ u.events = Append(t.events, e)
      /\ u.result = NoFingerprint
  BY DEF ManualRetryTask, Task
<1> HIDE DEF e
<1>3. u \in Task
  <2>1. Append(t.events, e) \in Seq(Event)
    BY <1>1 DEF Task
  <2> QED
    BY <2>1 DEF ManualRetryTask, Task, TaskStatus, e
<1>4. t.status = "failed" /\ AttemptCount(t) < MaxAttempts
  BY DEF CanManualRetry
<1>5. WaitingInv(u) /\ CancelInv(u)
  BY <1>2, <1>4 DEF WaitingInv, CancelInv, TaskInv, AttemptCount
<1>6. StatusTold(e) = u.status
  BY <1>1, <1>2 DEF StatusTold
<1> HIDE DEF u
<1>7. TaskInv(u) /\ Evolves(t, u, now)
  BY <1>1, <1>2, <1>3, <1>4, <1>5, <1>6, MoveKeepsTaskInv DEF Executing
<1> QED
  BY <1>3, <1>7 DEF u

\* Task.recover_expired_attempt: the attempt expires after its lease, and a
\* pending cancellation decides the outcome.
LEMMA RecoverKeepsTaskInv ==
  ASSUME NEW t \in Task, TaskInv(t), NEW n, NEW now \in Nat,
         NEW retryAt \in Nat, CanRecover(t, n, now)
  PROVE  /\ RecoverTask(t, n, retryAt, now) \in Task
         /\ TaskInv(RecoverTask(t, n, retryAt, now))
         /\ Evolves(t, RecoverTask(t, n, retryAt, now), now)
<1> DEFINE u == RecoverTask(t, n, retryAt, now)
           a == FinishAttempt(t.attempts[n], "expired", "lease_expired",
                              NoFingerprint)
           outcome == RecoveryOutcome(t, retryAt, now)
           e == [type |-> "recovered", key |-> n, outcome |-> outcome]
<1>1. IsActive(t, n) /\ n \in DOMAIN t.attempts /\ n \in Nat
      /\ t.attempts[n] \in Attempt /\ now >= t.attempts[n].lease
  BY DEF CanRecover, IsActive, Task
<1>2. /\ outcome \in {"cancelled", "failed", "retry_wait", "queued"}
      /\ outcome = "cancelled" <=> t.status = "cancel_requested"
      /\ outcome \in {"retry_wait", "queued"} => ~(AttemptCount(t) >= MaxAttempts)
  BY DEF RecoveryOutcome
<1> HIDE DEF outcome
<1>3. a \in Attempt /\ a.status = "expired"
  BY <1>1, FinishAttemptType
     DEF AttemptStatus, FailureCategory
<1>4. e \in Event /\ e.type = "recovered" /\ e.outcome = outcome
  BY <1>1, <1>2 DEF Event, EventType, TaskStatus
<1>5. /\ u.status = outcome /\ u.cancelAsked = t.cancelAsked
      /\ u.attempts = [t.attempts EXCEPT ![n] = a]
      /\ u.events = Append(t.events, e) /\ u.result = t.result
  BY DEF RecoverTask, Task, outcome
<1> HIDE DEF a, e
<1>6. u \in Task
  <2>1. /\ [t.attempts EXCEPT ![n] = a] \in Seq(Attempt)
        /\ Append(t.events, e) \in Seq(Event)
    BY <1>1, <1>3, <1>4, ReplaceProperties DEF Task
  <2>2. outcome \in TaskStatus
    BY <1>2 DEF TaskStatus
  <2>3. (CASE outcome = "retry_wait" -> retryAt
           [] outcome = "queued"     -> now
           [] OTHER                  -> t.available) \in Nat
    BY DEF Task
  <2> QED
    BY <2>1, <2>2, <2>3 DEF RecoverTask, Task, a, e, outcome
<1>7. CancelInv(u)
  BY <1>2, <1>5 DEF CancelInv, TaskInv, CanRecover, Executing
<1>8. WaitingInv(u)
  <2>1. AttemptCount(u) = AttemptCount(t) /\ AttemptCount(t) \in Nat
    BY <1>1, <1>3, <1>5, ReplaceProperties DEF Task, AttemptCount
  <2> QED
    BY <1>2, <1>5, <2>1, MaxAttemptsAssumption DEF WaitingInv
<1>9. StatusTold(e) = u.status
  BY <1>4, <1>5 DEF StatusTold
<1> HIDE DEF u
<1>10. TaskInv(u) /\ Evolves(t, u, now)
  BY <1>1, <1>2, <1>3, <1>4, <1>5, <1>6, <1>7, <1>8, <1>9, FinishKeepsTaskInv
     DEF Executing
<1> QED
  BY <1>6, <1>10 DEF u

-----------------------------------------------------------------------------
(* The invariant of the specification. *)

TasksOK == \A k \in Keys : TaskInv(tasks[k])

AllEvolve == \A k \in Keys : Evolves(tasks[k], tasks'[k], clock)

\* The state before create() satisfies TaskInv.
LEMMA AbsentTaskInv == AbsentTask \in Task /\ TaskInv(AbsentTask)
<1>1. AbsentTask \in Task
  <2>1. <<>> \in Seq(Attempt) /\ <<>> \in Seq(Event)
    OBVIOUS
  <2> QED
    BY <2>1 DEF AbsentTask, Task, TaskStatus
<1>2. /\ AbsentTask.status = "absent" /\ AbsentTask.attempts = <<>>
      /\ ~AbsentTask.cancelAsked /\ AbsentTask.events = <<>>
      /\ AbsentTask.result = NoFingerprint
  BY DEF AbsentTask
<1>3. TaskInv(AbsentTask)
  BY <1>2, MaxAttemptsAssumption
     DEF TaskInv, AttemptsInv, WaitingInv, CancelInv, WinnerInv, EventsInv,
         AttemptCount, IsActive, Executing, FreshTransition
<1> QED
  BY <1>1, <1>3

\* A task that does not exist yet has no history that could change.
LEMMA SubmitEvolves ==
  ASSUME NEW t \in Task, TaskInv(t), t.status = "absent", NEW u, NEW now
  PROVE  Evolves(t, u, now)
<1>1. t.events = <<>> /\ DOMAIN t.events = {}
  BY DEF TaskInv, EventsInv
<1>2. \A n \in 1..MaxAttempts : n \notin DOMAIN t.attempts
  BY <1>1 DEF TaskInv, EventsInv, FreshTransition
<1>3. DOMAIN t.attempts = 1..AttemptCount(t) /\ AttemptCount(t) \in Nat
  BY DEF AttemptCount, Task
<1>4. AttemptCount(t) <= MaxAttempts
  BY DEF TaskInv, AttemptsInv
<1>5. DOMAIN t.attempts = {}
  BY <1>2, <1>3, <1>4, MaxAttemptsAssumption
<1> QED
  BY <1>1, <1>5 DEF Evolves, AttemptsEvolve, EventsEvolve

\* Saving one task keeps the others.
LEMMA SaveStep ==
  ASSUME TypeOK, TasksOK, NEW k \in Keys, NEW u \in Task, TaskInv(u),
         Evolves(tasks[k], u, clock), tasks' = [tasks EXCEPT ![k] = u]
  PROVE  /\ tasks' \in [Keys -> Task]
         /\ TasksOK'
         /\ AllEvolve
<1>1. tasks' \in [Keys -> Task] /\ TasksOK'
  BY DEF TypeOK, TasksOK
<1>2. ASSUME NEW j \in Keys
      PROVE  Evolves(tasks[j], tasks'[j], clock)
  <2>1. CASE j = k
    BY <2>1 DEF TypeOK
  <2>2. CASE j # k
    <3>1. tasks'[j] = tasks[j]
      BY <2>2 DEF TypeOK
    <3> QED
      BY <3>1 DEF Evolves, AttemptsEvolve, EventsEvolve
  <2> QED
    BY <2>1, <2>2
<1> QED
  BY <1>1, <1>2 DEF AllEvolve

\* A step that saves no task.
LEMMA SameTasksStep ==
  ASSUME TypeOK, TasksOK, tasks' = tasks
  PROVE  TasksOK' /\ AllEvolve
BY DEF TasksOK, AllEvolve, Evolves, AttemptsEvolve, EventsEvolve

\* The receipts commands write are receipts.
LEMMA ReceiptType ==
  ASSUME NEW k \in Keys
  PROVE  /\ \A c \in Commands : Receipt("cancel", k, c) \in CommandReceipt
         /\ \A c \in Commands : Receipt("manual-retry", k, c) \in CommandReceipt
         /\ \A a \in Nat : Receipt("requeue", k, a) \in CommandReceipt
         /\ \A id \in Nat \X Nat : Receipt("recover", k, id) \in CommandReceipt
BY DEF Receipt, CommandReceipt

\* The induction step, one case for each action of Next: types, TaskInv and
\* the evolution of every task.
LEMMA StepKeepsTypeAndTasks ==
  ASSUME TypeOK, TasksOK, [Next]_vars
  PROVE  TypeOK' /\ TasksOK' /\ AllEvolve
<1> USE DEF SaveTask, SaveWithReceipt
<1>1. ASSUME NEW k \in Keys, NEW input \in Fingerprints, Submit(k, input)
      PROVE  TypeOK' /\ TasksOK' /\ AllEvolve
  <2>1. tasks[k] \in Task /\ TaskInv(tasks[k]) /\ tasks[k].status = "absent" /\ clock \in Nat
    BY <1>1 DEF TypeOK, TasksOK, Submit
  <2>2. /\ NewTask(input, clock) \in Task /\ TaskInv(NewTask(input, clock))
        /\ Evolves(tasks[k], NewTask(input, clock), clock)
    BY <2>1, CreateKeepsTaskInv, SubmitEvolves
  <2> QED
    BY <1>1, <2>2, SaveStep DEF TypeOK, Submit
<1>2. ASSUME NEW k \in Keys, NEW lease \in (clock + 1)..(clock + LeaseTTL),
             Claim(k, lease)
      PROVE  TypeOK' /\ TasksOK' /\ AllEvolve
  <2>1. tasks[k] \in Task /\ TaskInv(tasks[k]) /\ clock \in Nat /\ lease \in Nat
    BY <1>2, TimingAssumption DEF TypeOK, TasksOK
  <2>2. CanClaim(tasks[k], clock, lease)
    BY <1>2 DEF Claim
  <2> QED
    BY <1>2, <2>1, <2>2, ClaimKeepsTaskInv, SaveStep DEF TypeOK, Claim
<1>3. ASSUME NEW k \in Keys, NEW n \in DOMAIN tasks[k].attempts,
             HolderStep(k, n)
      PROVE  TypeOK' /\ TasksOK' /\ AllEvolve
  <2>1. /\ tasks[k] \in Task /\ TaskInv(tasks[k]) /\ clock \in Nat
        /\ tasks[k].attempts[n] \in Attempt
    BY DEF TypeOK, TasksOK, Task
  <2>2. ASSUME NEW seq \in 1..MaxRenewals, NEW ext \in 1..LeaseTTL,
               RenewLease(k, n, seq, tasks[k].attempts[n].lease + ext)
        PROVE  TypeOK' /\ TasksOK' /\ AllEvolve
    <3> DEFINE expiry == tasks[k].attempts[n].lease + ext
    <3>1. seq \in Nat /\ expiry \in Nat
      BY <2>1, TimingAssumption DEF Attempt
    <3> HIDE DEF expiry
    <3>2. /\ CanRenew(tasks[k], n, seq, expiry, clock)
          /\ tasks' = [tasks EXCEPT ![k] = RenewTask(tasks[k], n, seq, expiry)]
          /\ UNCHANGED <<clock, receipts, expired, due>>
      BY <2>2 DEF RenewLease, expiry
    <3> QED
      BY <2>1, <3>1, <3>2, RenewKeepsTaskInv, SaveStep DEF TypeOK
  <2>3. ASSUME ConfirmCancellation(k, n)
        PROVE  TypeOK' /\ TasksOK' /\ AllEvolve
    BY <2>1, <2>3, ConfirmCancelKeepsTaskInv, SaveStep
       DEF TypeOK, ConfirmCancellation
  <2>4. ASSUME NEW result \in Fingerprints, Complete(k, n, result)
        PROVE  TypeOK' /\ TasksOK' /\ AllEvolve
    BY <2>1, <2>4, CompleteKeepsTaskInv, SaveStep DEF TypeOK, Complete
  <2>5. ASSUME NEW category \in {"transient", "permanent"},
               NEW result \in Fingerprints,
               NEW raised \in tasks[k].attempts[n].created..clock,
               Fail(k, n, category, result, raised)
        PROVE  TypeOK' /\ TasksOK' /\ AllEvolve
    <3> DEFINE retryAt == raised + RetryDelay
    <3>1. retryAt \in Nat /\ category \in FailureCategory
      BY <2>1, TimingAssumption DEF Attempt, FailureCategory
    <3> HIDE DEF retryAt
    <3>2. /\ CanFail(tasks[k], n, category, retryAt, clock)
          /\ tasks' = [tasks EXCEPT ![k] =
                         FailTask(tasks[k], n, category, result, retryAt)]
          /\ UNCHANGED <<clock, receipts, expired, due>>
      BY <2>5 DEF Fail, retryAt
    <3> QED
      BY <2>1, <3>1, <3>2, FailKeepsTaskInv, SaveStep DEF TypeOK
  <2> QED
    BY <1>3, <2>2, <2>3, <2>4, <2>5 DEF HolderStep
<1>4. ASSUME NEW k \in Keys, NEW command \in Commands, Cancel(k, command)
      PROVE  TypeOK' /\ TasksOK' /\ AllEvolve
  <2>1. tasks[k] \in Task /\ TaskInv(tasks[k]) /\ clock \in Nat
    BY DEF TypeOK, TasksOK
  <2> QED
    BY <1>4, <2>1, RequestCancelKeepsTaskInv, SaveStep, ReceiptType
       DEF TypeOK, Cancel
<1>5. ASSUME NEW k \in Keys, NEW command \in Commands, Retry(k, command)
      PROVE  TypeOK' /\ TasksOK' /\ AllEvolve
  <2>1. tasks[k] \in Task /\ TaskInv(tasks[k]) /\ clock \in Nat
    BY DEF TypeOK, TasksOK
  <2> QED
    BY <1>5, <2>1, ManualRetryKeepsTaskInv, SaveStep, ReceiptType
       DEF TypeOK, Retry
<1>6. ASSUME NEW c \in due, RequeueDue(c)
      PROVE  TypeOK' /\ TasksOK' /\ AllEvolve
  <2>1. /\ c.key \in Keys /\ c.available \in Nat /\ clock \in Nat
        /\ tasks[c.key] \in Task /\ TaskInv(tasks[c.key])
    BY DEF TypeOK, TasksOK, DueRetryCandidate
  <2>2. /\ CanRequeueDue(tasks[c.key], c.available, clock)
        /\ tasks' = [tasks EXCEPT ![c.key] =
                       RequeueDueTask(tasks[c.key], c.available, clock)]
        /\ receipts' = receipts \cup {Receipt("requeue", c.key, c.available)}
        /\ UNCHANGED <<clock, expired, due>>
    BY <1>6 DEF RequeueDue
  <2> QED
    BY <2>1, <2>2, RequeueKeepsTaskInv, SaveStep, ReceiptType DEF TypeOK
<1>7. ASSUME NEW c \in expired, Recover(c)
      PROVE  TypeOK' /\ TasksOK' /\ AllEvolve
  <2> DEFINE retryAt == IF RecoveryDelay > 0 THEN c.at + RecoveryDelay ELSE 0
             id == <<c.attempt, c.lease>>
  <2>1. /\ c.key \in Keys /\ c.attempt \in Nat /\ clock \in Nat
        /\ retryAt \in Nat /\ id \in Nat \X Nat
        /\ tasks[c.key] \in Task /\ TaskInv(tasks[c.key])
    BY TimingAssumption DEF TypeOK, TasksOK, ExpiredTaskCandidate
  <2> HIDE DEF retryAt, id
  <2>2. /\ CanRecover(tasks[c.key], c.attempt, clock)
        /\ tasks' = [tasks EXCEPT ![c.key] =
                       RecoverTask(tasks[c.key], c.attempt, retryAt, clock)]
        /\ receipts' = receipts \cup {Receipt("recover", c.key, id)}
        /\ UNCHANGED <<clock, expired, due>>
    BY <1>7 DEF Recover, retryAt, id
  <2> QED
    BY <2>1, <2>2, RecoverKeepsTaskInv, SaveStep, ReceiptType DEF TypeOK
<1>8. ASSUME NEW k \in Keys, NEW n \in DOMAIN tasks[k].attempts,
             ScanExpired(k, n)
      PROVE  TypeOK' /\ TasksOK' /\ AllEvolve
  <2>0. n \in Nat /\ tasks[k].attempts[n] \in Attempt
    BY DEF TypeOK, Task
  <2>1. /\ n \in Nat /\ tasks[k].attempts[n].lease \in Nat /\ clock \in Nat
    BY <2>0 DEF TypeOK, Attempt
  <2>2. [key |-> k, attempt |-> n, lease |-> tasks[k].attempts[n].lease,
         at |-> clock] \in ExpiredTaskCandidate
    BY <2>1 DEF ExpiredTaskCandidate
  <2> QED
    BY <1>8, <2>2, SameTasksStep DEF TypeOK, ScanExpired
<1>9. ASSUME NEW k \in Keys, ScanDue(k)
      PROVE  TypeOK' /\ TasksOK' /\ AllEvolve
  <2>1. [key |-> k, available |-> tasks[k].available] \in DueRetryCandidate
    BY DEF TypeOK, Task, DueRetryCandidate
  <2> QED
    BY <1>9, <2>1, SameTasksStep DEF TypeOK, ScanDue
<1>10. CASE Tick
  BY <1>10, SameTasksStep DEF TypeOK, Tick
<1>11. CASE UNCHANGED vars
  BY <1>11, SameTasksStep DEF TypeOK, vars
<1> QED
  BY <1>1, <1>2, <1>3, <1>4, <1>5, <1>6, <1>7, <1>8, <1>9, <1>10, <1>11
     DEF Next, TaskStep, SchedulerStep

\* Types and TaskInv are invariants of the specification.
LEMMA TasksAlwaysOK == Spec => [](TypeOK /\ TasksOK)
<1>1. Init => TypeOK /\ TasksOK
  BY AbsentTaskInv DEF Init, TypeOK, TasksOK
<1>2. TypeOK /\ TasksOK /\ [Next]_vars => TypeOK' /\ TasksOK'
  BY StepKeepsTypeAndTasks
<1> QED
  BY <1>1, <1>2, PTL DEF Spec

\* Every variable keeps its type in every behaviour.
THEOREM TypeCorrect == Spec => []TypeOK
BY TasksAlwaysOK, PTL

\* Claims, late workers and recovery never leave two executions of a task with
\* a right to commit, and a task never has more than MaxAttempts attempts.
THEOREM ExecutionExclusive == Spec => []OneActiveAttempt
<1>1. TasksOK => OneActiveAttempt
  BY DEF TasksOK, TaskInv, AttemptsInv, OneActiveAttempt
<1> QED
  BY <1>1, TasksAlwaysOK, PTL

\* A waiting task always has an attempt left, so it cannot block the head of
\* the queue.
THEOREM WaitingClaimable == Spec => []WaitingIsClaimable
<1>1. TasksOK => WaitingIsClaimable
  BY DEF TasksOK, TaskInv, WaitingInv, WaitingIsClaimable
<1> QED
  BY <1>1, TasksAlwaysOK, PTL

\* An accepted cancellation is never undone.
THEOREM CancellationSticks == Spec => []CancelSticks
<1>1. TasksOK => CancelSticks
  BY DEF TasksOK, TaskInv, CancelInv, CancelSticks
<1> QED
  BY <1>1, TasksAlwaysOK, PTL

\* The published result is the one the winning attempt committed.
THEOREM ResultBelongsToWinner == Spec => []ResultIsTheWinners
<1>1. TasksOK => ResultIsTheWinners
  BY DEF TasksOK, TaskInv, WinnerInv, ResultIsTheWinners
<1> QED
  BY <1>1, TasksAlwaysOK, PTL

\* The event log always names the status of the task.
THEOREM EventLogTruthful == Spec => []EventsTellStatus
<1>1. TasksOK => EventsTellStatus
  BY DEF TasksOK, TaskInv, EventsInv, EventsTellStatus
<1> QED
  BY <1>1, TasksAlwaysOK, PTL

\* Recovery expires an attempt only after its lease, and a worker finishes one
\* only before it.
THEOREM LeasesHonoured == Spec => LeaseHonoured
<1>1. TypeOK /\ TasksOK /\ [Next]_vars
         => [\A k \in Keys : \A n \in DOMAIN tasks[k].attempts :
               LET old == tasks[k].attempts[n]
                   new == tasks'[k].attempts[n]
               IN  old.status = "active" /\ new.status # "active"
                      => (new.status = "expired" <=> clock >= old.lease)]_vars
  BY StepKeepsTypeAndTasks DEF AllEvolve, Evolves, AttemptsEvolve
<1> QED
  BY <1>1, TasksAlwaysOK, PTL DEF Spec, LeaseHonoured

\* Finished attempts and logged events are never changed.
THEOREM HistoryKept == Spec => HistoryIsAppendOnly
<1>1. TypeOK /\ TasksOK /\ [Next]_vars
         => [\A k \in Keys :
              /\ \A n \in DOMAIN tasks[k].attempts :
                    /\ n \in DOMAIN tasks'[k].attempts
                    /\ \/ tasks[k].attempts[n].status = "active"
                       \/ tasks'[k].attempts[n] = tasks[k].attempts[n]
              /\ \A i \in DOMAIN tasks[k].events :
                    /\ i \in DOMAIN tasks'[k].events
                    /\ tasks'[k].events[i] = tasks[k].events[i]]_vars
  BY StepKeepsTypeAndTasks DEF AllEvolve, Evolves, AttemptsEvolve, EventsEvolve
<1> QED
  BY <1>1, TasksAlwaysOK, PTL DEF Spec, HistoryIsAppendOnly

\* The rows of every task agree with each other whatever late workers, owners
\* and schedulers do (all invariants of the aggregate together).
THEOREM TasksStayConsistent == Spec => []TasksConsistent
<1>1. /\ TypeOK /\ OneActiveAttempt /\ WaitingIsClaimable
      /\ CancelSticks /\ EventsTellStatus
      => TasksConsistent
  BY DEF TasksConsistent
<1> QED
  BY <1>1, TypeCorrect, ExecutionExclusive, WaitingClaimable,
     CancellationSticks, EventLogTruthful, PTL

\* Leases decide who ends an attempt, and what was decided is never rewritten
\* (complete, fail, renew and recover_expired).
THEOREM AttemptsStayHonoured == Spec => AttemptsHonoured
BY LeasesHonoured, HistoryKept, PTL DEF AttemptsHonoured

-----------------------------------------------------------------------------
(* Scheduler commands.  A receipt of a requeue carries an available_at that  *)
(* has passed, and while a task executes it lies no later than the start of  *)
(* the attempt; a receipt of a recovery names a finished attempt.            *)

ReceiptsInv ==
  /\ \A c \in due : c.available <= clock
  /\ \A k \in Keys, id \in Nat :
        Receipt("requeue", k, id) \in receipts
           => /\ id <= clock
              /\ \A n \in DOMAIN tasks[k].attempts :
                    IsActive(tasks[k], n) => id <= tasks[k].attempts[n].created
              /\ tasks[k].status = "retry_wait" => id # tasks[k].available
  /\ \A k \in Keys : \A i \in DOMAIN tasks[k].events :
        tasks[k].events[i].type = "requeued"
           => Receipt("requeue", k, tasks[k].events[i].key) \in receipts
  /\ \A k \in Keys, n \in Nat, l \in Nat :
        Receipt("recover", k, <<n, l>>) \in receipts
           => n \in DOMAIN tasks[k].attempts /\ ~IsActive(tasks[k], n)
\* Every requeue event of task u under key k has its receipt in R.
RequeuesHaveReceipts(k, u, R) ==
  \A i \in DOMAIN u.events :
     u.events[i].type = "requeued"
        => Receipt("requeue", k, u.events[i].key) \in R

\* A requeue event is appended only together with its receipt.
LEMMA AppendKeepsReceipts ==
  ASSUME NEW t \in Task, NEW u \in Task, NEW e \in Event, NEW k, NEW R, NEW Q,
         u.events = Append(t.events, e), RequeuesHaveReceipts(k, t, R),
         R \subseteq Q,
         e.type = "requeued" => Receipt("requeue", k, e.key) \in Q
  PROVE  RequeuesHaveReceipts(k, u, Q)
<1>1. /\ DOMAIN u.events = 1..(Len(t.events) + 1)
      /\ DOMAIN t.events = 1..Len(t.events)
      /\ Len(t.events) \in Nat
      /\ \A i \in 1..Len(t.events) : u.events[i] = t.events[i]
      /\ u.events[Len(t.events) + 1] = e
  BY AppendProperties DEF Task
<1>2. ASSUME NEW i \in DOMAIN u.events, u.events[i].type = "requeued"
      PROVE  Receipt("requeue", k, u.events[i].key) \in Q
  <2>1. CASE i = Len(t.events) + 1
    BY <1>1, <1>2, <2>1
  <2>2. CASE i \in 1..Len(t.events)
    BY <1>1, <1>2, <2>2 DEF RequeuesHaveReceipts
  <2> QED
    BY <1>1, <2>1, <2>2
<1> QED
  BY <1>2 DEF RequeuesHaveReceipts

\* What a command that saves one task has to leave behind for ReceiptsInv.
LEMMA SaveKeepsReceipts ==
  ASSUME TypeOK, TasksOK, ReceiptsInv,
         NEW k \in Keys, NEW u \in Task, TaskInv(u), Evolves(tasks[k], u, clock),
         tasks' = [tasks EXCEPT ![k] = u], UNCHANGED <<clock, due>>,
         receipts \subseteq receipts',
         \A n \in DOMAIN u.attempts :
            IsActive(u, n) =>
               \/ u.attempts[n].created = clock
               \/ /\ IsActive(tasks[k], n)
                  /\ u.attempts[n].created = tasks[k].attempts[n].created,
         \A id \in Nat : Receipt("requeue", k, id) \in receipts'
            => (u.status = "retry_wait" => id # u.available),
         RequeuesHaveReceipts(k, u, receipts'),
         \A j \in Keys, id \in Nat : Receipt("requeue", j, id) \in receipts'
            => \/ Receipt("requeue", j, id) \in receipts
               \/ j = k /\ id <= clock /\ u.status = "queued",
         \A j \in Keys, n \in Nat, l \in Nat :
            Receipt("recover", j, <<n, l>>) \in receipts'
            => \/ Receipt("recover", j, <<n, l>>) \in receipts
               \/ j = k /\ n \in DOMAIN u.attempts /\ ~IsActive(u, n)
  PROVE  ReceiptsInv'
<1>1. tasks'[k] = u /\ \A j \in Keys : j # k => tasks'[j] = tasks[j]
  BY DEF TypeOK
<1>2. clock \in Nat /\ tasks[k] \in Task
  BY DEF TypeOK
<1>3. \A c \in due' : c.available <= clock'
  BY DEF ReceiptsInv
<1>4. ASSUME NEW j \in Keys, NEW id \in Nat,
             Receipt("requeue", j, id) \in receipts'
      PROVE  /\ id <= clock'
             /\ \A n \in DOMAIN tasks'[j].attempts :
                   IsActive(tasks'[j], n) => id <= tasks'[j].attempts[n].created
             /\ tasks'[j].status = "retry_wait" => id # tasks'[j].available
  <2>1. CASE j # k
    <3>1. Receipt("requeue", j, id) \in receipts /\ tasks'[j] = tasks[j]
      BY <1>1, <1>4, <2>1
    <3> QED
      BY <3>1 DEF ReceiptsInv
  <2>2. CASE j = k /\ Receipt("requeue", k, id) \in receipts
    BY <1>1, <1>2, <1>4, <2>2 DEF ReceiptsInv, IsActive
  <2>3. CASE j = k /\ id <= clock /\ u.status = "queued"
    <3>1. \A n \in DOMAIN u.attempts : ~IsActive(u, n)
      BY <2>3, ActiveIsLast DEF TaskInv, Executing
    <3> QED
      BY <1>1, <2>3, <3>1
  <2> QED
    BY <1>4, <2>1, <2>2, <2>3
<1>5. ASSUME NEW j \in Keys, NEW i \in DOMAIN tasks'[j].events,
             tasks'[j].events[i].type = "requeued"
      PROVE  Receipt("requeue", j, tasks'[j].events[i].key) \in receipts'
  <2>1. CASE j # k
    BY <1>1, <1>5, <2>1 DEF ReceiptsInv
  <2>2. CASE j = k
    BY <1>1, <1>5, <2>2 DEF RequeuesHaveReceipts
  <2> QED
    BY <2>1, <2>2
<1>6. ASSUME NEW j \in Keys, NEW n \in Nat, NEW l \in Nat,
             Receipt("recover", j, <<n, l>>) \in receipts'
      PROVE  n \in DOMAIN tasks'[j].attempts /\ ~IsActive(tasks'[j], n)
  <2>1. CASE j # k
    BY <1>1, <1>6, <2>1 DEF ReceiptsInv
  <2>2. CASE j = k /\ Receipt("recover", k, <<n, l>>) \in receipts
    <3>1. n \in DOMAIN tasks[k].attempts /\ ~IsActive(tasks[k], n)
      BY <2>2 DEF ReceiptsInv
    <3> QED
      BY <1>1, <2>2, <3>1 DEF Evolves, AttemptsEvolve, IsActive
  <2>3. CASE j = k /\ n \in DOMAIN u.attempts /\ ~IsActive(u, n)
    BY <1>1, <2>3
  <2> QED
    BY <1>6, <2>1, <2>2, <2>3
<1> QED
  BY <1>3, <1>4, <1>5, <1>6 DEF ReceiptsInv

\* ReceiptsInv implies the property.
LEMMA SchedulerCommandFreshFromInv ==
  ASSUME TypeOK, ReceiptsInv
  PROVE  SchedulerCommandIsFresh
<1> SUFFICES ASSUME NEW k \in Keys
             PROVE  /\ tasks[k].status = "retry_wait"
                        => /\ Receipt("requeue", k, tasks[k].available) \notin receipts
                           /\ FreshTransition(tasks[k], "requeued", tasks[k].available)
                    /\ \A n \in DOMAIN tasks[k].attempts :
                          IsActive(tasks[k], n) =>
                             Receipt("recover", k, <<n, tasks[k].attempts[n].lease>>)
                                \notin receipts
  BY DEF SchedulerCommandIsFresh
<1>1. tasks[k].available \in Nat /\ DOMAIN tasks[k].attempts \subseteq Nat
  BY DEF TypeOK, Task
<1>2. \A n \in DOMAIN tasks[k].attempts : tasks[k].attempts[n].lease \in Nat
  <2>1. \A n \in DOMAIN tasks[k].attempts : tasks[k].attempts[n] \in Attempt
    BY DEF TypeOK, Task
  <2> QED
    BY <2>1 DEF Attempt
<1>3. ASSUME tasks[k].status = "retry_wait"
      PROVE  Receipt("requeue", k, tasks[k].available) \notin receipts
  BY <1>1, <1>3 DEF ReceiptsInv
<1>4. ASSUME tasks[k].status = "retry_wait"
      PROVE  FreshTransition(tasks[k], "requeued", tasks[k].available)
  BY <1>3, <1>4 DEF ReceiptsInv, FreshTransition
<1>5. \A n \in DOMAIN tasks[k].attempts : IsActive(tasks[k], n) =>
         Receipt("recover", k, <<n, tasks[k].attempts[n].lease>>) \notin receipts
  BY <1>1, <1>2 DEF ReceiptsInv
<1> QED
  BY <1>3, <1>4, <1>5

\* Receipts of different commands differ.
LEMMA ReceiptInjective ==
  ASSUME NEW s1, NEW k1, NEW id1, NEW s2, NEW k2, NEW id2,
         Receipt(s1, k1, id1) = Receipt(s2, k2, id2)
  PROVE  s1 = s2 /\ k1 = k2 /\ id1 = id2
BY DEF Receipt

\* A command that writes no receipt.
LEMMA SaveTaskKeepsReceipts ==
  ASSUME TypeOK, TasksOK, ReceiptsInv,
         NEW k \in Keys, NEW u \in Task, TaskInv(u), Evolves(tasks[k], u, clock),
         SaveTask(k, u),
         \A n \in DOMAIN u.attempts :
            IsActive(u, n) =>
               \/ u.attempts[n].created = clock
               \/ /\ IsActive(tasks[k], n)
                  /\ u.attempts[n].created = tasks[k].attempts[n].created,
         \A id \in Nat : Receipt("requeue", k, id) \in receipts
            => (u.status = "retry_wait" => id # u.available),
         RequeuesHaveReceipts(k, u, receipts)
  PROVE  ReceiptsInv'
<1>1. /\ tasks' = [tasks EXCEPT ![k] = u] /\ UNCHANGED <<clock, due>>
      /\ receipts' = receipts
  BY DEF SaveTask
<1> QED
  BY <1>1, SaveKeepsReceipts

\* A command with a receipt of type "cancel" or "manual-retry".
LEMMA ClientCommandKeepsReceipts ==
  ASSUME TypeOK, TasksOK, ReceiptsInv,
         NEW k \in Keys, NEW u \in Task, TaskInv(u), Evolves(tasks[k], u, clock),
         NEW type \in {"cancel", "manual-retry"}, NEW command,
         SaveWithReceipt(k, u, Receipt(type, k, command)),
         u.attempts = tasks[k].attempts,
         u.status # "retry_wait",
         RequeuesHaveReceipts(k, u, receipts')
  PROVE  ReceiptsInv'
<1>1. /\ tasks' = [tasks EXCEPT ![k] = u] /\ UNCHANGED <<clock, due>>
      /\ receipts' = receipts \cup {Receipt(type, k, command)}
      /\ receipts \subseteq receipts'
  BY DEF SaveWithReceipt
<1>2. \A j \in Keys, id \in Nat : Receipt("requeue", j, id) \in receipts'
         => Receipt("requeue", j, id) \in receipts
  BY <1>1, ReceiptInjective
<1>3. \A j \in Keys, n \in Nat, l \in Nat :
         Receipt("recover", j, <<n, l>>) \in receipts'
         => Receipt("recover", j, <<n, l>>) \in receipts
  BY <1>1, ReceiptInjective
<1>4. \A n \in DOMAIN u.attempts : IsActive(u, n) =>
         /\ IsActive(tasks[k], n)
         /\ u.attempts[n].created = tasks[k].attempts[n].created
  BY DEF IsActive
<1> QED
  BY <1>1, <1>2, <1>3, <1>4, SaveKeepsReceipts

\* Scans and the clock keep ReceiptsInv.
LEMMA SameTasksKeepReceipts ==
  ASSUME TypeOK, ReceiptsInv, UNCHANGED <<tasks, receipts>>,
         clock' \in Nat, clock <= clock',
         \A c \in due' : \/ c \in due
                         \/ c.available \in Nat /\ c.available <= clock
  PROVE  ReceiptsInv'
<1>1. clock \in Nat
  BY DEF TypeOK
<1>2. \A c \in due' : c.available <= clock'
  <2>1. \A c \in due : c.available \in Nat
    BY DEF TypeOK, DueRetryCandidate
  <2> QED
    BY <1>1, <2>1 DEF ReceiptsInv
<1>3. \A j \in Keys, id \in Nat :
         Receipt("requeue", j, id) \in receipts => id <= clock'
  BY <1>1 DEF ReceiptsInv
<1> QED
  BY <1>2, <1>3 DEF ReceiptsInv

\* The induction step for ReceiptsInv, one case for each action of Next.
LEMMA StepKeepsReceipts ==
  ASSUME TypeOK, TasksOK, ReceiptsInv, [Next]_vars
  PROVE  ReceiptsInv'
<1>0. clock \in Nat /\ \A k \in Keys : /\ tasks[k] \in Task
                                       /\ TaskInv(tasks[k])
                                       /\ RequeuesHaveReceipts(k, tasks[k], receipts)
  BY DEF TypeOK, TasksOK, ReceiptsInv, RequeuesHaveReceipts
<1>1. ASSUME NEW k \in Keys, NEW input \in Fingerprints, Submit(k, input)
      PROVE  ReceiptsInv'
  <2> DEFINE u == NewTask(input, clock)
  <2>1. /\ u \in Task /\ TaskInv(u) /\ Evolves(tasks[k], u, clock)
        /\ SaveTask(k, u)
    BY <1>0, <1>1, CreateKeepsTaskInv, SubmitEvolves DEF Submit
  <2>2. /\ u.status = "queued" /\ u.attempts = <<>>
        /\ u.events = <<EventOf("created", 0)>>
    BY DEF NewTask, AbsentTask
  <2>3. RequeuesHaveReceipts(k, u, receipts)
    BY <2>2 DEF RequeuesHaveReceipts, EventOf
  <2> HIDE DEF u
  <2> QED
    BY <2>1, <2>2, <2>3, SaveTaskKeepsReceipts
<1>2. ASSUME NEW k \in Keys, NEW lease \in (clock + 1)..(clock + LeaseTTL),
             Claim(k, lease)
      PROVE  ReceiptsInv'
  <2> DEFINE t == tasks[k]
             u == ClaimTask(t, clock, lease)
             a == [status |-> "active", created |-> clock, lease |-> lease,
                   renewal |-> 0, category |-> "none", result |-> NoFingerprint]
             e == EventOf("claimed", AttemptCount(t) + 1)
  <2>1. lease \in Nat
    BY <1>0, TimingAssumption
  <2>2. /\ u \in Task /\ TaskInv(u) /\ Evolves(t, u, clock) /\ SaveTask(k, u)
    BY <1>0, <1>2, <2>1, ClaimKeepsTaskInv DEF Claim
  <2>3. AttemptCount(t) \in Nat
    BY <1>0 DEF AttemptCount, Task
  <2>4. e \in Event /\ e.type = "claimed"
    BY <2>3, EventOfType DEF EventType, EventOf
  <2>5. a \in Attempt /\ a.created = clock
    BY <1>0, <2>1 DEF Attempt, AttemptStatus, FailureCategory
  <2>6. /\ u.status = "running" /\ u.attempts = Append(t.attempts, a)
        /\ u.events = Append(t.events, e)
    BY <1>0 DEF ClaimTask, Task
  <2> HIDE DEF a, e
  <2>7. AttemptCount(u) = AttemptCount(t) + 1 /\ u.attempts[AttemptCount(u)] = a
    BY <1>0, <2>5, <2>6, AppendProperties DEF AttemptCount, Task
  <2> HIDE DEF u
  <2>8. \A n \in DOMAIN u.attempts :
           IsActive(u, n) => u.attempts[n].created = clock
    BY <2>2, <2>5, <2>7, ActiveIsLast DEF TaskInv
  <2>9. RequeuesHaveReceipts(k, u, receipts)
    BY <1>0, <2>2, <2>4, <2>6, AppendKeepsReceipts
  <2> QED
    BY <2>2, <2>6, <2>8, <2>9, SaveTaskKeepsReceipts
<1>3. ASSUME NEW k \in Keys, NEW n \in DOMAIN tasks[k].attempts,
             HolderStep(k, n)
      PROVE  ReceiptsInv'
  <2> DEFINE t == tasks[k]
  <2>0. t \in Task /\ TaskInv(t) /\ t.attempts[n] \in Attempt /\ n \in Nat
    BY <1>0 DEF Task
  <2>1. ASSUME NEW seq \in 1..MaxRenewals, NEW ext \in 1..LeaseTTL,
               RenewLease(k, n, seq, t.attempts[n].lease + ext)
        PROVE  ReceiptsInv'
    <3> DEFINE expiry == t.attempts[n].lease + ext
               u == RenewTask(t, n, seq, expiry)
               a == [t.attempts[n] EXCEPT !.renewal = seq, !.lease = expiry]
    <3>1. seq \in Nat /\ expiry \in Nat
      BY <2>0, TimingAssumption DEF Attempt
    <3>2. CanRenew(t, n, seq, expiry, clock) /\ SaveTask(k, u)
      BY <2>1 DEF RenewLease
    <3> HIDE DEF expiry
    <3>3. u \in Task /\ TaskInv(u) /\ Evolves(t, u, clock)
      BY <1>0, <2>0, <3>1, <3>2, RenewKeepsTaskInv
    <3>4. /\ u.status = t.status /\ u.events = t.events
          /\ u.attempts = [t.attempts EXCEPT ![n] = a]
      BY <2>0 DEF RenewTask, Task
    <3>5. a \in Attempt /\ a.created = t.attempts[n].created
      BY <2>0, <3>1 DEF Attempt
    <3>6. IsActive(t, n) /\ t.status \in Executing
      BY <3>2 DEF CanRenew, HoldsLease
    <3> HIDE DEF a, u
    <3>7. /\ DOMAIN u.attempts = DOMAIN t.attempts /\ u.attempts[n] = a
          /\ \A i \in DOMAIN t.attempts : i # n => u.attempts[i] = t.attempts[i]
      BY <2>0, <3>4, <3>5, ReplaceProperties DEF Task
    <3>8. \A i \in DOMAIN u.attempts : IsActive(u, i) =>
             /\ IsActive(t, i)
             /\ u.attempts[i].created = t.attempts[i].created
      BY <3>5, <3>6, <3>7 DEF IsActive
    <3>9. RequeuesHaveReceipts(k, u, receipts)
      BY <1>0, <3>4 DEF RequeuesHaveReceipts
    <3> QED
      BY <3>2, <3>3, <3>4, <3>6, <3>8, <3>9, SaveTaskKeepsReceipts DEF Executing
  <2>2. ASSUME ConfirmCancellation(k, n)
        PROVE  ReceiptsInv'
    <3> DEFINE u == ConfirmCancelTask(t, n)
               e == EventOf("cancelled", n)
    <3>1. u \in Task /\ TaskInv(u) /\ Evolves(t, u, clock) /\ SaveTask(k, u)
      BY <1>0, <2>0, <2>2, ConfirmCancelKeepsTaskInv DEF ConfirmCancellation
    <3>2. e \in Event /\ e.type = "cancelled"
      BY <2>0, EventOfType DEF EventType, EventOf
    <3>3. u.status = "cancelled" /\ u.events = Append(t.events, e)
      BY <2>0 DEF ConfirmCancelTask, Task
    <3> HIDE DEF u, e
    <3>4. RequeuesHaveReceipts(k, u, receipts)
      BY <1>0, <2>0, <3>1, <3>2, <3>3, AppendKeepsReceipts
    <3>5. \A i \in DOMAIN u.attempts : ~IsActive(u, i)
      BY <3>1, <3>3, ActiveIsLast DEF TaskInv, Executing
    <3> QED
      BY <3>1, <3>3, <3>4, <3>5, SaveTaskKeepsReceipts
  <2>3. ASSUME NEW result \in Fingerprints, Complete(k, n, result)
        PROVE  ReceiptsInv'
    <3> DEFINE u == CompleteTask(t, n, result)
               e == EventOf("succeeded", n)
    <3>1. u \in Task /\ TaskInv(u) /\ Evolves(t, u, clock) /\ SaveTask(k, u)
      BY <1>0, <2>0, <2>3, CompleteKeepsTaskInv DEF Complete
    <3>2. e \in Event /\ e.type = "succeeded"
      BY <2>0, EventOfType DEF EventType, EventOf
    <3>3. u.status = "succeeded" /\ u.events = Append(t.events, e)
      BY <2>0 DEF CompleteTask, Task
    <3> HIDE DEF u, e
    <3>4. RequeuesHaveReceipts(k, u, receipts)
      BY <1>0, <2>0, <3>1, <3>2, <3>3, AppendKeepsReceipts
    <3>5. \A i \in DOMAIN u.attempts : ~IsActive(u, i)
      BY <3>1, <3>3, ActiveIsLast DEF TaskInv, Executing
    <3> QED
      BY <3>1, <3>3, <3>4, <3>5, SaveTaskKeepsReceipts
  <2>4. ASSUME NEW category \in {"transient", "permanent"},
               NEW result \in Fingerprints,
               NEW raised \in t.attempts[n].created..clock,
               Fail(k, n, category, result, raised)
        PROVE  ReceiptsInv'
    <3> DEFINE retryAt == raised + RetryDelay
               retry == IsRetryable(t, category)
               u == FailTask(t, n, category, result, retryAt)
               e == EventOf(IF retry THEN "retry_scheduled" ELSE "failed", n)
    <3>1. /\ retryAt \in Nat /\ retryAt > t.attempts[n].created
          /\ category \in FailureCategory /\ t.attempts[n].created \in Nat
      BY <1>0, <2>0, TimingAssumption DEF Attempt, FailureCategory
    <3>2. CanFail(t, n, category, retryAt, clock) /\ SaveTask(k, u)
      BY <2>4 DEF Fail
    <3> HIDE DEF retryAt
    <3>3. u \in Task /\ TaskInv(u) /\ Evolves(t, u, clock)
      BY <1>0, <2>0, <3>1, <3>2, FailKeepsTaskInv
    <3>4. e \in Event /\ e.type # "requeued"
      BY <2>0, EventOfType DEF EventType, EventOf
    <3>5. /\ u.status \in {"retry_wait", "failed"}
          /\ u.status = "retry_wait" => u.available = retryAt
          /\ u.events = Append(t.events, e)
      BY <2>0 DEF FailTask, Task
    <3>6. IsActive(t, n)
      BY <3>2 DEF CanFail, HoldsLease
    <3> HIDE DEF u, e
    <3>7. RequeuesHaveReceipts(k, u, receipts)
      BY <1>0, <2>0, <3>3, <3>4, <3>5, AppendKeepsReceipts
    <3>8. \A i \in DOMAIN u.attempts : ~IsActive(u, i)
      BY <3>3, <3>5, ActiveIsLast DEF TaskInv, Executing
    <3>9. \A id \in Nat : Receipt("requeue", k, id) \in receipts
             => id <= t.attempts[n].created
      BY <3>6 DEF ReceiptsInv
    <3>10. \A id \in Nat : Receipt("requeue", k, id) \in receipts
              => (u.status = "retry_wait" => id # u.available)
      BY <3>1, <3>5, <3>9
    <3> QED
      BY <3>2, <3>3, <3>7, <3>8, <3>10, SaveTaskKeepsReceipts
  <2> QED
    BY <1>3, <2>1, <2>2, <2>3, <2>4 DEF HolderStep
<1>4. ASSUME NEW k \in Keys, NEW command \in Commands, Cancel(k, command)
      PROVE  ReceiptsInv'
  <2> DEFINE t == tasks[k]
             u == RequestCancelTask(t, command)
             e == EventOf(IF t.status = "running" THEN "cancel_requested"
                          ELSE "cancelled", command)
  <2>1. /\ u \in Task /\ TaskInv(u) /\ Evolves(t, u, clock)
        /\ SaveWithReceipt(k, u, Receipt("cancel", k, command))
    BY <1>0, <1>4, RequestCancelKeepsTaskInv DEF Cancel
  <2>2. e \in Event /\ e.type # "requeued"
    BY EventOfType DEF EventType, EventOf
  <2>3. /\ u.status \in {"cancelled", "cancel_requested"}
        /\ u.attempts = t.attempts /\ u.events = Append(t.events, e)
    BY <1>0 DEF RequestCancelTask, Task
  <2> HIDE DEF u, e
  <2>4. RequeuesHaveReceipts(k, u, receipts')
    BY <1>0, <2>1, <2>2, <2>3, AppendKeepsReceipts DEF SaveWithReceipt
  <2> QED
    BY <2>1, <2>3, <2>4, ClientCommandKeepsReceipts
<1>5. ASSUME NEW k \in Keys, NEW command \in Commands, Retry(k, command)
      PROVE  ReceiptsInv'
  <2> DEFINE t == tasks[k]
             u == ManualRetryTask(t, command, clock)
             e == EventOf("retry_requested", command)
  <2>1. /\ u \in Task /\ TaskInv(u) /\ Evolves(t, u, clock)
        /\ SaveWithReceipt(k, u, Receipt("manual-retry", k, command))
    BY <1>0, <1>5, ManualRetryKeepsTaskInv DEF Retry
  <2>2. e \in Event /\ e.type # "requeued"
    BY EventOfType DEF EventType, EventOf
  <2>3. /\ u.status = "queued"
        /\ u.attempts = t.attempts /\ u.events = Append(t.events, e)
    BY <1>0 DEF ManualRetryTask, Task
  <2> HIDE DEF u, e
  <2>4. RequeuesHaveReceipts(k, u, receipts')
    BY <1>0, <2>1, <2>2, <2>3, AppendKeepsReceipts DEF SaveWithReceipt
  <2> QED
    BY <2>1, <2>3, <2>4, ClientCommandKeepsReceipts
<1>6. ASSUME NEW c \in due, RequeueDue(c)
      PROVE  ReceiptsInv'
  <2> DEFINE k == c.key
             t == tasks[k]
             u == RequeueDueTask(t, c.available, clock)
             e == EventOf("requeued", c.available)
  <2>1. k \in Keys /\ c.available \in Nat /\ c.available <= clock
    BY DEF TypeOK, DueRetryCandidate, ReceiptsInv
  <2>2. /\ CanRequeueDue(t, c.available, clock)
        /\ tasks' = [tasks EXCEPT ![k] = u] /\ UNCHANGED <<clock, due>>
        /\ receipts' = receipts \cup {Receipt("requeue", k, c.available)}
        /\ receipts \subseteq receipts'
    BY <1>6 DEF RequeueDue, SaveWithReceipt
  <2>3. e \in Event /\ e.key = c.available
    BY <2>1, EventOfType DEF EventType, EventOf
  <2>4. /\ u.status = "queued"
        /\ u.attempts = t.attempts /\ u.events = Append(t.events, e)
    BY <1>0, <2>1 DEF RequeueDueTask, Task
  <2> HIDE DEF k, e
  <2>5. u \in Task /\ TaskInv(u) /\ Evolves(t, u, clock)
    BY <1>0, <2>1, <2>2, RequeueKeepsTaskInv
  <2> HIDE DEF u
  <2>6. RequeuesHaveReceipts(k, u, receipts')
    BY <1>0, <2>1, <2>2, <2>3, <2>4, <2>5, AppendKeepsReceipts
  <2>7. \A j \in Keys, id \in Nat : Receipt("requeue", j, id) \in receipts'
           => \/ Receipt("requeue", j, id) \in receipts
              \/ j = k /\ id <= clock /\ u.status = "queued"
    BY <2>1, <2>2, <2>4, ReceiptInjective
  <2>8. \A j \in Keys, n \in Nat, l \in Nat :
           Receipt("recover", j, <<n, l>>) \in receipts'
           => Receipt("recover", j, <<n, l>>) \in receipts
    BY <2>2, ReceiptInjective
  <2>9. \A n \in DOMAIN u.attempts : IsActive(u, n) =>
           /\ IsActive(t, n)
           /\ u.attempts[n].created = t.attempts[n].created
    BY <2>4 DEF IsActive
  <2> QED
    BY <2>1, <2>2, <2>4, <2>5, <2>6, <2>7, <2>8, <2>9, SaveKeepsReceipts
<1>7. ASSUME NEW c \in expired, Recover(c)
      PROVE  ReceiptsInv'
  <2> DEFINE k == c.key
             t == tasks[k]
             retryAt == IF RecoveryDelay > 0 THEN c.at + RecoveryDelay ELSE 0
             outcome == RecoveryOutcome(t, retryAt, clock)
             u == RecoverTask(t, c.attempt, retryAt, clock)
             e == [type |-> "recovered", key |-> c.attempt, outcome |-> outcome]
             id0 == <<c.attempt, c.lease>>
  <2>1. k \in Keys /\ c.attempt \in Nat /\ c.lease \in Nat /\ retryAt \in Nat
    BY TimingAssumption DEF TypeOK, ExpiredTaskCandidate
  <2>2. /\ CanRecover(t, c.attempt, clock)
        /\ tasks' = [tasks EXCEPT ![k] = u] /\ UNCHANGED <<clock, due>>
        /\ receipts' = receipts \cup {Receipt("recover", k, id0)}
        /\ receipts \subseteq receipts'
    BY <1>7 DEF Recover, SaveWithReceipt
  <2>3. /\ outcome \in {"cancelled", "failed", "retry_wait", "queued"}
        /\ outcome = "retry_wait" => retryAt > clock
    BY DEF RecoveryOutcome
  <2>4. /\ u.status = outcome
        /\ outcome = "retry_wait" => u.available = retryAt
        /\ u.events = Append(t.events, e)
        /\ DOMAIN u.attempts = DOMAIN t.attempts
    BY <1>0, <2>1 DEF RecoverTask, Task
  <2>5. e \in Event /\ e.type = "recovered"
    BY <2>1, <2>3 DEF Event, EventType, TaskStatus
  <2> HIDE DEF k, e, retryAt, outcome
  <2>6. u \in Task /\ TaskInv(u) /\ Evolves(t, u, clock)
    BY <1>0, <2>1, <2>2, RecoverKeepsTaskInv
  <2> HIDE DEF u
  <2>7. RequeuesHaveReceipts(k, u, receipts')
    BY <1>0, <2>1, <2>2, <2>4, <2>5, <2>6, AppendKeepsReceipts
  <2>8. \A j \in Keys, id \in Nat : Receipt("requeue", j, id) \in receipts'
           => Receipt("requeue", j, id) \in receipts
    BY <2>2, ReceiptInjective
  <2>9. \A i \in DOMAIN u.attempts : ~IsActive(u, i)
    BY <2>3, <2>4, <2>6, ActiveIsLast DEF TaskInv, Executing
  <2>10. c.attempt \in DOMAIN u.attempts
    BY <2>2, <2>4 DEF CanRecover, IsActive
  <2>11. \A j \in Keys, n \in Nat, l \in Nat :
            Receipt("recover", j, <<n, l>>) \in receipts'
            => \/ Receipt("recover", j, <<n, l>>) \in receipts
               \/ j = k /\ n \in DOMAIN u.attempts /\ ~IsActive(u, n)
    <3>1. \A j \in Keys, n \in Nat, l \in Nat :
            Receipt("recover", j, <<n, l>>) = Receipt("recover", k, id0)
            => j = k /\ n = c.attempt
      BY ReceiptInjective
    <3> QED
      BY <2>2, <2>9, <2>10, <3>1
  <2>12. \A id \in Nat : Receipt("requeue", k, id) \in receipts'
            => (u.status = "retry_wait" => id # u.available)
    <3>1. \A id \in Nat : Receipt("requeue", k, id) \in receipts' => id <= clock
      BY <2>1, <2>8 DEF ReceiptsInv
    <3> QED
      BY <1>0, <2>1, <2>3, <2>4, <3>1
  <2> QED
    BY <2>1, <2>2, <2>6, <2>7, <2>8, <2>9, <2>11, <2>12, SaveKeepsReceipts
<1>8. ASSUME NEW k \in Keys, NEW n \in DOMAIN tasks[k].attempts,
             ScanExpired(k, n)
      PROVE  ReceiptsInv'
  BY <1>0, <1>8, SameTasksKeepReceipts DEF ScanExpired
<1>9. ASSUME NEW k \in Keys, ScanDue(k)
      PROVE  ReceiptsInv'
  <2>1. tasks[k].available \in Nat
    BY <1>0 DEF Task
  <2> QED
    BY <1>0, <1>9, <2>1, SameTasksKeepReceipts DEF ScanDue
<1>10. CASE Tick
  BY <1>0, <1>10, SameTasksKeepReceipts DEF Tick
<1>11. CASE UNCHANGED vars
  BY <1>0, <1>11, SameTasksKeepReceipts DEF vars
<1> QED
  BY <1>1, <1>2, <1>3, <1>4, <1>5, <1>6, <1>7, <1>8, <1>9, <1>10, <1>11
     DEF Next, TaskStep, SchedulerStep

\* No receipt of an earlier requeue or recovery ever answers for the command
\* that a waiting or an expired task still needs: the schedulers never report
\* success for a task they leave where it is.
THEOREM SchedulerCommandsFresh == Spec => []SchedulerCommandIsFresh
<1>1. Init => ReceiptsInv
  <2>1. AbsentTask.events = <<>>
    BY DEF AbsentTask
  <2> QED
    BY <2>1 DEF Init, ReceiptsInv
<1>2. TypeOK /\ TasksOK /\ ReceiptsInv /\ [Next]_vars => ReceiptsInv'
  BY StepKeepsReceipts
<1>3. TypeOK /\ ReceiptsInv => SchedulerCommandIsFresh
  BY SchedulerCommandFreshFromInv
<1> QED
  BY <1>1, <1>2, <1>3, TasksAlwaysOK, PTL DEF Spec

-----------------------------------------------------------------------------
(* The lifecycle implements TaskPromise: each method of the aggregate moves *)
(* a task along one edge of the owner's view (OwnerStep); what is left is  *)
(* to read an edge as an action of TaskPromise under the refinement        *)
(* mapping.                                                                *)

Published(t) == IF t.status = "succeeded" THEN t.result ELSE NoFingerprint

\* The edges of the owner's view of a task.
OwnerStep(t, u) ==
  LET from == PhaseOf(t.status)
      to   == PhaseOf(u.status)
      Same == AttemptCount(u) = AttemptCount(t) /\ Published(u) = Published(t)
  IN  \/ from = to /\ Same
      \/ from = "absent" /\ to = "waiting" /\ Same
      \/ /\ from = "waiting" /\ to = "running"
         /\ AttemptCount(t) < MaxAttempts
         /\ AttemptCount(u) = AttemptCount(t) + 1
         /\ Published(u) = Published(t)
      \/ from = "running" /\ to = "waiting" /\ AttemptCount(t) < MaxAttempts /\ Same
      \/ /\ from = "running" /\ to = "succeeded"
         /\ AttemptCount(u) = AttemptCount(t)
         /\ Published(u) \in Fingerprints
      \/ from = "running" /\ to = "failed" /\ Same
      \/ /\ from = "failed" /\ to = "waiting" /\ Same
         /\ AllowManualRetry /\ AttemptCount(t) < MaxAttempts
      \/ from = "waiting" /\ to = "cancelled" /\ Same
      \/ from = "running" /\ to = "stopping" /\ Same
      \/ from = "stopping" /\ to = "cancelled" /\ Same

\* A function updated at one point is the function that agrees everywhere else.
LEMMA ExceptByPoints ==
  ASSUME NEW S, NEW k \in S, NEW v, NEW f, NEW g,
         f = [j \in S |-> f[j]], g = [j \in S |-> g[j]],
         g[k] = v, \A j \in S : j # k => g[j] = f[j]
  PROVE  g = [f EXCEPT ![k] = v]
OBVIOUS

\* Moving one task along an edge of the owner's view is a step of TaskPromise
\* or none.
LEMMA OwnerStepIsPromised ==
  ASSUME TypeOK, NEW k \in Keys, NEW u, OwnerStep(tasks[k], u),
         tasks' = [tasks EXCEPT ![k] = u]
  PROVE  [Promise!Next]_(Promise!vars)
<1> DEFINE t == tasks[k]
           P == [j \in Keys |-> PhaseOf(tasks[j].status)]
           R == [j \in Keys |-> AttemptCount(tasks[j])]
           B == [j \in Keys |-> Published(tasks[j])]
<1>1. tasks'[k] = u /\ \A j \in Keys : j # k => tasks'[j] = tasks[j]
  BY DEF TypeOK
<1>2. /\ P' = [P EXCEPT ![k] = PhaseOf(u.status)]
      /\ R' = [R EXCEPT ![k] = AttemptCount(u)]
      /\ B' = [B EXCEPT ![k] = Published(u)]
  <2>1. /\ P' = [j \in Keys |-> PhaseOf(tasks'[j].status)]
        /\ R' = [j \in Keys |-> AttemptCount(tasks'[j])]
        /\ B' = [j \in Keys |-> Published(tasks'[j])]
    BY DEF PhaseOf, AttemptCount, Published
  <2>2. /\ P'[k] = PhaseOf(u.status) /\ R'[k] = AttemptCount(u)
        /\ B'[k] = Published(u)
    BY <1>1, <2>1
  <2>3. \A j \in Keys : j # k => P'[j] = P[j] /\ R'[j] = R[j] /\ B'[j] = B[j]
    BY <1>1, <2>1
  <2>4. /\ P = [j \in Keys |-> P[j]] /\ P' = [j \in Keys |-> P'[j]]
        /\ R = [j \in Keys |-> R[j]] /\ R' = [j \in Keys |-> R'[j]]
        /\ B = [j \in Keys |-> B[j]] /\ B' = [j \in Keys |-> B'[j]]
    BY <2>1
  <2> HIDE DEF P, R, B
  <2> QED
    BY <2>2, <2>3, <2>4, ExceptByPoints
<1>3. P[k] = PhaseOf(t.status) /\ R[k] = AttemptCount(t) /\ B[k] = Published(t)
  OBVIOUS
<1>4. B = [j \in Keys |-> IF tasks[j].status = "succeeded"
                          THEN tasks[j].result ELSE NoFingerprint]
  BY DEF Published
<1>5. B' = [j \in Keys |-> IF tasks[j].status = "succeeded"
                           THEN tasks[j].result ELSE NoFingerprint]'
  BY DEF Published
<1>6. AttemptCount(u) = AttemptCount(t) => R' = R
  BY <1>2, <1>3
<1>7. Published(u) = Published(t) => B' = B
  BY <1>2, <1>3
<1>8. PhaseOf(u.status) = PhaseOf(t.status) => P' = P
  BY <1>2, <1>3
<1>9. /\ P = [j \in Keys |-> PhaseOf(tasks[j].status)]
      /\ P' = [j \in Keys |-> PhaseOf(tasks[j].status)]'
      /\ R = [j \in Keys |-> AttemptCount(tasks[j])]
      /\ R' = [j \in Keys |-> AttemptCount(tasks[j])]'
  BY DEF P, R
<1> HIDE DEF P, R, B
<1> DEFINE from == PhaseOf(t.status)
           to   == PhaseOf(u.status)
           Same == AttemptCount(u) = AttemptCount(t) /\ Published(u) = Published(t)
<1>10. CASE from = to /\ Same
  BY <1>4, <1>5, <1>6, <1>7, <1>8, <1>9, <1>10 DEF Promise!vars
<1>11. CASE from = "absent" /\ to = "waiting" /\ Same
  <2>1. Promise!Accept(k)
    BY <1>2, <1>3, <1>4, <1>5, <1>6, <1>7, <1>9, <1>11
       DEF Promise!Accept, Promise!Move
  <2> QED
    BY <2>1 DEF Promise!Next
<1>12. CASE /\ from = "waiting" /\ to = "running"
            /\ AttemptCount(t) < MaxAttempts
            /\ AttemptCount(u) = AttemptCount(t) + 1
            /\ Published(u) = Published(t)
  <2>1. Promise!Start(k)
    BY <1>2, <1>3, <1>4, <1>5, <1>7, <1>9, <1>12
       DEF Promise!Start, Promise!Move
  <2> QED
    BY <2>1 DEF Promise!Next
<1>13. CASE from = "running" /\ to = "waiting" /\ AttemptCount(t) < MaxAttempts /\ Same
  <2>1. Promise!Postpone(k)
    BY <1>2, <1>3, <1>4, <1>5, <1>6, <1>7, <1>9, <1>13
       DEF Promise!Postpone, Promise!Move
  <2> QED
    BY <2>1 DEF Promise!Next
<1>14. CASE /\ from = "running" /\ to = "succeeded"
            /\ AttemptCount(u) = AttemptCount(t)
            /\ Published(u) \in Fingerprints
  <2>1. Promise!Succeed(k, Published(u))
    BY <1>2, <1>3, <1>4, <1>5, <1>6, <1>9, <1>14
       DEF Promise!Succeed, Promise!Move
  <2> QED
    BY <1>14, <2>1 DEF Promise!Next
<1>15. CASE from = "running" /\ to = "failed" /\ Same
  <2>1. Promise!GiveUp(k)
    BY <1>2, <1>3, <1>4, <1>5, <1>6, <1>7, <1>9, <1>15
       DEF Promise!GiveUp, Promise!Move
  <2> QED
    BY <2>1 DEF Promise!Next
<1>16. CASE /\ from = "failed" /\ to = "waiting" /\ Same
            /\ AllowManualRetry /\ AttemptCount(t) < MaxAttempts
  <2>1. Promise!Reopen(k)
    BY <1>2, <1>3, <1>4, <1>5, <1>6, <1>7, <1>9, <1>16
       DEF Promise!Reopen, Promise!Move
  <2> QED
    BY <2>1 DEF Promise!Next
<1>17. CASE /\ Same
            /\ \/ from = "waiting" /\ to = "cancelled"
               \/ from = "running" /\ to = "stopping"
  <2>1. Promise!Cancel(k)
    BY <1>2, <1>3, <1>4, <1>5, <1>6, <1>7, <1>9, <1>17
       DEF Promise!Cancel, Promise!Move
  <2> QED
    BY <2>1 DEF Promise!Next
<1>18. CASE from = "stopping" /\ to = "cancelled" /\ Same
  <2>1. Promise!Stopped(k)
    BY <1>2, <1>3, <1>4, <1>5, <1>6, <1>7, <1>9, <1>18
       DEF Promise!Stopped, Promise!Move
  <2> QED
    BY <2>1 DEF Promise!Next
<1> QED
  BY <1>10, <1>11, <1>12, <1>13, <1>14, <1>15, <1>16, <1>17, <1>18 DEF OwnerStep

\* Every action of the lifecycle moves one task along such an edge.
LEMMA StepKeepsPromise ==
  ASSUME TypeOK, TasksOK, [Next]_vars
  PROVE  [Promise!Next]_(Promise!vars)
<1> USE DEF SaveTask, SaveWithReceipt
<1>0. \A k \in Keys : tasks[k] \in Task /\ TaskInv(tasks[k])
  BY DEF TypeOK, TasksOK
<1>1. ASSUME NEW k \in Keys, NEW input \in Fingerprints, Submit(k, input)
      PROVE  [Promise!Next]_(Promise!vars)
  <2> DEFINE t == tasks[k]
             u == NewTask(input, clock)
  <2>1. u.status = "queued" /\ u.attempts = <<>>
    BY DEF NewTask, AbsentTask
  <2>2. t.status = "absent" /\ tasks' = [tasks EXCEPT ![k] = u]
    BY <1>1 DEF Submit
  <2>3. AttemptCount(t) = 0
    <3>1. t.events = <<>>
      BY <1>0, <2>2 DEF TaskInv, EventsInv
    <3>2. \A n \in 1..MaxAttempts : n \notin DOMAIN t.attempts
      BY <1>0, <3>1 DEF TaskInv, EventsInv, FreshTransition
    <3>3. /\ DOMAIN t.attempts = 1..AttemptCount(t) /\ AttemptCount(t) \in Nat
          /\ AttemptCount(t) <= MaxAttempts
      BY <1>0 DEF AttemptCount, Task, TaskInv, AttemptsInv
    <3> QED
      BY <3>2, <3>3, MaxAttemptsAssumption
  <2>4. OwnerStep(t, u)
    BY <2>1, <2>2, <2>3 DEF OwnerStep, PhaseOf, Published, AttemptCount
  <2> QED
    BY <2>2, <2>4, OwnerStepIsPromised
<1>2. ASSUME NEW k \in Keys, NEW lease, Claim(k, lease)
      PROVE  [Promise!Next]_(Promise!vars)
  <2> DEFINE t == tasks[k]
             u == ClaimTask(t, clock, lease)
  <2>1. /\ t.status = "queued" /\ AttemptCount(t) < MaxAttempts
        /\ tasks' = [tasks EXCEPT ![k] = u]
    BY <1>2 DEF Claim, CanClaim
  <2>2. u.status = "running"
    BY <1>0 DEF ClaimTask, Task
  <2>3. AttemptCount(u) = AttemptCount(t) + 1
    BY <1>0 DEF ClaimTask, Task, AttemptCount
  <2>4. OwnerStep(t, u)
    BY <2>1, <2>2, <2>3 DEF OwnerStep, PhaseOf, Published
  <2> QED
    BY <2>1, <2>4, OwnerStepIsPromised
<1>3. ASSUME NEW k \in Keys, NEW n \in DOMAIN tasks[k].attempts,
             HolderStep(k, n)
      PROVE  [Promise!Next]_(Promise!vars)
  <2> DEFINE t == tasks[k]
  <2>1. ASSUME NEW seq, NEW expiry, RenewLease(k, n, seq, expiry)
        PROVE  [Promise!Next]_(Promise!vars)
    <3> DEFINE u == RenewTask(t, n, seq, expiry)
    <3>1. tasks' = [tasks EXCEPT ![k] = u]
      BY <2>1 DEF RenewLease
    <3>2. u.status = t.status /\ u.result = t.result
      BY <1>0 DEF RenewTask, Task
    <3>3. AttemptCount(u) = AttemptCount(t)
      BY <1>0 DEF RenewTask, Task, AttemptCount
    <3>4. OwnerStep(t, u)
      BY <3>2, <3>3 DEF OwnerStep, Published
    <3> QED
      BY <3>1, <3>4, OwnerStepIsPromised
  <2>2. ASSUME ConfirmCancellation(k, n)
        PROVE  [Promise!Next]_(Promise!vars)
    <3> DEFINE u == ConfirmCancelTask(t, n)
    <3>1. t.status = "cancel_requested" /\ tasks' = [tasks EXCEPT ![k] = u]
      BY <2>2 DEF ConfirmCancellation, CanConfirmCancel
    <3>2. u.status = "cancelled" /\ AttemptCount(u) = AttemptCount(t)
      BY <1>0 DEF ConfirmCancelTask, Task, AttemptCount
    <3>3. OwnerStep(t, u)
      BY <3>1, <3>2 DEF OwnerStep, PhaseOf, Published
    <3> QED
      BY <3>1, <3>3, OwnerStepIsPromised
  <2>3. ASSUME NEW result \in Fingerprints, Complete(k, n, result)
        PROVE  [Promise!Next]_(Promise!vars)
    <3> DEFINE u == CompleteTask(t, n, result)
    <3>1. t.status = "running" /\ tasks' = [tasks EXCEPT ![k] = u]
      BY <2>3 DEF Complete, CanComplete
    <3>2. /\ u.status = "succeeded" /\ u.result = result
          /\ AttemptCount(u) = AttemptCount(t)
      BY <1>0 DEF CompleteTask, Task, AttemptCount
    <3>3. OwnerStep(t, u)
      BY <3>1, <3>2 DEF OwnerStep, PhaseOf, Published
    <3> QED
      BY <3>1, <3>3, OwnerStepIsPromised
  <2>4. ASSUME NEW category, NEW result, NEW raised,
               Fail(k, n, category, result, raised)
        PROVE  [Promise!Next]_(Promise!vars)
    <3> DEFINE u == FailTask(t, n, category, result, raised + RetryDelay)
    <3>1. t.status = "running" /\ tasks' = [tasks EXCEPT ![k] = u]
      BY <2>4 DEF Fail, CanFail
    <3>2. AttemptCount(u) = AttemptCount(t)
      BY <1>0 DEF FailTask, Task, AttemptCount
    <3>3. u.status = IF IsRetryable(t, category) THEN "retry_wait" ELSE "failed"
      BY <1>0 DEF FailTask, Task
    <3>4. OwnerStep(t, u)
      BY <3>1, <3>2, <3>3 DEF OwnerStep, PhaseOf, Published, IsRetryable
    <3> QED
      BY <3>1, <3>4, OwnerStepIsPromised
  <2> QED
    BY <1>3, <2>1, <2>2, <2>3, <2>4 DEF HolderStep
<1>4. ASSUME NEW k \in Keys, NEW command, Cancel(k, command)
      PROVE  [Promise!Next]_(Promise!vars)
  <2> DEFINE t == tasks[k]
             u == RequestCancelTask(t, command)
  <2>1. /\ t.status \in {"queued", "retry_wait", "running"}
        /\ tasks' = [tasks EXCEPT ![k] = u]
    BY <1>4 DEF Cancel, CanRequestCancel
  <2>2. /\ u.status = IF t.status = "running" THEN "cancel_requested" ELSE "cancelled"
        /\ AttemptCount(u) = AttemptCount(t)
    BY <1>0 DEF RequestCancelTask, Task, AttemptCount
  <2>3. OwnerStep(t, u)
    BY <2>1, <2>2 DEF OwnerStep, PhaseOf, Published
  <2> QED
    BY <2>1, <2>3, OwnerStepIsPromised
<1>5. ASSUME NEW k \in Keys, NEW command, Retry(k, command)
      PROVE  [Promise!Next]_(Promise!vars)
  <2> DEFINE t == tasks[k]
             u == ManualRetryTask(t, command, clock)
  <2>1. /\ t.status = "failed" /\ AllowManualRetry
        /\ AttemptCount(t) < MaxAttempts
        /\ tasks' = [tasks EXCEPT ![k] = u]
    BY <1>5 DEF Retry, CanManualRetry
  <2>2. u.status = "queued" /\ AttemptCount(u) = AttemptCount(t)
    BY <1>0 DEF ManualRetryTask, Task, AttemptCount
  <2>3. OwnerStep(t, u)
    BY <2>1, <2>2 DEF OwnerStep, PhaseOf, Published
  <2> QED
    BY <2>1, <2>3, OwnerStepIsPromised
<1>6. ASSUME NEW c \in due, RequeueDue(c)
      PROVE  [Promise!Next]_(Promise!vars)
  <2> DEFINE k == c.key
             t == tasks[k]
             u == RequeueDueTask(t, c.available, clock)
  <2>1. k \in Keys
    BY DEF TypeOK, DueRetryCandidate
  <2>2. t.status = "retry_wait" /\ tasks' = [tasks EXCEPT ![k] = u]
    BY <1>6 DEF RequeueDue, CanRequeueDue
  <2>3. u.status = "queued" /\ AttemptCount(u) = AttemptCount(t)
    BY <1>0, <2>1 DEF RequeueDueTask, Task, AttemptCount
  <2>4. OwnerStep(t, u)
    BY <2>2, <2>3 DEF OwnerStep, PhaseOf, Published
  <2> QED
    BY <2>1, <2>2, <2>4, OwnerStepIsPromised
<1>7. ASSUME NEW c \in expired, Recover(c)
      PROVE  [Promise!Next]_(Promise!vars)
  <2> DEFINE k == c.key
             t == tasks[k]
             retryAt == IF RecoveryDelay > 0 THEN c.at + RecoveryDelay ELSE 0
             outcome == RecoveryOutcome(t, retryAt, clock)
             u == RecoverTask(t, c.attempt, retryAt, clock)
  <2>1. k \in Keys
    BY DEF TypeOK, ExpiredTaskCandidate
  <2>2. t.status \in Executing /\ tasks' = [tasks EXCEPT ![k] = u]
    BY <1>7 DEF Recover, CanRecover
  <2>3. /\ outcome \in {"cancelled", "failed", "retry_wait", "queued"}
        /\ outcome = "cancelled" <=> t.status = "cancel_requested"
        /\ outcome \in {"retry_wait", "queued"} => ~(AttemptCount(t) >= MaxAttempts)
    BY DEF RecoveryOutcome
  <2> HIDE DEF retryAt, outcome
  <2>4. u.status = outcome /\ AttemptCount(u) = AttemptCount(t)
    BY <1>0, <2>1 DEF RecoverTask, Task, AttemptCount, outcome
  <2>5. AttemptCount(t) \in Nat
    BY <1>0, <2>1 DEF AttemptCount, Task
  <2>6. OwnerStep(t, u)
    BY <2>2, <2>3, <2>4, <2>5, MaxAttemptsAssumption
       DEF OwnerStep, PhaseOf, Published, Executing
  <2> QED
    BY <2>1, <2>2, <2>6, OwnerStepIsPromised
<1>8. CASE UNCHANGED tasks
  BY <1>8 DEF Promise!vars
<1> QED
  BY <1>1, <1>2, <1>3, <1>4, <1>5, <1>6, <1>7, <1>8
     DEF Next, TaskStep, SchedulerStep, ScanExpired, ScanDue, Tick, vars

\* Attempts, leases, receipts and schedulers implement the owner's contract.
THEOREM LifecycleImplementsPromise == Spec => PromiseKept
<1>1. Init => Promise!Init
  BY DEF Init, Promise!Init, AbsentTask, PhaseOf, AttemptCount
<1>2. TypeOK /\ TasksOK /\ [Next]_vars => [Promise!Next]_(Promise!vars)
  BY StepKeepsPromise
<1> QED
  BY <1>1, <1>2, TasksAlwaysOK, PTL DEF Spec, PromiseKept, Promise!Spec
=============================================================================
