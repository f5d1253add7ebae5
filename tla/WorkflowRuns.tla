---------------------------- MODULE WorkflowRuns ----------------------------
(***************************************************************************)
(* WorkflowApplication over PostgresWorkflowRepository, for one run.       *)
(*                                                                         *)
(* A command reads the run row FOR UPDATE, looks for its receipt, calls    *)
(* the domain and commits run, nodes, new events and receipt: one step.    *)
(* execute_node is the exception.  It commits the started node, which      *)
(* releases the row, calls the executor, applies the outcome to the copy   *)
(* of the run it still holds and saves that copy whole.  Between the two   *)
(* commits any other command may change the run, the process may die, and  *)
(* another call may use the same command id, since only the second commit  *)
(* leaves a receipt.                                                       *)
(*                                                                         *)
(* Calls of other subjects end in LookupError and are left out.            *)
(***************************************************************************)
EXTENDS WorkflowDomain

CONSTANT Calls   \* calls of execute_node that may be under way together

VARIABLES
  run,       \* workflow_run, workflow_node_run and workflow_event rows
  receipts,  \* workflow_command_receipt
  call,      \* the execute_node calls: their copy of the run
  asking,    \* nodes whose executor a cancel() call has yet to ask to stop
  executor   \* what the node executor has seen

vars == <<run, receipts, call, asking, executor>>

Receipt == [type : CommandType, id : AllCommandIds]

\* A call between its two commits; id is None when there is no such call.
Call == [id : CommandIds["execute-node"] \cup {None},
         node : Nodes \cup {None}, copy : Run]

NoCall == [id |-> None, node |-> None, copy |-> AbsentRun]

\* Outcomes execute() may have.  "incomplete": completed without the declared
\* output references.  "malformed": a fingerprint, an error code or an
\* execution reference in a form the domain refuses.  An exception is turned
\* into a retryable failure.
Outcome == [status : {"completed"}, result : Results]
           \cup [status : {"failed"}, retryable : BOOLEAN]
           \cup [status : {"accepted", "incomplete", "malformed"}]

Executor == [executions : [Nodes -> Nat],  \* execute() calls for the node
             told       : SUBSET Nodes]    \* it got request_cancel() for

Init ==
  /\ run = AbsentRun
  /\ receipts = {}
  /\ call = [x \in Calls |-> NoCall]
  /\ asking = {}
  /\ executor = [executions |-> [n \in Nodes |-> 0], told |-> {}]

-----------------------------------------------------------------------------
(* Commands in one transaction *)

\* create_or_get: a second creation finds the row and changes nothing.
CreateRun(input) ==
  /\ run.status = "absent"
  /\ run' = NewRun(input)
  /\ UNCHANGED <<receipts, call, asking, executor>>

\* The run exists and the command has left no receipt yet.
New(type, c) ==
  /\ run.status # "absent"
  /\ [type |-> type, id |-> c] \notin receipts

SaveWithReceipt(r, type, c) ==
  /\ run' = r
  /\ receipts' = receipts \cup {[type |-> type, id |-> c]}
  /\ UNCHANGED <<call, executor>>

CompleteNode(n, result, c) ==
  /\ New("complete-node", c)
  /\ CanSucceed(run, n, result)
  /\ SaveWithReceipt(SucceedNode(run, n, result, c), "complete-node", c)
  /\ UNCHANGED asking

ReportFailure(n, retryable, c) ==
  /\ New("fail-node", c)
  /\ CanFail(run, n)
  /\ SaveWithReceipt(FailNode(run, n, retryable, c), "fail-node", c)
  /\ UNCHANGED asking

Skip(n, c) ==
  /\ New("skip-node", c)
  /\ CanSkip(run, n)
  /\ SaveWithReceipt(SkipNode(run, n, c), "skip-node", c)
  /\ UNCHANGED asking

ConfirmCancel(n, c) ==
  /\ New("confirm-cancel", c)
  /\ CanConfirmCancel(run, n)
  /\ SaveWithReceipt(ConfirmNodeCancel(run, n, c), "confirm-cancel", c)
  /\ UNCHANGED asking

\* The executors are asked after the commit, for the nodes that were active.
Cancel(c) ==
  /\ New("cancel", c)
  /\ CanRequestCancel(run)
  /\ SaveWithReceipt(RequestCancel(run, c), "cancel", c)
  /\ asking' = asking \cup {n \in Nodes : run.node[n] \in Active}

\* request_cancel() of the executor; an error of it is passed over.
AskToStop(n, delivered) ==
  /\ n \in asking
  /\ asking' = asking \ {n}
  /\ executor' = [executor EXCEPT !.told = IF delivered THEN @ \cup {n} ELSE @]
  /\ UNCHANGED <<run, receipts, call>>

\* The process dies inside cancel(): its receipt is there, so no replay asks.
CancelDies ==
  /\ asking # {}
  /\ asking' = {}
  /\ UNCHANGED <<run, receipts, call, executor>>

-----------------------------------------------------------------------------
(* execute_node *)

RejectInput(n, c) ==
  /\ New("execute-node", c)
  /\ n \in ReadyNodes(run)
  /\ CanRejectInput(run, n)
  /\ SaveWithReceipt(RejectNodeInput(run, n, c), "execute-node", c)
  /\ UNCHANGED asking

\* First commit, without a receipt; then execute() is called.
Execute(x, n, c) ==
  /\ call[x] = NoCall
  /\ New("execute-node", c)
  /\ CanStart(run, n)
  /\ run' = StartNode(run, n, c)
  /\ call' = [call EXCEPT ![x] = [id |-> c, node |-> n, copy |-> run']]
  /\ executor' = [executor EXCEPT !.executions[n] = @ + 1]
  /\ UNCHANGED <<receipts, asking>>

\* What the outcome makes of the copy, in which the run is open and the node
\* is running, so the domain raises only for a malformed outcome.
Applied(r, n, c, outcome) ==
  CASE outcome.status = "completed"  -> SucceedNode(r, n, outcome.result, c)
    [] outcome.status = "incomplete" -> FailNode(r, n, FALSE, c)
    [] outcome.status = "failed"     -> FailNode(r, n, outcome.retryable, c)
    [] outcome.status = "accepted"   -> AcceptNode(r, n, c)

NewEvents(x, r) == SubSeq(r.events, Len(call[x].copy.events) + 1, Len(r.events))

\* Mutation: no unique constraint on the sequence of an event.
EventsFitAlways(x, r) == TRUE

\* uq_workflow_event_sequence and uq_workflow_event_transition: the new events
\* are numbered from the length of the copy's log.
EventsFit(x, r) ==
  \/ NewEvents(x, r) = <<>>
  \/ /\ Len(run.events) = Len(call[x].copy.events)
     /\ \A i \in DOMAIN run.events :
          \A j \in DOMAIN NewEvents(x, r) : run.events[i].id # NewEvents(x, r)[j].id

\* save(): the row is locked and selected again, and every column is set from
\* the copy.
SaveCopy(x, r) ==
  /\ run' = [r EXCEPT !.events = run.events \o NewEvents(x, r)]
  /\ receipts' = receipts \cup {[type |-> "execute-node", id |-> call[x].id]}

Finish(x, outcome) ==
  LET n == call[x].node
  IN  /\ call[x] # NoCall
      /\ IF outcome.status # "malformed"
            /\ EventsFit(x, Applied(call[x].copy, n, call[x].id, outcome))
         THEN SaveCopy(x, Applied(call[x].copy, n, call[x].id, outcome))
         ELSE UNCHANGED <<run, receipts>>
      /\ call' = [call EXCEPT ![x] = NoCall]
      /\ UNCHANGED <<asking, executor>>

\* The process dies before the second commit.
ExecuteDies(x) ==
  /\ call[x] # NoCall
  /\ call' = [call EXCEPT ![x] = NoCall]
  /\ UNCHANGED <<run, receipts, asking, executor>>

-----------------------------------------------------------------------------

\* A caller that repeats a command id repeats the command, for the same node.
IdsFor(type, n) ==
  {c \in CommandIds[type] :
     \A i \in DOMAIN run.events :
       run.events[i].id[1] = c => run.events[i].node \in {n, None}}

Next ==
  \/ \E input \in Inputs : CreateRun(input)
  \/ \E n \in Nodes :
       \/ \E result \in Results, c \in IdsFor("complete-node", n) :
            CompleteNode(n, result, c)
       \/ \E retryable \in BOOLEAN, c \in IdsFor("fail-node", n) :
            ReportFailure(n, retryable, c)
       \/ \E c \in IdsFor("skip-node", n) : Skip(n, c)
       \/ \E c \in IdsFor("confirm-cancel", n) : ConfirmCancel(n, c)
       \/ \E delivered \in BOOLEAN : AskToStop(n, delivered)
       \/ \E c \in IdsFor("execute-node", n) : RejectInput(n, c)
       \/ \E x \in Calls, c \in IdsFor("execute-node", n) : Execute(x, n, c)
  \/ \E c \in CommandIds["cancel"] : Cancel(c)
  \/ CancelDies
  \/ \E x \in Calls : ExecuteDies(x)
  \/ \E x \in Calls, outcome \in Outcome : Finish(x, outcome)

Spec == Init /\ [][Next]_vars

-----------------------------------------------------------------------------
(* Properties *)

\* Every stored run, copy, receipt and executor record has its form, and
\* attempt_count stays within max_attempts (chk_workflow_node_run_attempt_range).
TypeOK ==
  /\ run \in Run
  /\ receipts \subseteq Receipt
  /\ call \in [Calls -> Call]
  /\ asking \subseteq Nodes
  /\ executor \in Executor
  /\ \A n \in Nodes : run.attempts[n] <= MaxAttempts[n]

\* A cancellation that has been committed is not lost: the run stays
\* cancel_requested until it is cancelled, and so does each of its nodes, in
\* spite of execute_node calls that save the run as it was before.
CancellationKept ==
  [][ /\ run.status = "cancel_requested" =>
           run'.status \in {"cancel_requested", "cancelled"}
      /\ run.status = "cancelled" => run'.status = "cancelled"
      /\ \A n \in Nodes :
           /\ run.node[n] = "cancel_requested" =>
                run'.node[n] \in {"cancel_requested", "cancelled"}
           /\ run.node[n] = "cancelled" => run'.node[n] = "cancelled" ]_vars

\* An executor is asked to stop only for a node that it was given, that is
\* being cancelled and that no late save turns back into a running one.
ToldIsCancelling ==
  \A n \in executor.told \cup asking :
    /\ executor.executions[n] > 0
    /\ run.node[n] \in {"cancel_requested", "cancelled"}

\* What a node succeeded with is never replaced: successors were given it.
ResultIsFinal ==
  [][ \A n \in Nodes : run.node[n] = "succeeded" =>
        /\ run'.node[n] = "succeeded"
        /\ run'.result[n] = run.result[n]
        /\ Outputs(run', n) = Outputs(run, n) ]_vars

\* A node has run only if all its predecessors have succeeded and left the
\* output references its inputs are taken from.
DependenciesHonoured ==
  \A e \in Edges :
    run.attempts[e[2]] > 0 \/ run.node[e[2]] = "failed" =>
      /\ run.node[e[1]] = "succeeded"
      /\ e \in DataEdges => Outputs(run, e[1]) = run.result[e[1]]

\* The status of a finished run is what its nodes came to: succeeded when all
\* of them succeeded or were skipped, failed only with a failed node,
\* cancelled only when none of them is left to be stopped.
StatusTellsNodes ==
  /\ run.status = "succeeded" <=>
       \A n \in Nodes : run.node[n] \in {"succeeded", "skipped"}
  /\ run.status = "failed" => \E n \in Nodes : run.node[n] = "failed"
  /\ run.status = "cancelled" =>
       \A n \in Nodes : run.node[n] \in {"cancelled", "succeeded", "skipped"}

\* What the latest event of a node says of it.
SaysOf(type) ==
  CASE type = "NODE_STARTED"          -> {"running"}
    [] type = "NODE_RETRY_SCHEDULED"  -> {"queued", "running"}
    [] type = "NODE_ACCEPTED"         -> {"accepted"}
    [] type = "NODE_SUCCEEDED"        -> {"succeeded"}
    [] type \in {"NODE_FAILED", "NODE_INPUT_REJECTED"} -> {"failed"}
    [] type = "NODE_SKIPPED"          -> {"skipped"}
    [] type = "NODE_CANCEL_REQUESTED" -> {"cancel_requested"}
    [] type = "NODE_CANCELLED"        -> {"cancelled"}

IsNodeEvent(e, n) == e.node = n /\ e.type \notin {"RUN_ACCEPTED", "RUN_FAILED"}

\* The log tells where every node is, whichever calls saved the run and in
\* whichever order: a node without events is queued, and the status of any
\* other is what its latest event says.  (A second start under the same
\* command id adds no event, so "running" may follow a scheduled retry.)
LogTellsNodes ==
  \A n \in Nodes :
    LET at == {i \in DOMAIN run.events : IsNodeEvent(run.events[i], n)}
    IN  IF at = {} THEN run.node[n] = "queued"
        ELSE \A i \in at : (\A j \in at : j <= i) => run.node[n] \in SaysOf(run.events[i].type)

\* Status, nodes, event log and executors of a run agree although calls save
\* old copies of it: nodes wait for their predecessors, the log tells where each
\* node is, and only nodes that are being cancelled are asked to stop.
RunConsistent ==
  /\ TypeOK
  /\ ToldIsCancelling
  /\ DependenciesHonoured
  /\ StatusTellsNodes
  /\ LogTellsNodes
=============================================================================
