--------------------------- MODULE WorkflowDomain ---------------------------
(***************************************************************************)
(* The WorkflowRun aggregate of app/platform/workflow/domain/models.py:    *)
(* one run of a fixed WorkflowVersion, its node runs and its event log.    *)
(* For every method, the condition under which it does not raise (Can...)  *)
(* and the run it leaves behind.                                           *)
(*                                                                         *)
(* The summary, fingerprint and output references a node succeeds with are *)
(* one value of Results.  Error codes, times and metadata are left out.    *)
(***************************************************************************)
EXTENDS Integers, Sequences, FiniteSets

CONSTANTS
  NodeCount,    \* the nodes of the WorkflowVersion, numbered in node_id order
  Edges,        \* its edges, <<source, target>>
  DataEdges,    \* the edges with output_fields
  MaxAttempts,  \* max_attempts of every node
  Inputs,       \* input fingerprints of a run
  Results,      \* what a node may succeed with
  CommandIds,   \* command type -> command ids its callers use
  None          \* no node, no result, no input, no command

Nodes == 1..NodeCount

CommandType == {"execute-node", "complete-node", "fail-node", "skip-node",
                "cancel", "confirm-cancel"}

AllCommandIds == UNION {CommandIds[type] : type \in CommandType}

\* _assert_acyclic: every set of nodes has one no other member leads to.
Acyclic(edges) ==
  \A S \in SUBSET Nodes \ {{}} :
    \E n \in S : \A p \in S : <<p, n>> \notin edges

\* WorkflowVersion.__post_init__ refuses every other graph.
ValidVersion ==
  /\ NodeCount \in Nat \ {0}
  /\ Edges \subseteq Nodes \X Nodes
  /\ DataEdges \subseteq Edges
  /\ Acyclic(Edges)
  /\ MaxAttempts \in [Nodes -> Nat \ {0}]

\* A caller uses an id for one command only.
ASSUME VersionAssumption ==
  /\ ValidVersion
  /\ None \notin Nodes \cup Results \cup Inputs \cup AllCommandIds
  /\ \A t, u \in CommandType : t # u => CommandIds[t] \cap CommandIds[u] = {}

-----------------------------------------------------------------------------
(* Records *)

RunStatus == {"absent", "queued", "running", "accepted", "succeeded",
              "failed", "cancel_requested", "cancelled"}

NodeStatus == (RunStatus \ {"absent"}) \cup {"skipped"}

Active == {"running", "accepted"}

Closed == {"cancel_requested", "cancelled", "failed", "succeeded"}

EventType == {"RUN_CREATED", "RUN_STARTED", "RUN_ACCEPTED", "RUN_SUCCEEDED", "RUN_FAILED",
              "RUN_CANCEL_REQUESTED", "RUN_CANCELLED", "NODE_STARTED", "NODE_ACCEPTED",
              "NODE_SUCCEEDED", "NODE_INPUT_REJECTED", "NODE_FAILED", "NODE_RETRY_SCHEDULED",
              "NODE_SKIPPED", "NODE_CANCEL_REQUESTED", "NODE_CANCELLED"}

\* What a transition_id adds to the command id.
Deed == {"create", "run-start", "start", "accept", "run-accepted", "succeed", "reject-input",
         "fail", "run-failed", "skip", "run-cancel-requested", "cancel", "complete", "confirm", ""}

\* transition_id: the command id, what was done and, for the nodes of a
\* cancelled run, to which node.
TransitionId == (AllCommandIds \cup {None}) \X Deed \X (Nodes \cup {None})

Event == [id : TransitionId, type : EventType, node : Nodes \cup {None},
          result : Results \cup {None}]

Run == [status   : RunStatus,
        input    : Inputs \cup {None},
        node     : [Nodes -> NodeStatus],
        attempts : [Nodes -> Nat],
        result   : [Nodes -> Results \cup {None}],
        events   : Seq(Event)]

\* No row for the submission key.
AbsentRun ==
  [status |-> "absent", input |-> None,
   node |-> [n \in Nodes |-> "queued"], attempts |-> [n \in Nodes |-> 0],
   result |-> [n \in Nodes |-> None], events |-> <<>>]

\* _append_event, _append_existing: a transition_id the log already holds is
\* passed over in silence.
Logged(r, event) ==
  IF \E i \in DOMAIN r.events : r.events[i].id = event.id THEN r
  ELSE [r EXCEPT !.events = Append(@, event)]

EventOf(c, what, type, n) ==
  [id |-> <<c, what, None>>, type |-> type, node |-> n, result |-> None]

\* create(): every node queued, one event.
NewRun(input) ==
  Logged([AbsentRun EXCEPT !.status = "queued", !.input = input],
         EventOf(None, "create", "RUN_CREATED", None))

-----------------------------------------------------------------------------
(* Readiness *)

\* output_references: those of the latest NODE_SUCCEEDED event of the node.
Outputs(r, n) ==
  LET at == {i \in DOMAIN r.events : /\ r.events[i].type = "NODE_SUCCEEDED"
                                     /\ r.events[i].node = n}
  IN  IF at = {} THEN None
      ELSE r.events[CHOOSE i \in at : \A j \in at : j <= i].result

ReadyNodes(r) ==
  {n \in Nodes :
     /\ r.node[n] = "queued"
     /\ \A p \in Nodes :
          /\ <<p, n>> \in Edges => r.node[p] = "succeeded"
          /\ <<p, n>> \in DataEdges => Outputs(r, p) # None}

-----------------------------------------------------------------------------
(* Methods of WorkflowRun *)

\* _refresh_status looks at the nodes only, not at what the run was before.
Refreshed(r, c) ==
  IF \A n \in Nodes : r.node[n] \in {"succeeded", "skipped"}
    THEN Logged([r EXCEPT !.status = "succeeded"],
                EventOf(c, "", "RUN_SUCCEEDED", None))
  ELSE IF \E n \in Nodes : r.node[n] = "accepted"
    THEN [r EXCEPT !.status = "accepted"]
  ELSE [r EXCEPT !.status = IF @ = "accepted" THEN "running" ELSE @]

CanStart(r, n) ==
  /\ r.status \notin Closed
  /\ n \in ReadyNodes(r)
  /\ r.attempts[n] < MaxAttempts[n]

StartNode(r, n, c) ==
  LET started == [r EXCEPT !.node[n] = "running", !.attempts[n] = @ + 1,
                           !.status = IF @ = "queued" THEN "running" ELSE @]
      begun   == IF r.status = "queued"
                 THEN Logged(started, EventOf(c, "run-start", "RUN_STARTED", None))
                 ELSE started
  IN  Logged(begun, EventOf(c, "start", "NODE_STARTED", n))

AcceptNode(r, n, c) ==
  Logged(Logged([r EXCEPT !.node[n] = "accepted", !.status = "accepted"],
                EventOf(c, "accept", "NODE_ACCEPTED", n)),
         EventOf(c, "run-accepted", "RUN_ACCEPTED", n))

\* A repeated success is taken only with the result already recorded.
CanSucceed(r, n, result) ==
  \/ r.node[n] \in Active
  \/ /\ r.node[n] = "succeeded"
     /\ r.result[n] = result
     /\ Outputs(r, n) = result

SucceedNode(r, n, result, c) ==
  IF r.node[n] = "succeeded" THEN r
  ELSE Refreshed(Logged([r EXCEPT !.node[n] = "succeeded", !.result[n] = result],
                        [EventOf(c, "succeed", "NODE_SUCCEEDED", n)
                           EXCEPT !.result = result]),
                 c)

FailRun(r, n, c) ==
  Logged([r EXCEPT !.status = "failed"], EventOf(c, "run-failed", "RUN_FAILED", n))

CanRejectInput(r, n) == r.status \notin Closed /\ r.node[n] = "queued"

RejectNodeInput(r, n, c) ==
  FailRun(Logged([r EXCEPT !.node[n] = "failed"],
                 EventOf(c, "reject-input", "NODE_INPUT_REJECTED", n)), n, c)

\* Mutation: fail() without _require_active.
CanFailFinished(r, n) == r.node[n] # "queued"

CanFail(r, n) == r.node[n] \in Active

\* Mutation: the event of a failure that will be retried says failed.
FailNodeLogsFailed(r, n, retryable, c) ==
  IF retryable /\ r.attempts[n] < MaxAttempts[n]
  THEN Logged([r EXCEPT !.node[n] = "queued"],
              EventOf(c, "fail", "NODE_FAILED", n))
  ELSE FailRun(Logged([r EXCEPT !.node[n] = "failed"],
                      EventOf(c, "fail", "NODE_FAILED", n)), n, c)

FailNode(r, n, retryable, c) ==
  IF retryable /\ r.attempts[n] < MaxAttempts[n]
  THEN Logged([r EXCEPT !.node[n] = "queued"],
              EventOf(c, "fail", "NODE_RETRY_SCHEDULED", n))
  ELSE FailRun(Logged([r EXCEPT !.node[n] = "failed"],
                      EventOf(c, "fail", "NODE_FAILED", n)), n, c)

CanSkip(r, n) == r.node[n] \in {"queued", "skipped"}

SkipNode(r, n, c) ==
  Refreshed(Logged([r EXCEPT !.node[n] = "skipped"],
                   EventOf(c, "skip", "NODE_SKIPPED", n)), c)

Cancelled(r, event) ==
  IF \A n \in Nodes : r.node[n] \in {"cancelled", "succeeded", "skipped"}
  THEN Logged([r EXCEPT !.status = "cancelled"], event)
  ELSE r

CanRequestCancel(r) == r.status \notin {"succeeded", "failed", "cancelled"}

\* One event for every queued or active node, in node_id order.  Their ids are
\* new: a cancellation that logged them has also left its receipt.
CancelEvents(r, c) ==
  LET touched == {n \in Nodes : r.node[n] \in Active \cup {"queued"}}
      nth(i) == CHOOSE n \in touched : Cardinality({m \in touched : m <= n}) = i
  IN  [i \in 1..Cardinality(touched) |->
         [id     |-> <<c, "cancel", nth(i)>>,
          type   |-> IF r.node[nth(i)] = "queued" THEN "NODE_CANCELLED"
                     ELSE "NODE_CANCEL_REQUESTED",
          node   |-> nth(i),
          result |-> None]]

RequestCancel(r, c) ==
  IF r.status = "cancel_requested" THEN r
  ELSE LET asked == Logged([r EXCEPT !.status = "cancel_requested"],
                           EventOf(c, "run-cancel-requested", "RUN_CANCEL_REQUESTED", None))
       IN  Cancelled([asked EXCEPT
                        !.node = [n \in Nodes |-> IF r.node[n] = "queued" THEN "cancelled"
                                                  ELSE IF r.node[n] \in Active THEN "cancel_requested"
                                                  ELSE r.node[n]],
                        !.events = @ \o CancelEvents(r, c)],
                     EventOf(c, "complete", "RUN_CANCELLED", None))

CanConfirmCancel(r, n) == r.node[n] \in {"cancel_requested", "cancelled"}

ConfirmNodeCancel(r, n, c) ==
  LET confirmed == Logged([r EXCEPT !.node[n] = "cancelled"],
                          EventOf(c, "confirm", "NODE_CANCELLED", n))
  IN  IF r.status = "cancel_requested"
      THEN Cancelled(confirmed, EventOf(c, "", "RUN_CANCELLED", None))
      ELSE confirmed
=============================================================================
