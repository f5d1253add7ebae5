------------------------- MODULE WorkflowRunsProofs -------------------------
(***************************************************************************)
(* Proofs about WorkflowRuns: calls of execute_node save copies of the run *)
(* that may be old, and still its status, nodes, log and results agree and *)
(* no cancellation or result is lost.                                      *)
(*                                                                         *)
(* The argument is that of the unique keys of the event table.  An outcome *)
(* always adds an event to the copy, so a copy can be saved only when the  *)
(* log has not grown since it was taken; and the log tells where every     *)
(* node is, so such a copy agrees with the run wherever it matters.        *)
(***************************************************************************)
EXTENDS WorkflowRuns, FiniteSetTheorems, SequenceTheorems, WellFoundedInduction, TLAPS

-----------------------------------------------------------------------------
(* The inductive invariant *)

(* The latest event of a node says where it is. *)
Tells(log, n, status) ==
  /\ (\A i \in DOMAIN log : ~IsNodeEvent(log[i], n)) => status = "queued"
  /\ \A i \in DOMAIN log :
       /\ IsNodeEvent(log[i], n)
       /\ \A j \in DOMAIN log : IsNodeEvent(log[j], n) => j <= i
       => status \in SaysOf(log[i].type)

(* What the latest success in a log left. *)
Left(log, n) ==
  LET at == {i \in DOMAIN log : log[i].type = "NODE_SUCCEEDED" /\ log[i].node = n}
  IN  IF at = {} THEN None
      ELSE log[CHOOSE i \in at : \A j \in at : j <= i].result

(* The events of a node tell of it, but for the two that tell of the run. *)
NodeEventType == {"NODE_STARTED", "NODE_ACCEPTED", "NODE_SUCCEEDED", "NODE_INPUT_REJECTED", "NODE_FAILED",
                  "NODE_RETRY_SCHEDULED", "NODE_SKIPPED", "NODE_CANCEL_REQUESTED", "NODE_CANCELLED"}

Proper(e) ==
  /\ e.id[2] = "start" => e.type = "NODE_STARTED" /\ e.node \in Nodes
  /\ e.node \in Nodes => e.type \in NodeEventType \cup {"RUN_ACCEPTED", "RUN_FAILED"}

LogOK(log, node, result) ==
  \A n \in Nodes :
    /\ Tells(log, n, node[n])
    /\ node[n] = "succeeded" => result[n] = Left(log, n)

Finished(node) == \A n \in Nodes : node[n] \in {"succeeded", "skipped"}

NodesOK(r) ==
  /\ \A n \in Nodes : r.attempts[n] <= MaxAttempts[n]
  /\ \A n \in Nodes : r.node[n] \in Active => r.attempts[n] > 0
  /\ \A e \in Edges : r.attempts[e[2]] > 0 \/ r.node[e[2]] = "failed" => r.node[e[1]] = "succeeded"

StatusOK(r) ==
  /\ r.status = "succeeded" <=> Finished(r.node)
  /\ r.status = "failed" => \E n \in Nodes : r.node[n] = "failed"
  /\ r.status = "cancelled" => \A n \in Nodes : r.node[n] \in {"cancelled", "succeeded", "skipped"}
  /\ r.status \in {"cancel_requested", "cancelled"} => \A n \in Nodes : r.node[n] \notin Active \cup {"queued"}

RunOK(r) ==
  /\ r \in Run
  /\ NodesOK(r)
  /\ StatusOK(r)
  /\ LogOK(r.events, r.node, r.result)
  /\ \A i \in DOMAIN r.events : Proper(r.events[i])

(* Only the starts of an execute_node precede the receipt of their command. *)
Received(e, got) ==
  \/ e.id[1] = None /\ e.id[2] = "create"
  \/ e.id[1] \in CommandIds["execute-node"] /\ e.id[2] \in {"start", "run-start"}
  \/ \E type \in CommandType : e.id[1] \in CommandIds[type] /\ [type |-> type, id |-> e.id[1]] \in got

(* The log only grew. *)
Prefix(log, log2) ==
  Len(log) <= Len(log2) /\ \A i \in 1..Len(log) : log2[i] = log[i]

(* The command has logged nothing but starts. *)
Unanswered(log, c) ==
  \A i \in DOMAIN log : log[i].id[1] = c => log[i].id[2] \in {"start", "run-start"}

(* A call under way holds a sound copy of an earlier run. *)
CallOK(k, log, executions) ==
  /\ k.id \in CommandIds["execute-node"] /\ k.node \in Nodes
  /\ RunOK(k.copy) /\ k.copy.node[k.node] = "running" /\ k.copy.status \notin Closed \cup {"absent"}
  /\ Prefix(k.copy.events, log)
  /\ Unanswered(k.copy.events, k.id)
  /\ \A n \in Nodes : k.copy.attempts[n] > 0 => executions[n] > 0

(* The state, as an operator of its parts. *)
Sound(r, got, k, a, x) ==
  /\ RunOK(r)
  /\ \A i \in DOMAIN r.events : Received(r.events[i], got)
  /\ got \subseteq Receipt
  /\ k \in [Calls -> Call] /\ \A y \in Calls : k[y] # NoCall => CallOK(k[y], r.events, x.executions)
  /\ x \in Executor /\ \A n \in Nodes : r.attempts[n] > 0 => x.executions[n] > 0
  /\ a \subseteq Nodes
  /\ \A n \in x.told \cup a : x.executions[n] > 0 /\ r.node[n] \in {"cancel_requested", "cancelled"}
  /\ r.status = "absent" => r = AbsentRun /\ \A y \in Calls : k[y] = NoCall

IInv == Sound(run, receipts, call, asking, executor)

-----------------------------------------------------------------------------
(* Growing logs *)

Success(e, n) == e.type = "NODE_SUCCEEDED" /\ e.node = n

(* The new events of log2 are in S. *)
After(log, log2, S) ==
  /\ log \in Seq(Event) /\ log2 \in Seq(Event) /\ Prefix(log, log2)
  /\ \A i \in DOMAIN log2 : i > Len(log) => log2[i] \in S

\* What an event says of its node.
LEMMA Says ==
  /\ SaysOf("NODE_STARTED") = {"running"}
  /\ SaysOf("NODE_RETRY_SCHEDULED") = {"queued", "running"}
  /\ SaysOf("NODE_ACCEPTED") = {"accepted"}
  /\ SaysOf("NODE_SUCCEEDED") = {"succeeded"}
  /\ SaysOf("NODE_FAILED") = {"failed"} /\ SaysOf("NODE_INPUT_REJECTED") = {"failed"}
  /\ SaysOf("NODE_SKIPPED") = {"skipped"}
  /\ SaysOf("NODE_CANCEL_REQUESTED") = {"cancel_requested"}
  /\ SaysOf("NODE_CANCELLED") = {"cancelled"}
BY DEF SaysOf

LEMMA SuccessIsNodeEvent ==
  ASSUME NEW e, NEW n, Success(e, n)
  PROVE  IsNodeEvent(e, n)
BY DEF Success, IsNodeEvent

\* A set of positions has a last one.
LEMMA LastPosition ==
  ASSUME NEW m \in Nat, NEW T, T \subseteq 1..m, T # {}
  PROVE  \E x \in T : \A y \in T : y <= x
<1> DEFINE U == {k \in Nat : \E x \in T : x = m - k}
           R == OpToRel(<, Nat)
<1>1. U \subseteq Nat /\ U # {}
  <2>1. PICK x \in T : TRUE
    OBVIOUS
  <2>2. m - x \in Nat /\ x = m - (m - x)
    OBVIOUS
  <2>. QED  BY <2>1, <2>2
<1>2. IsWellFoundedOn(R, Nat)
  BY NatLessThanWellFounded
<1>3. PICK k \in U : \A l \in U : ~(<<l, k>> \in R)
  <2> HIDE DEF R, U
  <2>. QED  BY <1>1, <1>2, WFMin
<1>4. \A l \in U : ~(l < k)
  BY <1>3 DEF OpToRel
<1>5. PICK x \in T : x = m - k
  OBVIOUS
<1>6. ASSUME NEW y \in T PROVE y <= x
  <2>1. m - y \in U
    <3>1. m - y \in Nat /\ y = m - (m - y)
      OBVIOUS
    <3>. QED  BY <3>1
  <2>. QED  BY <1>4, <1>5, <2>1
<1>. QED  BY <1>6

LEMMA AfterTrans ==
  ASSUME NEW log, NEW log2, NEW log3, NEW S, NEW T, After(log, log2, S), After(log2, log3, T)
  PROVE  After(log, log3, S \cup T)
<1>1. /\ log \in Seq(Event) /\ log2 \in Seq(Event) /\ log3 \in Seq(Event)
      /\ Len(log) <= Len(log2) /\ Len(log2) <= Len(log3)
      /\ \A i \in 1..Len(log) : log2[i] = log[i]
      /\ \A i \in 1..Len(log2) : log3[i] = log2[i]
      /\ \A i \in DOMAIN log2 : i > Len(log) => log2[i] \in S
      /\ \A i \in DOMAIN log3 : i > Len(log2) => log3[i] \in T
  BY DEF After, Prefix
<1>2. /\ Len(log) \in Nat /\ Len(log2) \in Nat /\ Len(log3) \in Nat
      /\ DOMAIN log2 = 1..Len(log2) /\ DOMAIN log3 = 1..Len(log3)
  BY <1>1
<1>3. ASSUME NEW i \in DOMAIN log3, i > Len(log) PROVE log3[i] \in S \cup T
  <2>1. CASE i > Len(log2)
    BY <1>1, <2>1
  <2>2. CASE ~(i > Len(log2))
    <3>1. i \in 1..Len(log2)
      BY <1>2, <1>3, <2>2
    <3>. QED  BY <1>1, <1>2, <1>3, <3>1
  <2>. QED  BY <2>1, <2>2
<1>4. \A i \in 1..Len(log) : log3[i] = log[i]
  BY <1>1, <1>2
<1>. QED  BY <1>1, <1>2, <1>3, <1>4 DEF After, Prefix

LEMMA AfterNothing ==
  ASSUME NEW log \in Seq(Event), NEW S
  PROVE  After(log, log, S)
BY DEF After, Prefix

LEMMA AfterWider ==
  ASSUME NEW log, NEW log2, NEW S, NEW T, After(log, log2, S), S \subseteq T
  PROVE  After(log, log2, T)
BY DEF After

\* No new event is about the node.
LEMMA TellsStill ==
  ASSUME NEW log, NEW log2, NEW S, After(log, log2, S), NEW n, NEW s,
         \A e \in S : ~IsNodeEvent(e, n), Tells(log, n, s)
  PROVE  Tells(log2, n, s)
<1>1. /\ DOMAIN log = 1..Len(log) /\ DOMAIN log2 = 1..Len(log2) /\ Len(log) \in Nat /\ Len(log2) \in Nat
      /\ Len(log) <= Len(log2) /\ \A i \in 1..Len(log) : log2[i] = log[i]
  BY DEF After, Prefix
<1>2. \A i \in DOMAIN log2 : IsNodeEvent(log2[i], n) => i \in DOMAIN log /\ log2[i] = log[i]
  BY <1>1 DEF After
<1>3. \A i \in DOMAIN log : i \in DOMAIN log2 /\ log2[i] = log[i]
  BY <1>1
<1>. QED  BY <1>2, <1>3 DEF Tells

\* A new event is about the node, and all of them say s.
LEMMA TellsAnew ==
  ASSUME NEW log, NEW log2, NEW S, After(log, log2, S), NEW n, NEW s,
         \A e \in S : IsNodeEvent(e, n) => s \in SaysOf(e.type),
         NEW k \in DOMAIN log2, k > Len(log), IsNodeEvent(log2[k], n)
  PROVE  Tells(log2, n, s)
<1>1. Len(log) \in Nat /\ DOMAIN log2 = 1..Len(log2) /\ Len(log2) \in Nat
  BY DEF After
<1>2. ASSUME NEW i \in DOMAIN log2, IsNodeEvent(log2[i], n),
             \A j \in DOMAIN log2 : IsNodeEvent(log2[j], n) => j <= i
      PROVE  s \in SaysOf(log2[i].type)
  <2>1. i > Len(log)
    BY <1>1, <1>2
  <2>. QED  BY <1>2, <2>1 DEF After
<1>. QED  BY <1>2 DEF Tells

\* The latest success is a new one.
LEMMA LeftAnew ==
  ASSUME NEW log, NEW log2, NEW S, After(log, log2, S), NEW n, NEW v,
         \A e \in S : Success(e, n) => e.result = v,
         NEW k \in DOMAIN log2, k > Len(log), Success(log2[k], n)
  PROVE  Left(log2, n) = v
<1> DEFINE at == {i \in DOMAIN log2 : log2[i].type = "NODE_SUCCEEDED" /\ log2[i].node = n}
           last == CHOOSE i \in at : \A j \in at : j <= i
<1>1. Len(log) \in Nat /\ DOMAIN log2 = 1..Len(log2) /\ Len(log2) \in Nat
  BY DEF After
<1>2. k \in at
  BY DEF Success
<1>3. \E i \in at : \A j \in at : j <= i
  BY <1>1, <1>2, LastPosition
<1>4. last \in at /\ k <= last
  <2> HIDE DEF at
  <2>. QED  BY <1>2, <1>3
<1>5. last \in DOMAIN log2 /\ last > Len(log) /\ Success(log2[last], n)
  <2> HIDE DEF last
  <2>. QED  BY <1>1, <1>4 DEF Success
<1>6. log2[last] \in S
  <2> HIDE DEF last
  <2>. QED  BY <1>5 DEF After
<1>7. Left(log2, n) = log2[last].result
  <2>1. at # {}
    BY <1>2
  <2>. QED  BY <2>1 DEF Left
<1> HIDE DEF last
<1>. QED  BY <1>5, <1>6, <1>7

\* No success is new.
LEMMA LeftStill ==
  ASSUME NEW log, NEW log2, NEW S, After(log, log2, S), NEW n, \A e \in S : ~Success(e, n)
  PROVE  Left(log2, n) = Left(log, n)
<1> DEFINE at == {i \in DOMAIN log : log[i].type = "NODE_SUCCEEDED" /\ log[i].node = n}
           at2 == {i \in DOMAIN log2 : log2[i].type = "NODE_SUCCEEDED" /\ log2[i].node = n}
           last == CHOOSE i \in at : \A j \in at : j <= i
<1>1. /\ DOMAIN log = 1..Len(log) /\ DOMAIN log2 = 1..Len(log2) /\ Len(log) \in Nat /\ Len(log2) \in Nat
      /\ Len(log) <= Len(log2) /\ \A i \in 1..Len(log) : log2[i] = log[i]
  BY DEF After, Prefix
<1>2. at2 = at
  <2>1. ASSUME NEW i \in at2 PROVE i \in at
    BY <1>1 DEF After, Success
  <2>2. ASSUME NEW i \in at PROVE i \in at2
    BY <1>1
  <2>. QED  BY <2>1, <2>2
<1>3. CASE at = {}
  <2>1. Left(log, n) = None /\ Left(log2, n) = None
    BY <1>2, <1>3 DEF Left
  <2>. QED  BY <2>1
<1>4. CASE at # {}
  <2>1. \E i \in at : \A j \in at : j <= i
    BY <1>1, <1>4, LastPosition
  <2>2. last \in at
    <3> HIDE DEF at
    <3>. QED  BY <2>1
  <2>3. log2[last] = log[last]
    <3> HIDE DEF last
    <3>. QED  BY <2>2, <1>1
  <2>4. Left(log, n) = log[last].result
    BY <1>4 DEF Left
  <2>5. Left(log2, n) = log2[CHOOSE i \in at2 : \A j \in at2 : j <= i].result
    BY <1>2, <1>4 DEF Left
  <2>6. (CHOOSE i \in at2 : \A j \in at2 : j <= i) = last
    BY <1>2
  <2>. QED  BY <2>3, <2>4, <2>5, <2>6
<1>. QED  BY <1>3, <1>4

\* Appending an event that the log does not hold, or passing one over.
LogWith(log, e) == IF \E i \in DOMAIN log : log[i].id = e.id THEN log ELSE Append(log, e)

LEMMA LogWithAfter ==
  ASSUME NEW log \in Seq(Event), NEW e \in Event
  PROVE  /\ After(log, LogWith(log, e), {e})
         /\ (\A i \in DOMAIN log : log[i].id # e.id) =>
              /\ Len(LogWith(log, e)) = Len(log) + 1
              /\ LogWith(log, e)[Len(log) + 1] = e
<1>1. CASE \E i \in DOMAIN log : log[i].id = e.id
  <2>1. LogWith(log, e) = log
    BY <1>1 DEF LogWith
  <2>. QED  BY <1>1, <2>1, AfterNothing
<1>2. CASE ~(\E i \in DOMAIN log : log[i].id = e.id)
  <2>1. LogWith(log, e) = Append(log, e)
    BY <1>2 DEF LogWith
  <2>2. PICK l : l = Append(log, e)
    OBVIOUS
  <2>3. l \in Seq(Event) /\ Len(l) = Len(log) + 1 /\ l[Len(log) + 1] = e /\ Len(log) \in Nat
        /\ \A i \in 1..Len(log) : l[i] = log[i]
    BY <2>2
  <2>4. \A i \in DOMAIN l : i > Len(log) => i = Len(log) + 1
    BY <2>3
  <2>5. After(log, l, {e})
    BY <2>3, <2>4 DEF After, Prefix
  <2>. QED  BY <2>1, <2>2, <2>3, <2>5
<1>. QED  BY <1>1, <1>2

Wrote(r, e, q) ==
  /\ q \in Run /\ q.status = r.status /\ q.input = r.input /\ q.node = r.node
  /\ q.attempts = r.attempts /\ q.result = r.result
  /\ After(r.events, q.events, {e})
  /\ (\A i \in DOMAIN r.events : r.events[i].id # e.id) =>
       Len(q.events) = Len(r.events) + 1 /\ q.events[Len(r.events) + 1] = e

LEMMA LoggedIs ==
  ASSUME NEW r, r \in Run, NEW e, e \in Event
  PROVE  Wrote(r, e, Logged(r, e))
<1> DEFINE q == Logged(r, e)
<1>1. r.events \in Seq(Event)
  BY DEF Run
<1>2. PICK l : l = LogWith(r.events, e) /\ l \in Seq(Event)
  BY <1>1, LogWithAfter DEF After
<1>3. Logged(r, e) = [r EXCEPT !.events = l]
  <2>1. CASE \E i \in DOMAIN r.events : r.events[i].id = e.id
    <3>1. Logged(r, e) = r /\ l = r.events
      BY <1>2, <2>1 DEF Logged, LogWith
    <3>. QED  BY <3>1 DEF Run
  <2>2. CASE ~(\E i \in DOMAIN r.events : r.events[i].id = e.id)
    BY <1>2, <2>2 DEF Logged, LogWith
  <2>. QED  BY <2>1, <2>2
<1>4. [r EXCEPT !.events = l] \in Run
  BY <1>2 DEF Run
<1>5. /\ q \in Run /\ q.status = r.status /\ q.input = r.input /\ q.node = r.node
      /\ q.attempts = r.attempts /\ q.result = r.result /\ q.events = LogWith(r.events, e)
  BY <1>2, <1>3, <1>4 DEF Run
<1> HIDE DEF q
<1>. QED  BY <1>1, <1>5, LogWithAfter DEF Wrote, q

\* The log of a run still tells what is the case after events of no node.
LEMMA LogOKStill ==
  ASSUME NEW log, NEW log2, NEW S, After(log, log2, S), NEW node, NEW result,
         \A e \in S, n \in Nodes : ~IsNodeEvent(e, n), LogOK(log, node, result)
  PROVE  LogOK(log2, node, result)
<1> SUFFICES ASSUME NEW n \in Nodes
             PROVE  Tells(log2, n, node[n]) /\ (node[n] = "succeeded" => result[n] = Left(log2, n))
  BY DEF LogOK
<1>1. Tells(log2, n, node[n])
  BY TellsStill DEF LogOK
<1>2. Left(log2, n) = Left(log, n)
  BY LeftStill, SuccessIsNodeEvent
<1>. QED  BY <1>1, <1>2 DEF LogOK

\* One node moves, and the log says so.
LEMMA LogOKMoved ==
  ASSUME NEW log, NEW log2, NEW S, After(log, log2, S), NEW node, NEW result, LogOK(log, node, result),
         NEW n \in Nodes, NEW node2, NEW result2,
         \A m \in Nodes \ {n} : node2[m] = node[m] /\ result2[m] = result[m],
         \A e \in S, m \in Nodes \ {n} : ~IsNodeEvent(e, m),
         \A e \in S : IsNodeEvent(e, n) => node2[n] \in SaysOf(e.type),
         node2[n] = "succeeded" => \A e \in S : IsNodeEvent(e, n) => Success(e, n) /\ e.result = result2[n],
         NEW k \in DOMAIN log2, k > Len(log), IsNodeEvent(log2[k], n)
  PROVE  LogOK(log2, node2, result2)
<1> SUFFICES ASSUME NEW m \in Nodes
             PROVE  Tells(log2, m, node2[m]) /\ (node2[m] = "succeeded" => result2[m] = Left(log2, m))
  BY DEF LogOK
<1>1. CASE m # n
  <2>1. Tells(log2, m, node2[m])
    BY <1>1, TellsStill DEF LogOK
  <2>2. Left(log2, m) = Left(log, m)
    BY <1>1, LeftStill, SuccessIsNodeEvent
  <2>. QED  BY <1>1, <2>1, <2>2 DEF LogOK
<1>2. CASE m = n
  <2>1. Tells(log2, m, node2[m])
    BY <1>2, TellsAnew
  <2>2. ASSUME node2[n] = "succeeded" PROVE Left(log2, n) = result2[n]
    <3>1. log2[k] \in S
      BY DEF After
    <3>2. Success(log2[k], n)
      BY <2>2, <3>1
    <3>3. PICK v : v = result2[n]
      OBVIOUS
    <3>4. \A e \in S : Success(e, n) => e.result = v
      BY <2>2, <3>3, SuccessIsNodeEvent
    <3>5. Left(log2, n) = v
      BY <3>2, <3>4, LeftAnew
    <3>. QED  BY <3>3, <3>5
  <2>. QED  BY <1>2, <2>1, <2>2
<1>. QED  BY <1>1, <1>2

-----------------------------------------------------------------------------
(* The methods of the aggregate *)

EventsBy(c) ==
  {e \in Event : /\ e.id[1] = c /\ Proper(e)
                 /\ e.id[2] \in {"start", "run-start"} => c \in CommandIds["execute-node"]}

(* Cancellations and results survive, and a run that exists goes on existing. *)
Kept(r, s) ==
  /\ r.status # "absent" => s.status # "absent"
  /\ r.status = "cancel_requested" => s.status \in {"cancel_requested", "cancelled"}
  /\ r.status = "cancelled" => s.status = "cancelled"
  /\ \A n \in Nodes :
       /\ r.node[n] = "cancel_requested" => s.node[n] \in {"cancel_requested", "cancelled"}
       /\ r.node[n] = "cancelled" => s.node[n] = "cancelled"
       /\ r.node[n] = "succeeded" => s.node[n] = "succeeded" /\ s.result[n] = r.result[n]

Advances(r, s, c) ==
  RunOK(s) /\ After(r.events, s.events, EventsBy(c)) /\ Kept(r, s)

LEMMA AfterProper ==
  ASSUME NEW log, NEW log2, NEW c, After(log, log2, EventsBy(c)), \A i \in DOMAIN log : Proper(log[i])
  PROVE  \A i \in DOMAIN log2 : Proper(log2[i])
<1> SUFFICES ASSUME NEW i \in DOMAIN log2 PROVE Proper(log2[i])
  OBVIOUS
<1>1. CASE i > Len(log)
  BY <1>1 DEF After, EventsBy
<1>2. CASE ~(i > Len(log))
  <2>1. i \in 1..Len(log) /\ i \in DOMAIN log
    BY <1>2 DEF After
  <2>2. log2[i] = log[i]
    BY <2>1 DEF After, Prefix
  <2>. QED  BY <2>1, <2>2
<1>. QED  BY <1>1, <1>2

LEMMA NotLogged ==
  ASSUME NEW log, NEW c, Unanswered(log, c), NEW e, e.id[1] = c, e.id[2] \notin {"start", "run-start"}
  PROVE  \A i \in DOMAIN log : log[i].id # e.id
BY DEF Unanswered

LEMMA NoneIsNoNode == None \notin Nodes
BY VersionAssumption

\* _refresh_status.
SucceededEvent(c) == EventOf(c, "", "RUN_SUCCEEDED", None)

Settled(r, c, q) ==
  /\ q \in Run /\ q.node = r.node /\ q.attempts = r.attempts /\ q.result = r.result
  /\ After(r.events, q.events, {SucceededEvent(c)})
  /\ Finished(r.node) => q.status = "succeeded"
  /\ ~Finished(r.node) =>
       q.status = IF \E n \in Nodes : r.node[n] = "accepted" THEN "accepted"
                  ELSE IF r.status = "accepted" THEN "running" ELSE r.status

LEMMA SucceededEventIs ==
  ASSUME NEW c \in AllCommandIds
  PROVE  /\ SucceededEvent(c) \in EventsBy(c) /\ SucceededEvent(c) \in Event
         /\ \A n \in Nodes : ~IsNodeEvent(SucceededEvent(c), n)
BY NoneIsNoNode DEF SucceededEvent, EventOf, Event, TransitionId, EventType, Deed, EventsBy,
                    Proper, NodeEventType, IsNodeEvent

LEMMA RefreshedIs ==
  ASSUME NEW r, r \in Run, NEW c \in AllCommandIds
  PROVE  Settled(r, c, Refreshed(r, c))
<1> DEFINE e == SucceededEvent(c)
           q == Refreshed(r, c)
<1>1. e \in Event
  BY SucceededEventIs
<1>2. r.events \in Seq(Event) /\ r.status \in RunStatus
  BY DEF Run
<1>3. CASE Finished(r.node)
  <2>1. PICK b : b = [r EXCEPT !.status = "succeeded"]
    OBVIOUS
  <2>2. /\ b \in Run /\ b.status = "succeeded" /\ b.node = r.node /\ b.attempts = r.attempts
        /\ b.result = r.result /\ b.events = r.events
    BY <2>1 DEF Run, RunStatus
  <2>3. q = Logged(b, e)
    BY <1>3, <2>1 DEF Refreshed, Finished, SucceededEvent
  <2> HIDE DEF e, q
  <2>4. /\ q \in Run /\ q.status = b.status /\ q.node = b.node /\ q.attempts = b.attempts
        /\ q.result = b.result /\ After(b.events, q.events, {e})
    <3>1. Wrote(b, e, q)
      BY <1>1, <2>2, <2>3, LoggedIs
    <3>. QED  BY <3>1 DEF Wrote
  <2>. QED  BY <1>3, <2>2, <2>4 DEF Settled, e, q
<1>4. CASE ~Finished(r.node)
  <2>1. PICK st : st = IF \E n \in Nodes : r.node[n] = "accepted" THEN "accepted"
                       ELSE IF r.status = "accepted" THEN "running" ELSE r.status
    OBVIOUS
  <2>2. st \in RunStatus
    BY <1>2, <2>1 DEF RunStatus
  <2>3. q = [r EXCEPT !.status = st]
    BY <1>4, <2>1 DEF Refreshed, Finished
  <2>4. After(r.events, r.events, {e})
    BY <1>2, AfterNothing
  <2> HIDE DEF e, q
  <2>5. /\ q \in Run /\ q.node = r.node /\ q.attempts = r.attempts /\ q.result = r.result
        /\ q.events = r.events /\ q.status = st
    BY <2>2, <2>3 DEF Run
  <2>. QED  BY <1>4, <2>1, <2>4, <2>5 DEF Settled, e, q
<1>. QED  BY <1>3, <1>4

\* What a node can become without a new attempt.
LEMMA NodesOKMoved ==
  ASSUME NEW r, NEW q, RunOK(r), NEW n \in Nodes, NEW st,
         q.node = [r.node EXCEPT ![n] = st], q.attempts = r.attempts,
         r.node[n] # "succeeded", st \in Active => r.attempts[n] > 0,
         st = "failed" => r.attempts[n] > 0 \/ \A e \in Edges : e[2] = n => r.node[e[1]] = "succeeded"
  PROVE  NodesOK(q)
<1>1. r.node \in [Nodes -> NodeStatus] /\ NodesOK(r) /\ \A e \in Edges : e[1] \in Nodes /\ e[2] \in Nodes
  BY VersionAssumption DEF RunOK, Run, ValidVersion
<1>2. \A m \in Nodes : q.node[m] = IF m = n THEN st ELSE r.node[m]
  BY <1>1
<1>. QED  BY <1>1, <1>2 DEF NodesOK, Active

(* The log of q is that of r with events of the command, and still tells where the nodes are. *)
Traced(r, q, c) ==
  /\ LogOK(q.events, q.node, q.result)
  /\ \A i \in DOMAIN q.events : Proper(q.events[i])
  /\ After(r.events, q.events, EventsBy(c))
  /\ Len(q.events) > Len(r.events)

\* The log of a method that moves one node: the node's event, then one of the run.
LEMMA MovedLog ==
  ASSUME NEW r, RunOK(r), NEW q, NEW n \in Nodes, NEW c \in AllCommandIds, NEW S, NEW e \in S,
         S \subseteq EventsBy(c), After(r.events, q.events, S),
         q.node \in [Nodes -> NodeStatus], \A m \in Nodes \ {n} : q.node[m] = r.node[m] /\ q.result[m] = r.result[m],
         \A f \in S \ {e}, m \in Nodes : ~IsNodeEvent(f, m),
         IsNodeEvent(e, n), q.node[n] \in SaysOf(e.type),
         q.node[n] = "succeeded" => e.type = "NODE_SUCCEEDED" /\ e.result = q.result[n],
         NEW k \in DOMAIN q.events, k > Len(r.events), q.events[k] = e
  PROVE  Traced(r, q, c)
<1>1. LogOK(r.events, r.node, r.result) /\ \A i \in DOMAIN r.events : Proper(r.events[i])
  BY DEF RunOK
<1>2. \A m \in Nodes \ {n} : ~IsNodeEvent(e, m)
  BY DEF IsNodeEvent
<1>3. \A f \in S : IsNodeEvent(f, n) => f = e
  OBVIOUS
<1>4. q.node[n] = "succeeded" => Success(e, n)
  BY DEF Success, IsNodeEvent
<1>5. \A f \in S, m \in Nodes \ {n} : ~IsNodeEvent(f, m)
  BY <1>2
<1>6. LogOK(q.events, q.node, q.result)
  BY <1>1, <1>3, <1>4, <1>5, LogOKMoved
<1>7. After(r.events, q.events, EventsBy(c))
  BY AfterWider
<1>8. \A i \in DOMAIN q.events : Proper(q.events[i])
  BY <1>1, <1>7, AfterProper
<1>9. Len(q.events) > Len(r.events)
  BY <1>7 DEF After
<1>. QED  BY <1>6, <1>7, <1>8, <1>9 DEF Traced

\* succeed_node of a node that has not succeeded yet.
LEMMA SucceedAdvances ==
  ASSUME NEW r, RunOK(r), NEW n \in Nodes, NEW v \in Results, NEW c \in AllCommandIds,
         Unanswered(r.events, c), r.node[n] \in Active, NEW q, q = SucceedNode(r, n, v, c)
  PROVE  Advances(r, q, c) /\ Len(q.events) > Len(r.events) /\ q.attempts = r.attempts
<1>1. /\ r \in Run /\ r.events \in Seq(Event) /\ r.node \in [Nodes -> NodeStatus]
      /\ r.result \in [Nodes -> Results \cup {None}] /\ Len(r.events) \in Nat
  BY DEF RunOK, Run
<1>2. PICK e : e = [EventOf(c, "succeed", "NODE_SUCCEEDED", n) EXCEPT !.result = v]
  OBVIOUS
<1>3. /\ e \in Event /\ e.id[1] = c /\ e.id[2] = "succeed" /\ e.type = "NODE_SUCCEEDED"
      /\ e.node = n /\ e.result = v /\ e \in EventsBy(c)
  <2>1. PICK d : d = EventOf(c, "succeed", "NODE_SUCCEEDED", n)
    OBVIOUS
  <2>2. /\ d \in Event /\ d.id[1] = c /\ d.id[2] = "succeed" /\ d.type = "NODE_SUCCEEDED" /\ d.node = n
    BY <2>1 DEF EventOf, Event, TransitionId, EventType, Deed
  <2>3. /\ e \in Event /\ e.id = d.id /\ e.type = "NODE_SUCCEEDED" /\ e.node = n /\ e.result = v
    BY <1>2, <2>1, <2>2 DEF Event
  <2>. QED  BY <2>2, <2>3 DEF EventsBy, Proper, NodeEventType
<1>4. PICK f : f = SucceededEvent(c)
  OBVIOUS
<1>5. f \in EventsBy(c) /\ \A m \in Nodes : ~IsNodeEvent(f, m)
  BY <1>4, SucceededEventIs
<1>6. PICK node2, result2, b : /\ node2 = [r.node EXCEPT ![n] = "succeeded"] /\ result2 = [r.result EXCEPT ![n] = v]
                               /\ b = [r EXCEPT !.node = node2, !.result = result2]
  OBVIOUS
<1>7. /\ node2 \in [Nodes -> NodeStatus] /\ result2 \in [Nodes -> Results \cup {None}]
      /\ \A m \in Nodes : /\ node2[m] = IF m = n THEN "succeeded" ELSE r.node[m]
                          /\ result2[m] = IF m = n THEN v ELSE r.result[m]
  BY <1>1, <1>6 DEF NodeStatus, RunStatus
<1>8. /\ b \in Run /\ b.node = node2 /\ b.result = result2
      /\ b.attempts = r.attempts /\ b.events = r.events /\ b.status = r.status
  BY <1>1, <1>6, <1>7 DEF Run
<1>9. PICK l : l = Logged(b, e)
  OBVIOUS
<1>10. q = Refreshed(l, c)
  BY <1>2, <1>6, <1>9 DEF SucceedNode, Active
<1>11. \A i \in DOMAIN b.events : b.events[i].id # e.id
  BY <1>3, <1>8, NotLogged
<1>12. /\ l \in Run /\ l.node = node2 /\ l.result = result2 /\ l.attempts = r.attempts /\ l.status = r.status
       /\ After(r.events, l.events, {e}) /\ Len(l.events) = Len(r.events) + 1 /\ l.events[Len(r.events) + 1] = e
  <2>1. /\ l \in Run /\ l.node = b.node /\ l.result = b.result /\ l.attempts = b.attempts /\ l.status = b.status
        /\ After(b.events, l.events, {e}) /\ Len(l.events) = Len(b.events) + 1 /\ l.events[Len(b.events) + 1] = e
    <3>1. Wrote(b, e, l)
      BY <1>3, <1>8, <1>9, LoggedIs
    <3>. QED  BY <1>11, <3>1 DEF Wrote
  <2>. QED  BY <1>8, <2>1
<1>13. /\ q \in Run /\ q.node = node2 /\ q.attempts = r.attempts /\ q.result = result2
       /\ After(l.events, q.events, {f})
       /\ Finished(node2) => q.status = "succeeded"
       /\ ~Finished(node2) =>
            q.status = IF \E m \in Nodes : node2[m] = "accepted" THEN "accepted"
                       ELSE IF r.status = "accepted" THEN "running" ELSE r.status
  <2>1. Settled(l, c, q)
    BY <1>10, <1>12, RefreshedIs
  <2>. QED  BY <1>4, <1>12, <2>1 DEF Settled
<1>14. After(r.events, q.events, {e} \cup {f})
  BY <1>12, <1>13, AfterTrans
<1>15. Len(r.events) + 1 \in DOMAIN q.events /\ q.events[Len(r.events) + 1] = e
  BY <1>1, <1>12, <1>13 DEF After, Prefix
<1>16. IsNodeEvent(e, n) /\ q.node[n] \in SaysOf(e.type)
  BY <1>3, <1>7, <1>13, Says DEF IsNodeEvent
<1>17. Traced(r, q, c)
  <2> DEFINE S == {e} \cup {f}
             k == Len(r.events) + 1
  <2>1. e \in S /\ S \subseteq EventsBy(c) /\ \A g \in S \ {e}, m \in Nodes : ~IsNodeEvent(g, m)
    BY <1>3, <1>5
  <2>2. k > Len(r.events)
    BY <1>1
  <2>3. \A m \in Nodes \ {n} : q.node[m] = r.node[m] /\ q.result[m] = r.result[m]
    BY <1>7, <1>13
  <2>4. e.type = "NODE_SUCCEEDED" /\ e.result = q.result[n]
    BY <1>3, <1>7, <1>13
  <2>5. q.node \in [Nodes -> NodeStatus]
    BY <1>7, <1>13
  <2> HIDE DEF S, k
  <2>. QED  BY <1>14, <1>15, <1>16, <2>1, <2>2, <2>3, <2>4, <2>5, MovedLog DEF S, k
<1>18. NodesOK(q)
  BY <1>6, <1>13, NodesOKMoved DEF Active
<1>19. r.status \notin {"cancel_requested", "cancelled", "succeeded"}
  BY DEF RunOK, StatusOK, Active, Finished
<1>20. StatusOK(q)
  BY <1>7, <1>13, <1>19 DEF RunOK, StatusOK, Finished, Active
<1>21. Kept(r, q)
  BY <1>7, <1>13, <1>19 DEF Kept, Active
<1>. QED  BY <1>13, <1>17, <1>18, <1>20, <1>21 DEF Advances, RunOK, Traced

\* A method that moves one node, logs it, and then sees to the status of the run.
NodeLogged(r, n, st, e, l) ==
  /\ l \in Run /\ l.node = [r.node EXCEPT ![n] = st]
  /\ l.status = r.status /\ l.result = r.result /\ l.attempts = r.attempts
  /\ After(r.events, l.events, {e})
  /\ Len(l.events) = Len(r.events) + 1 /\ l.events[Len(r.events) + 1] = e

LEMMA NodeIsLogged ==
  ASSUME NEW r, RunOK(r), NEW n \in Nodes, NEW st \in NodeStatus, NEW c, Unanswered(r.events, c),
         NEW e \in Event, e.id[1] = c, e.id[2] \notin {"start", "run-start"},
         NEW l, l = Logged([r EXCEPT !.node[n] = st], e)
  PROVE  NodeLogged(r, n, st, e, l)
<1>1. PICK node2, b : node2 = [r.node EXCEPT ![n] = st] /\ b = [r EXCEPT !.node = node2]
  OBVIOUS
<1>2. r \in Run /\ node2 \in [Nodes -> NodeStatus]
  BY <1>1 DEF RunOK, Run
<1>3. /\ b \in Run /\ b.node = node2 /\ b.result = r.result
      /\ b.attempts = r.attempts /\ b.events = r.events /\ b.status = r.status
  BY <1>1, <1>2 DEF Run
<1>4. Wrote(b, e, l)
  BY <1>1, <1>3, LoggedIs
<1>5. \A i \in DOMAIN b.events : b.events[i].id # e.id
  BY <1>3, NotLogged
<1>. QED  BY <1>1, <1>3, <1>4, <1>5 DEF NodeLogged, Wrote

LEMMA StatusIsSet ==
  ASSUME NEW r, r \in Run, NEW st \in RunStatus, NEW b, b = [r EXCEPT !.status = st]
  PROVE  /\ b \in Run /\ b.status = st /\ b.node = r.node /\ b.result = r.result
         /\ b.attempts = r.attempts /\ b.events = r.events
BY DEF Run

(* q is l with another status and perhaps a second event, of the run. *)
StatusLogged(l, f, q) ==
  /\ q \in Run /\ q.node = l.node /\ q.result = l.result /\ q.attempts = l.attempts
  /\ After(l.events, q.events, {f})

LEMMA MoveAdvances ==
  ASSUME NEW r, RunOK(r), NEW n \in Nodes, NEW st \in NodeStatus \ {"succeeded"}, NEW c \in AllCommandIds,
         NEW e, NEW l, NodeLogged(r, n, st, e, l), NEW f, NEW q, StatusLogged(l, f, q),
         e \in EventsBy(c), f \in EventsBy(c), \A m \in Nodes : ~IsNodeEvent(f, m),
         IsNodeEvent(e, n), st \in SaysOf(e.type), NodesOK(q), StatusOK(q),
         r.node[n] # "succeeded", r.node[n] \in {"cancel_requested", "cancelled"} => st = "cancelled",
         r.status = "cancel_requested" => q.status \in {"cancel_requested", "cancelled"},
         r.status = "cancelled" => q.status = "cancelled",
         r.status # "absent" => q.status # "absent"
  PROVE  Advances(r, q, c) /\ Len(q.events) > Len(r.events) /\ q.attempts = r.attempts
<1>1. /\ r \in Run /\ r.events \in Seq(Event) /\ r.node \in [Nodes -> NodeStatus] /\ Len(r.events) \in Nat
  BY DEF RunOK, Run
<1>2. /\ q \in Run /\ q.node = [r.node EXCEPT ![n] = st] /\ q.result = r.result /\ q.attempts = r.attempts
  BY DEF NodeLogged, StatusLogged
<1>3. After(r.events, q.events, {e} \cup {f})
  BY AfterTrans DEF NodeLogged, StatusLogged
<1>4. Len(r.events) + 1 \in DOMAIN q.events /\ q.events[Len(r.events) + 1] = e
  BY <1>1 DEF NodeLogged, StatusLogged, After, Prefix
<1>5. \A m \in Nodes : q.node[m] = IF m = n THEN st ELSE r.node[m]
  BY <1>1, <1>2
<1>6. Traced(r, q, c)
  <2> DEFINE S == {e} \cup {f}
             k == Len(r.events) + 1
  <2>1. e \in S /\ S \subseteq EventsBy(c) /\ \A g \in S \ {e}, m \in Nodes : ~IsNodeEvent(g, m)
    OBVIOUS
  <2>2. k > Len(r.events)
    BY <1>1
  <2>3. \A m \in Nodes \ {n} : q.node[m] = r.node[m] /\ q.result[m] = r.result[m]
    BY <1>2, <1>5
  <2>4. q.node \in [Nodes -> NodeStatus] /\ q.node[n] \in SaysOf(e.type) /\ q.node[n] # "succeeded"
    BY <1>2, <1>5 DEF Run
  <2> HIDE DEF S, k
  <2>. QED  BY <1>3, <1>4, <2>1, <2>2, <2>3, <2>4, MovedLog DEF S, k
<1>7. Kept(r, q)
  BY <1>2, <1>5 DEF Kept
<1>. QED  BY <1>2, <1>6, <1>7 DEF Advances, RunOK, Traced

\* fail_node and reject_node_input of the last attempt.
RunFailedEvent(c, n) == EventOf(c, "run-failed", "RUN_FAILED", n)

LEMMA RunFails ==
  ASSUME NEW l, l \in Run, NEW n \in Nodes, NEW c \in AllCommandIds, NEW q, q = FailRun(l, n, c)
  PROVE  /\ StatusLogged(l, RunFailedEvent(c, n), q) /\ q.status = "failed"
         /\ RunFailedEvent(c, n) \in EventsBy(c)
         /\ \A m \in Nodes : ~IsNodeEvent(RunFailedEvent(c, n), m)
<1>1. /\ RunFailedEvent(c, n) \in EventsBy(c) /\ RunFailedEvent(c, n) \in Event
      /\ \A m \in Nodes : ~IsNodeEvent(RunFailedEvent(c, n), m)
  BY DEF RunFailedEvent, EventOf, Event, TransitionId, EventType, Deed, EventsBy, Proper, NodeEventType, IsNodeEvent
<1>2. PICK b : b = [l EXCEPT !.status = "failed"]
  OBVIOUS
<1>3. /\ b \in Run /\ b.status = "failed" /\ b.node = l.node /\ b.result = l.result
      /\ b.attempts = l.attempts /\ b.events = l.events
  BY <1>2 DEF Run, RunStatus
<1>4. q = Logged(b, RunFailedEvent(c, n))
  BY <1>2 DEF FailRun, RunFailedEvent
<1>5. Wrote(b, RunFailedEvent(c, n), q)
  BY <1>1, <1>3, <1>4, LoggedIs
<1>. QED  BY <1>1, <1>3, <1>5 DEF Wrote, StatusLogged

\* An attempt failed for good: the run fails with the node.
LEMMA FailedAdvances ==
  ASSUME NEW r, RunOK(r), NEW n \in Nodes, NEW c \in AllCommandIds,
         NEW e, NEW l, NodeLogged(r, n, "failed", e, l), NEW q, q = FailRun(l, n, c),
         e \in EventsBy(c), IsNodeEvent(e, n), "failed" \in SaysOf(e.type),
         r.node[n] \in Active \cup {"queued"}, r.status \notin {"cancel_requested", "cancelled"},
         r.attempts[n] > 0 \/ \A d \in Edges : d[2] = n => r.node[d[1]] = "succeeded"
  PROVE  Advances(r, q, c) /\ Len(q.events) > Len(r.events) /\ q.attempts = r.attempts
<1>1. PICK f : f = RunFailedEvent(c, n)
  OBVIOUS
<1>2. /\ StatusLogged(l, f, q) /\ q.status = "failed" /\ f \in EventsBy(c)
      /\ \A m \in Nodes : ~IsNodeEvent(f, m)
  <2>1. l \in Run
    BY DEF NodeLogged
  <2>. QED  BY <1>1, <2>1, RunFails
<1>3. q.node = [r.node EXCEPT ![n] = "failed"] /\ q.attempts = r.attempts /\ r.node \in [Nodes -> NodeStatus]
  BY <1>2 DEF NodeLogged, StatusLogged, RunOK, Run
<1>4. PICK st : st = "failed"
  OBVIOUS
<1>5. st \in NodeStatus \ {"succeeded"} /\ st \notin Active
  BY <1>4 DEF NodeStatus, RunStatus, Active
<1>6. NodesOK(q)
  BY <1>3, <1>4, <1>5, NodesOKMoved DEF Active
<1>7. StatusOK(q)
  <2>1. q.node[n] = "failed"
    BY <1>3
  <2>. QED  BY <1>2, <2>1 DEF StatusOK, Finished
<1>8. r.node[n] \notin {"succeeded", "cancelled", "cancel_requested"}
  BY DEF Active
<1>. QED  BY <1>2, <1>4, <1>5, <1>6, <1>7, <1>8, MoveAdvances

\* A log that has its event already is that of the run itself.
LEMMA NothingMore ==
  ASSUME NEW l, l \in Run, NEW f
  PROVE  StatusLogged(l, f, l)
BY AfterNothing DEF StatusLogged, Run

LEMMA FailAdvances ==
  ASSUME NEW r, RunOK(r), NEW n \in Nodes, NEW retryable \in BOOLEAN, NEW c \in AllCommandIds,
         Unanswered(r.events, c), CanFail(r, n), NEW q, q = FailNode(r, n, retryable, c)
  PROVE  Advances(r, q, c) /\ Len(q.events) > Len(r.events) /\ q.attempts = r.attempts
<1>1. r.node[n] \in Active /\ r.attempts[n] > 0 /\ r.node \in [Nodes -> NodeStatus]
  BY DEF CanFail, RunOK, NodesOK, Run
<1>2. r.status \notin {"cancel_requested", "cancelled", "succeeded"}
  BY <1>1 DEF RunOK, StatusOK, Finished, Active
<1>3. CASE retryable /\ r.attempts[n] < MaxAttempts[n]
  <2>1. PICK e, st : e = EventOf(c, "fail", "NODE_RETRY_SCHEDULED", n) /\ st = "queued"
    OBVIOUS
  <2>2. /\ e \in Event /\ e.id[1] = c /\ e.id[2] = "fail" /\ e \in EventsBy(c) /\ IsNodeEvent(e, n)
        /\ e.type = "NODE_RETRY_SCHEDULED"
    BY <2>1 DEF EventOf, Event, TransitionId, EventType, Deed, EventsBy, Proper, NodeEventType, IsNodeEvent
  <2>3. st \in SaysOf(e.type) /\ st \in NodeStatus \ {"succeeded"} /\ st \notin Active /\ st # "failed"
    BY <2>1, <2>2, Says DEF NodeStatus, RunStatus, Active
  <2>4. q = Logged([r EXCEPT !.node[n] = st], e)
    BY <1>3, <2>1 DEF FailNode
  <2>5. NodeLogged(r, n, st, e, q)
    BY <2>2, <2>3, <2>4, NodeIsLogged
  <2>6. q \in Run /\ q.node = [r.node EXCEPT ![n] = st] /\ q.attempts = r.attempts /\ q.status = r.status
    BY <2>5 DEF NodeLogged
  <2>7. PICK f : f = SucceededEvent(c)
    OBVIOUS
  <2>8. StatusLogged(q, f, q) /\ f \in EventsBy(c) /\ \A m \in Nodes : ~IsNodeEvent(f, m)
    BY <2>6, <2>7, NothingMore, SucceededEventIs
  <2>9. NodesOK(q)
    BY <1>1, <2>3, <2>6, NodesOKMoved DEF Active
  <2>10. StatusOK(q)
    <3>1. \A m \in Nodes : q.node[m] = IF m = n THEN "queued" ELSE r.node[m]
      BY <1>1, <2>1, <2>6
    <3>. QED  BY <1>1, <1>2, <2>6, <3>1 DEF RunOK, StatusOK, Finished, Active
  <2>11. r.node[n] \notin {"succeeded", "cancelled", "cancel_requested"}
    BY <1>1 DEF Active
  <2>. QED  BY <1>2, <2>2, <2>3, <2>5, <2>6, <2>8, <2>9, <2>10, <2>11, MoveAdvances
<1>4. CASE ~(retryable /\ r.attempts[n] < MaxAttempts[n])
  <2>1. PICK e, l : e = EventOf(c, "fail", "NODE_FAILED", n) /\ l = Logged([r EXCEPT !.node[n] = "failed"], e)
    OBVIOUS
  <2>2. /\ e \in Event /\ e.id[1] = c /\ e.id[2] = "fail" /\ e \in EventsBy(c) /\ IsNodeEvent(e, n)
        /\ e.type = "NODE_FAILED"
    BY <2>1 DEF EventOf, Event, TransitionId, EventType, Deed, EventsBy, Proper, NodeEventType, IsNodeEvent
  <2>3. "failed" \in SaysOf(e.type) /\ "failed" \in NodeStatus
    BY <2>2, Says DEF NodeStatus, RunStatus
  <2>4. NodeLogged(r, n, "failed", e, l)
    BY <2>1, <2>2, <2>3, NodeIsLogged
  <2>5. q = FailRun(l, n, c)
    BY <1>4, <2>1 DEF FailNode
  <2>6. r.node[n] \in Active \cup {"queued"}
    BY <1>1
  <2>. QED  BY <1>1, <1>2, <2>2, <2>3, <2>4, <2>5, <2>6, FailedAdvances
<1>. QED  BY <1>3, <1>4

LEMMA RejectAdvances ==
  ASSUME NEW r, RunOK(r), NEW n \in Nodes, NEW c \in AllCommandIds,
         Unanswered(r.events, c), CanRejectInput(r, n), n \in ReadyNodes(r),
         NEW q, q = RejectNodeInput(r, n, c)
  PROVE  Advances(r, q, c) /\ Len(q.events) > Len(r.events) /\ q.attempts = r.attempts
<1>1. PICK e, l : e = EventOf(c, "reject-input", "NODE_INPUT_REJECTED", n) /\ l = Logged([r EXCEPT !.node[n] = "failed"], e)
  OBVIOUS
<1>2. /\ e \in Event /\ e.id[1] = c /\ e.id[2] = "reject-input" /\ e \in EventsBy(c) /\ IsNodeEvent(e, n)
      /\ e.type = "NODE_INPUT_REJECTED"
  BY <1>1 DEF EventOf, Event, TransitionId, EventType, Deed, EventsBy, Proper, NodeEventType, IsNodeEvent
<1>3. "failed" \in SaysOf(e.type) /\ "failed" \in NodeStatus
  BY <1>2, Says DEF NodeStatus, RunStatus
<1>4. NodeLogged(r, n, "failed", e, l)
  BY <1>1, <1>2, <1>3, NodeIsLogged
<1>5. q = FailRun(l, n, c)
  BY <1>1 DEF RejectNodeInput
<1>6. \A d \in Edges : d[2] = n => r.node[d[1]] = "succeeded"
  <2>1. \A d \in Edges : d[1] \in Nodes /\ d = <<d[1], d[2]>>
    BY VersionAssumption DEF ValidVersion
  <2>. QED  BY <2>1 DEF ReadyNodes
<1>7. r.node[n] \in Active \cup {"queued"} /\ r.status \notin {"cancel_requested", "cancelled"}
  BY DEF CanRejectInput, Closed
<1>. QED  BY <1>2, <1>3, <1>4, <1>5, <1>6, <1>7, FailedAdvances

LEMMA SkipAdvances ==
  ASSUME NEW r, RunOK(r), NEW n \in Nodes, NEW c \in AllCommandIds,
         Unanswered(r.events, c), CanSkip(r, n), NEW q, q = SkipNode(r, n, c)
  PROVE  Advances(r, q, c) /\ Len(q.events) > Len(r.events) /\ q.attempts = r.attempts
<1>1. r.node[n] \in {"queued", "skipped"} /\ r.node \in [Nodes -> NodeStatus]
  BY DEF CanSkip, RunOK, Run
<1>2. PICK e, st, l : /\ e = EventOf(c, "skip", "NODE_SKIPPED", n) /\ st = "skipped"
                      /\ l = Logged([r EXCEPT !.node[n] = st], e)
  OBVIOUS
<1>3. /\ e \in Event /\ e.id[1] = c /\ e.id[2] = "skip" /\ e \in EventsBy(c) /\ IsNodeEvent(e, n)
      /\ e.type = "NODE_SKIPPED"
  BY <1>2 DEF EventOf, Event, TransitionId, EventType, Deed, EventsBy, Proper, NodeEventType, IsNodeEvent
<1>4. st \in SaysOf(e.type) /\ st \in NodeStatus \ {"succeeded"} /\ st \notin Active /\ st # "failed"
  BY <1>2, <1>3, Says DEF NodeStatus, RunStatus, Active
<1>5. NodeLogged(r, n, st, e, l)
  BY <1>2, <1>3, <1>4, NodeIsLogged
<1>6. l \in Run /\ l.node = [r.node EXCEPT ![n] = st] /\ l.attempts = r.attempts /\ l.status = r.status
  BY <1>5 DEF NodeLogged
<1>7. Settled(l, c, q)
  <2>1. q = Refreshed(l, c)
    BY <1>2 DEF SkipNode
  <2>. QED  BY <1>6, <2>1, RefreshedIs
<1>8. PICK f : f = SucceededEvent(c)
  OBVIOUS
<1>9. StatusLogged(l, f, q) /\ f \in EventsBy(c) /\ \A m \in Nodes : ~IsNodeEvent(f, m)
  BY <1>7, <1>8, SucceededEventIs DEF Settled, StatusLogged
<1>10. NodesOK(q)
  BY <1>1, <1>4, <1>6, <1>7, NodesOKMoved DEF Settled
<1>11. \A m \in Nodes : l.node[m] = IF m = n THEN "skipped" ELSE r.node[m]
  BY <1>1, <1>2, <1>6
<1>12. /\ Finished(l.node) => q.status = "succeeded"
       /\ ~Finished(l.node) =>
            q.status = IF \E m \in Nodes : l.node[m] = "accepted" THEN "accepted"
                       ELSE IF r.status = "accepted" THEN "running" ELSE r.status
       /\ q.node = l.node
  BY <1>6, <1>7 DEF Settled
<1>13. \/ r.status \notin {"cancel_requested", "cancelled"}
       \/ /\ r.node[n] = "skipped" /\ \A m \in Nodes : r.node[m] # "accepted"
          /\ ~Finished(r.node)
  BY <1>1 DEF RunOK, StatusOK, Active
<1>14. r.node[n] = "skipped" => \A m \in Nodes : l.node[m] = r.node[m]
  BY <1>11
<1>15. r.status \in {"cancel_requested", "cancelled"} => q.status = r.status
  BY <1>12, <1>13, <1>14 DEF Finished
<1>16. StatusOK(q)
  <2>1. CASE r.status \in {"cancel_requested", "cancelled"}
    BY <2>1, <1>12, <1>13, <1>14, <1>15 DEF RunOK, StatusOK, Finished
  <2>2. CASE r.status \notin {"cancel_requested", "cancelled"}
    <3>1. CASE Finished(l.node)
      BY <3>1, <1>12 DEF StatusOK
    <3>2. CASE ~Finished(l.node)
      <4>1. q.status # "succeeded"
        <5>1. ~Finished(r.node)
          BY <1>1, <1>11, <3>2 DEF Finished
        <5>. QED  BY <5>1, <1>12, <3>2 DEF RunOK, StatusOK
      <4>2. q.status \notin {"cancel_requested", "cancelled"}
        BY <1>12, <2>2, <3>2
      <4>3. q.status = "failed" => \E m \in Nodes : q.node[m] = "failed"
        BY <1>1, <1>11, <1>12, <3>2 DEF RunOK, StatusOK
      <4>. QED  BY <1>12, <3>2, <4>1, <4>2, <4>3 DEF StatusOK
    <3>. QED  BY <3>1, <3>2
  <2>. QED  BY <2>1, <2>2
<1>17. r.node[n] \notin {"succeeded", "cancelled", "cancel_requested"}
  BY <1>1
<1>18. r.status # "absent" => q.status # "absent"
  BY <1>12
<1>. QED  BY <1>3, <1>4, <1>5, <1>9, <1>10, <1>15, <1>16, <1>17, <1>18, MoveAdvances

LEMMA AcceptAdvances ==
  ASSUME NEW r, RunOK(r), NEW n \in Nodes, NEW c \in AllCommandIds,
         Unanswered(r.events, c), r.node[n] = "running", r.status \notin Closed,
         NEW q, q = AcceptNode(r, n, c)
  PROVE  Advances(r, q, c) /\ Len(q.events) > Len(r.events) /\ q.attempts = r.attempts
<1>1. r \in Run /\ r.node \in [Nodes -> NodeStatus]
  BY DEF RunOK, Run
<1>2. PICK e, f, st : /\ e = EventOf(c, "accept", "NODE_ACCEPTED", n) /\ st = "accepted"
                      /\ f = EventOf(c, "run-accepted", "RUN_ACCEPTED", n)
  OBVIOUS
<1>3. /\ e \in Event /\ e.id[1] = c /\ e.id[2] = "accept" /\ e \in EventsBy(c) /\ IsNodeEvent(e, n)
      /\ e.type = "NODE_ACCEPTED"
  BY <1>2 DEF EventOf, Event, TransitionId, EventType, Deed, EventsBy, Proper, NodeEventType, IsNodeEvent
<1>4. f \in Event /\ f \in EventsBy(c) /\ \A m \in Nodes : ~IsNodeEvent(f, m)
  BY <1>2 DEF EventOf, Event, TransitionId, EventType, Deed, EventsBy, Proper, NodeEventType, IsNodeEvent
<1>5. st \in SaysOf(e.type) /\ st \in NodeStatus \ {"succeeded"} /\ st # "failed"
  BY <1>2, <1>3, Says DEF NodeStatus, RunStatus
<1>6. PICK node2, b : node2 = [r.node EXCEPT ![n] = st] /\ b = [r EXCEPT !.node = node2, !.status = "accepted"]
  OBVIOUS
<1>7. /\ b \in Run /\ b.node = node2 /\ b.status = "accepted" /\ b.result = r.result
      /\ b.attempts = r.attempts /\ b.events = r.events
  <2>1. node2 \in [Nodes -> NodeStatus]
    BY <1>1, <1>5, <1>6
  <2>. QED  BY <1>1, <1>6, <2>1 DEF Run, RunStatus
<1>8. PICK d : d = Logged(b, e)
  OBVIOUS
<1>9. /\ d \in Run /\ d.node = node2 /\ d.status = "accepted" /\ d.result = r.result /\ d.attempts = r.attempts
      /\ After(r.events, d.events, {e})
      /\ Len(d.events) = Len(r.events) + 1 /\ d.events[Len(r.events) + 1] = e
  <2>1. Wrote(b, e, d)
    BY <1>3, <1>7, <1>8, LoggedIs
  <2>2. \A i \in DOMAIN b.events : b.events[i].id # e.id
    BY <1>3, <1>7, NotLogged
  <2>. QED  BY <1>7, <2>1, <2>2 DEF Wrote
<1>10. q = Logged(d, f)
  BY <1>2, <1>6, <1>8 DEF AcceptNode
<1>11. /\ q \in Run /\ q.node = node2 /\ q.status = "accepted" /\ q.result = r.result /\ q.attempts = r.attempts
       /\ After(d.events, q.events, {f})
  <2>1. Wrote(d, f, q)
    BY <1>4, <1>9, <1>10, LoggedIs
  <2>. QED  BY <1>9, <2>1 DEF Wrote
<1>12. PICK l : l = [d EXCEPT !.status = r.status]
  OBVIOUS
<1>13. NodeLogged(r, n, st, e, l) /\ StatusLogged(l, f, q)
  <2>1. r.status \in RunStatus
    BY <1>1 DEF Run
  <2>2. /\ l \in Run /\ l.status = r.status /\ l.node = d.node /\ l.result = d.result
        /\ l.attempts = d.attempts /\ l.events = d.events
    BY <1>9, <1>12, <2>1, StatusIsSet
  <2>. QED  BY <1>6, <1>9, <1>11, <2>2 DEF NodeLogged, StatusLogged
<1>14. r.attempts[n] > 0
  BY DEF RunOK, NodesOK, Active
<1>15. NodesOK(q)
  BY <1>5, <1>6, <1>11, <1>14, NodesOKMoved
<1>16. StatusOK(q)
  <2>1. q.node[n] = "accepted"
    BY <1>1, <1>2, <1>6, <1>11
  <2>. QED  BY <1>11, <2>1 DEF StatusOK, Finished
<1>17. r.status \notin {"cancel_requested", "cancelled"}
  BY DEF Closed
<1>. QED  BY <1>3, <1>4, <1>5, <1>11, <1>13, <1>15, <1>16, <1>17, MoveAdvances

Ended(d, q) ==
  IF \A n \in Nodes : d.node[n] \in {"cancelled", "succeeded", "skipped"}
  THEN q.status = "cancelled" ELSE q.status = d.status

\* The last confirmation, or a request to cancel a run without active nodes,
\* ends the run.
LEMMA CancelledIs ==
  ASSUME NEW d, d \in Run, NEW e \in Event, NEW q, q = Cancelled(d, e)
  PROVE  StatusLogged(d, e, q) /\ Ended(d, q)
<1>1. CASE \A n \in Nodes : d.node[n] \in {"cancelled", "succeeded", "skipped"}
  <2>1. PICK b : b = [d EXCEPT !.status = "cancelled"]
    OBVIOUS
  <2>2. /\ b \in Run /\ b.status = "cancelled" /\ b.node = d.node /\ b.result = d.result
        /\ b.attempts = d.attempts /\ b.events = d.events
    BY <2>1 DEF Run, RunStatus
  <2>3. q = Logged(b, e)
    BY <1>1, <2>1 DEF Cancelled
  <2>4. Wrote(b, e, q)
    BY <2>2, <2>3, LoggedIs
  <2>. QED  BY <1>1, <2>2, <2>4 DEF Wrote, StatusLogged, Ended
<1>2. CASE ~(\A n \in Nodes : d.node[n] \in {"cancelled", "succeeded", "skipped"})
  <2>1. q = d
    BY <1>2 DEF Cancelled
  <2>. QED  BY <1>2, <2>1, NothingMore DEF Ended
<1>. QED  BY <1>1, <1>2

LEMMA ConfirmAdvances ==
  ASSUME NEW r, RunOK(r), NEW n \in Nodes, NEW c \in AllCommandIds,
         Unanswered(r.events, c), CanConfirmCancel(r, n), NEW q, q = ConfirmNodeCancel(r, n, c)
  PROVE  Advances(r, q, c) /\ Len(q.events) > Len(r.events) /\ q.attempts = r.attempts
<1>1. r.node[n] \in {"cancel_requested", "cancelled"} /\ r.node \in [Nodes -> NodeStatus]
  BY DEF CanConfirmCancel, RunOK, Run
<1>2. PICK e, f, st, l : /\ e = EventOf(c, "confirm", "NODE_CANCELLED", n) /\ st = "cancelled"
                         /\ f = EventOf(c, "", "RUN_CANCELLED", None)
                         /\ l = Logged([r EXCEPT !.node[n] = st], e)
  OBVIOUS
<1>3. /\ e \in Event /\ e.id[1] = c /\ e.id[2] = "confirm" /\ e \in EventsBy(c) /\ IsNodeEvent(e, n)
      /\ e.type = "NODE_CANCELLED"
  BY <1>2 DEF EventOf, Event, TransitionId, EventType, Deed, EventsBy, Proper, NodeEventType, IsNodeEvent
<1>4. f \in Event /\ f \in EventsBy(c) /\ \A m \in Nodes : ~IsNodeEvent(f, m)
  BY <1>2, NoneIsNoNode DEF EventOf, Event, TransitionId, EventType, Deed, EventsBy, Proper, NodeEventType, IsNodeEvent
<1>5. st \in SaysOf(e.type) /\ st \in NodeStatus \ {"succeeded"} /\ st \notin Active /\ st # "failed"
  BY <1>2, <1>3, Says DEF NodeStatus, RunStatus, Active
<1>6. NodeLogged(r, n, st, e, l)
  BY <1>2, <1>3, <1>5, NodeIsLogged
<1>7. /\ l \in Run /\ l.node = [r.node EXCEPT ![n] = st] /\ l.attempts = r.attempts /\ l.status = r.status
      /\ \A m \in Nodes : l.node[m] = IF m = n THEN "cancelled" ELSE r.node[m]
  BY <1>1, <1>2, <1>6 DEF NodeLogged
<1>8. q = IF r.status = "cancel_requested" THEN Cancelled(l, f) ELSE l
  BY <1>2 DEF ConfirmNodeCancel
<1>9. /\ StatusLogged(l, f, q)
      /\ IF r.status = "cancel_requested" /\ \A m \in Nodes : l.node[m] \in {"cancelled", "succeeded", "skipped"}
         THEN q.status = "cancelled" ELSE q.status = r.status
  <2>1. CASE r.status = "cancel_requested"
    <3>1. q = Cancelled(l, f) /\ l \in Run /\ f \in Event
      BY <1>4, <1>7, <1>8, <2>1
    <3>2. StatusLogged(l, f, q) /\ Ended(l, q)
      BY <3>1, CancelledIs
    <3>. QED  BY <1>7, <2>1, <3>2 DEF Ended
  <2>2. CASE r.status # "cancel_requested"
    BY <1>7, <1>8, <2>2, NothingMore
  <2>. QED  BY <2>1, <2>2
<1>10. q.node = l.node /\ q.attempts = r.attempts
  BY <1>7, <1>9 DEF StatusLogged
<1>11. NodesOK(q)
  BY <1>1, <1>5, <1>7, <1>10, NodesOKMoved
<1>12. StatusOK(q)
  <2>1. ~Finished(q.node) /\ r.status # "succeeded"
    BY <1>1, <1>7, <1>10 DEF Finished, RunOK, StatusOK
  <2>2. q.status # "succeeded"
    BY <1>9, <2>1
  <2>3. q.status = "failed" => \E m \in Nodes : q.node[m] = "failed"
    BY <1>1, <1>7, <1>9, <1>10 DEF RunOK, StatusOK
  <2>4. q.status = "cancelled" => \A m \in Nodes : q.node[m] \in {"cancelled", "succeeded", "skipped"}
    BY <1>1, <1>7, <1>9, <1>10 DEF RunOK, StatusOK
  <2>5. q.status \in {"cancel_requested", "cancelled"} => \A m \in Nodes : q.node[m] \notin Active \cup {"queued"}
    BY <1>7, <1>9, <1>10 DEF RunOK, StatusOK, Active
  <2>. QED  BY <2>1, <2>2, <2>3, <2>4, <2>5 DEF StatusOK
<1>13. r.status = "cancel_requested" => q.status \in {"cancel_requested", "cancelled"}
  BY <1>9
<1>14. r.status = "cancelled" => q.status = "cancelled"
  BY <1>9
<1>15. r.node[n] # "succeeded" /\ st = "cancelled"
  BY <1>1, <1>2
<1>. QED  BY <1>3, <1>4, <1>5, <1>6, <1>9, <1>11, <1>12, <1>13, <1>14, <1>15, MoveAdvances

-----------------------------------------------------------------------------
(* Cancelling a run *)

Upto(T, n) == {m \in T : m <= n}

Nth(T, i) == CHOOSE n \in T : Cardinality({m \in T : m <= n}) = i

\* The nodes of a set, in order: each number up to their count is the rank of
\* exactly one of them.
LEMMA Ranks ==
  ASSUME NEW T, T \subseteq Nodes
  PROVE  /\ Cardinality(T) \in Nat
         /\ \A i \in 1..Cardinality(T) : Nth(T, i) \in T
         /\ \A n \in T : \E i \in 1..Cardinality(T) : Nth(T, i) = n
<1> DEFINE rank == [n \in T |-> Cardinality(Upto(T, n))]
           N == Cardinality(T)
<1>1. T \subseteq Nat /\ IsFiniteSet(T) /\ N \in Nat
  <2>1. NodeCount \in Nat /\ Nodes = 1..NodeCount
    BY VersionAssumption DEF ValidVersion, Nodes
  <2>2. IsFiniteSet(1..NodeCount)
    <3>1. 1 \in Int /\ NodeCount \in Int
      BY <2>1
    <3>. QED  BY <3>1, FS_Interval
  <2>3. T \subseteq 1..NodeCount
    BY <2>1
  <2>4. IsFiniteSet(T)
    BY <2>2, <2>3, FS_Subset
  <2>5. Cardinality(T) \in Nat
    BY <2>4, FS_CardinalityType
  <2>6. T \subseteq Nat
    BY <2>1, <2>3
  <2>. QED  BY <2>4, <2>5, <2>6
<1>2. ASSUME NEW n \in T
      PROVE  IsFiniteSet(Upto(T, n)) /\ Cardinality(Upto(T, n)) \in 1..N
  <2>0. Upto(T, n) \subseteq T /\ n \in Upto(T, n)
    BY <1>1 DEF Upto
  <2>1. IsFiniteSet(Upto(T, n)) /\ Cardinality(Upto(T, n)) <= N
    BY <1>1, <2>0, FS_Subset
  <2>2. Cardinality(Upto(T, n)) \in Nat
    BY <2>1, FS_CardinalityType
  <2>4. Cardinality(Upto(T, n)) # 0
    BY <2>1, <2>0, FS_EmptySet
  <2>. QED  BY <1>1, <2>1, <2>2, <2>4
<1>3. ASSUME NEW m \in T, NEW n \in T, m < n
      PROVE  Cardinality(Upto(T, m)) # Cardinality(Upto(T, n))
  <2>0. m \in Nat /\ n \in Nat
    BY <1>1
  <2>1. Upto(T, m) \subseteq Upto(T, n) /\ n \in Upto(T, n) /\ n \notin Upto(T, m)
    <3>1. \A k \in T : k \in Nat /\ (k <= m => k <= n)
      BY <1>1, <1>3, <2>0
    <3>2. n <= n /\ ~(n <= m)
      BY <1>3, <2>0
    <3>. QED  BY <3>1, <3>2 DEF Upto
  <2>2. Upto(T, m) # Upto(T, n)
    BY <2>1
  <2>3. IsFiniteSet(Upto(T, n)) /\ IsFiniteSet(Upto(T, m))
    BY <1>2
  <2>. QED  BY <2>3, <2>1, <2>2, FS_Subset
<1>4. \A m, n \in T : rank[m] = rank[n] => m = n
  <2> SUFFICES ASSUME NEW m \in T, NEW n \in T, rank[m] = rank[n] PROVE m = n
    OBVIOUS
  <2>1. Cardinality(Upto(T, m)) = Cardinality(Upto(T, n))
    OBVIOUS
  <2>2. m < n \/ n < m \/ m = n
    BY <1>1
  <2>. QED  BY <1>3, <2>1, <2>2
<1>5. rank \in Injection(T, 1..N)
  <2>1. rank \in [T -> 1..N]
    BY <1>2
  <2> HIDE DEF rank
  <2>. QED  BY <1>4, <2>1 DEF Injection, IsInjective
<1>6. rank \in Surjection(T, 1..N)
  <2>1. IsFiniteSet(1..N) /\ Cardinality(1..N) = N
    BY <1>1, FS_Interval
  <2> HIDE DEF rank
  <2>. QED  BY <1>1, <1>5, <2>1, FS_Injection DEF N
<1>7. \A i \in 1..N : \E n \in T : Cardinality(Upto(T, n)) = i
  <2>1. \A i \in 1..N : \E n \in T : rank[n] = i
    BY <1>6 DEF Surjection
  <2>. QED  BY <2>1
<1>8. \A i : Nth(T, i) = CHOOSE n \in T : Cardinality(Upto(T, n)) = i
  BY DEF Nth, Upto
<1>9. \A i \in 1..N : Nth(T, i) \in T /\ Cardinality(Upto(T, Nth(T, i))) = i
  BY <1>7, <1>8
<1>10. ASSUME NEW n \in T PROVE \E i \in 1..N : Nth(T, i) = n
  <2>1. PICK i : i = Cardinality(Upto(T, n)) /\ i \in 1..N
    BY <1>2
  <2>2. Nth(T, i) \in T /\ Cardinality(Upto(T, Nth(T, i))) = i
    BY <1>9, <2>1
  <2>3. rank[Nth(T, i)] = rank[n]
    BY <2>1, <2>2
  <2>. QED  BY <1>4, <2>1, <2>2, <2>3
<1>. QED  BY <1>1, <1>9, <1>10

Joined(log, log2, l, S) ==
  /\ After(log, l, S)
  /\ \A i \in DOMAIN log2 :
       Len(log) + i \in DOMAIN l /\ Len(log) + i > Len(log) /\ l[Len(log) + i] = log2[i]

LEMMA AfterConcat ==
  ASSUME NEW log \in Seq(Event), NEW S, S \subseteq Event, NEW log2 \in Seq(S), NEW l, l = log \o log2
  PROVE  Joined(log, log2, l, S)
<1>1. log2 \in Seq(Event)
  OBVIOUS
<1>2. l \in Seq(Event) /\ Len(l) = Len(log) + Len(log2) /\ Len(log) \in Nat /\ Len(log2) \in Nat
  BY <1>1
<1>3. \A i \in 1..Len(log) : l[i] = log[i]
  BY <1>1
<1>4. \A i \in 1..Len(l) : i > Len(log) => l[i] = log2[i - Len(log)] /\ i - Len(log) \in 1..Len(log2)
  BY <1>1, <1>2
<1>5. DOMAIN log2 = 1..Len(log2) /\ DOMAIN l = 1..Len(l) /\ \A i \in 1..Len(log2) : log2[i] \in S
  BY <1>2
<1>6. After(log, l, S)
  BY <1>2, <1>3, <1>4, <1>5 DEF After, Prefix
<1>7. ASSUME NEW i \in DOMAIN log2
      PROVE  /\ Len(log) + i \in DOMAIN l /\ Len(log) + i > Len(log)
             /\ l[Len(log) + i] = log2[i]
  <2>1. Len(log) + i \in 1..Len(l) /\ Len(log) + i > Len(log) /\ (Len(log) + i) - Len(log) = i
    BY <1>2, <1>5
  <2>. QED  BY <1>4, <1>5, <2>1
<1>. QED  BY <1>6, <1>7 DEF Joined

Touched(r) == {n \in Nodes : r.node[n] \in Active \cup {"queued"}}

(* What request_cancel logs for a node. *)
Stops(r, c) ==
  {e \in EventsBy(c) : /\ e.node \in Touched(r)
                       /\ e.type = IF r.node[e.node] = "queued" THEN "NODE_CANCELLED"
                                   ELSE "NODE_CANCEL_REQUESTED"}

\* Every queued or active node has its event.
LEMMA CancelEventsAre ==
  ASSUME NEW r, RunOK(r), NEW c \in AllCommandIds
  PROVE  /\ CancelEvents(r, c) \in Seq(Stops(r, c))
         /\ \A n \in Touched(r) : \E i \in DOMAIN CancelEvents(r, c) : CancelEvents(r, c)[i].node = n
<1> DEFINE N == Cardinality(Touched(r))
           stop(n) == [id |-> <<c, "cancel", n>>,
                       type |-> IF r.node[n] = "queued" THEN "NODE_CANCELLED" ELSE "NODE_CANCEL_REQUESTED",
                       node |-> n, result |-> None]
<1>1. CancelEvents(r, c) = [i \in 1..N |-> stop(Nth(Touched(r), i))]
  BY DEF CancelEvents, Touched, Nth
<1>2. /\ N \in Nat
      /\ \A i \in 1..N : Nth(Touched(r), i) \in Touched(r)
      /\ \A n \in Touched(r) : \E i \in 1..N : Nth(Touched(r), i) = n
  <2>1. Touched(r) \subseteq Nodes
    BY DEF Touched
  <2>. QED  BY <2>1, Ranks
<1>3. ASSUME NEW n \in Touched(r) PROVE stop(n) \in Stops(r, c) /\ stop(n).node = n
  <2>1. n \in Nodes
    BY DEF Touched
  <2>2. PICK ty : ty = IF r.node[n] = "queued" THEN "NODE_CANCELLED" ELSE "NODE_CANCEL_REQUESTED"
    OBVIOUS
  <2>3. ty \in EventType
    BY <2>2 DEF EventType
  <2>4. PICK e : e = [id |-> <<c, "cancel", n>>, type |-> ty, node |-> n, result |-> None]
    OBVIOUS
  <2>5. e \in Event /\ e.id[1] = c /\ e.id[2] = "cancel" /\ e.node = n /\ e.type = ty
    BY <2>1, <2>3, <2>4 DEF Event, TransitionId, Deed
  <2>6. e \in EventsBy(c)
    BY <2>2, <2>5 DEF EventsBy, Proper, NodeEventType
  <2>7. stop(n) = e
    BY <2>2, <2>4
  <2> HIDE DEF stop
  <2>. QED  BY <2>2, <2>5, <2>6, <2>7 DEF Stops
<1> HIDE DEF stop, N
<1>4. PICK ce : ce = [i \in 1..N |-> stop(Nth(Touched(r), i))]
  OBVIOUS
<1>5. ce \in [1..N -> Stops(r, c)] /\ DOMAIN ce = 1..N
  BY <1>2, <1>3, <1>4
<1>6. ce \in Seq(Stops(r, c))
  BY <1>2, <1>5
<1>7. \A n \in Touched(r) : \E i \in DOMAIN ce : ce[i].node = n
  BY <1>2, <1>3, <1>4, <1>5
<1>. QED  BY <1>1, <1>4, <1>6, <1>7

LEMMA CancelAdvances ==
  ASSUME NEW r, RunOK(r), NEW c \in AllCommandIds, CanRequestCancel(r), NEW q, q = RequestCancel(r, c)
  PROVE  /\ Advances(r, q, c) /\ q.attempts = r.attempts
         /\ \A n \in Nodes : r.node[n] \in Active => q.node[n] = "cancel_requested"
<1>1. /\ r \in Run /\ r.events \in Seq(Event) /\ r.node \in [Nodes -> NodeStatus]
      /\ LogOK(r.events, r.node, r.result) /\ \A i \in DOMAIN r.events : Proper(r.events[i])
  BY DEF RunOK, Run
<1>2. CASE r.status = "cancel_requested"
  <2>1. q = r
    BY <1>2 DEF RequestCancel
  <2>2. \A n \in Nodes : r.node[n] \notin Active
    BY <1>2 DEF RunOK, StatusOK
  <2>3. Kept(r, r)
    BY DEF Kept
  <2>4. After(r.events, r.events, EventsBy(c))
    BY <1>1, AfterNothing
  <2>. QED  BY <2>1, <2>2, <2>3, <2>4 DEF Advances
<1>3. CASE r.status # "cancel_requested"
  <2>1. PICK e, f, b, a : /\ e = EventOf(c, "run-cancel-requested", "RUN_CANCEL_REQUESTED", None)
                          /\ f = EventOf(c, "complete", "RUN_CANCELLED", None)
                          /\ b = [r EXCEPT !.status = "cancel_requested"]
                          /\ a = Logged(b, e)
    OBVIOUS
  <2>2. /\ e \in Event /\ e \in EventsBy(c) /\ \A m \in Nodes : ~IsNodeEvent(e, m)
        /\ f \in Event /\ f \in EventsBy(c) /\ \A m \in Nodes : ~IsNodeEvent(f, m)
    BY <2>1, NoneIsNoNode DEF EventOf, Event, TransitionId, EventType, Deed, EventsBy, Proper, NodeEventType, IsNodeEvent
  <2>3. /\ b \in Run /\ b.status = "cancel_requested" /\ b.node = r.node /\ b.result = r.result
        /\ b.attempts = r.attempts /\ b.events = r.events
    <3>1. PICK st : st = "cancel_requested"
      OBVIOUS
    <3>2. st \in RunStatus
      BY <3>1 DEF RunStatus
    <3>. QED  BY <1>1, <2>1, <3>1, <3>2, StatusIsSet
  <2>4. /\ a \in Run /\ a.status = "cancel_requested" /\ a.node = r.node /\ a.result = r.result
        /\ a.attempts = r.attempts /\ After(r.events, a.events, {e})
    <3>1. Wrote(b, e, a)
      BY <2>1, <2>2, <2>3, LoggedIs
    <3>. QED  BY <2>3, <3>1 DEF Wrote
  <2>5. PICK S, ce : /\ S = Stops(r, c) /\ ce = CancelEvents(r, c) /\ ce \in Seq(S)
                     /\ \A n \in Touched(r) : \E i \in DOMAIN ce : ce[i].node = n
    BY CancelEventsAre
  <2>6. S \subseteq EventsBy(c) /\ S \subseteq Event
    BY <2>5 DEF Stops, EventsBy
  <2>7. PICK node2 : node2 = [n \in Nodes |-> IF r.node[n] = "queued" THEN "cancelled"
                                             ELSE IF r.node[n] \in Active THEN "cancel_requested"
                                             ELSE r.node[n]]
    OBVIOUS
  <2>8. node2 \in [Nodes -> NodeStatus]
    BY <1>1, <2>7 DEF NodeStatus, RunStatus
  <2>9. PICK l, d : l = a.events \o ce /\ d = [a EXCEPT !.node = node2, !.events = l]
    OBVIOUS
  <2>10. a.events \in Seq(Event)
    BY <2>4 DEF Run
  <2>11. /\ After(a.events, l, S)
         /\ \A i \in DOMAIN ce : /\ Len(a.events) + i \in DOMAIN l /\ Len(a.events) + i > Len(a.events)
                                 /\ l[Len(a.events) + i] = ce[i]
    <3>1. Joined(a.events, ce, l, S)
      BY <2>5, <2>6, <2>9, <2>10, AfterConcat
    <3>. QED  BY <3>1 DEF Joined
  <2>12. /\ d \in Run /\ d.node = node2 /\ d.events = l /\ d.status = "cancel_requested"
         /\ d.result = r.result /\ d.attempts = r.attempts
    <3>1. l \in Seq(Event)
      BY <2>11 DEF After
    <3>. QED  BY <2>4, <2>8, <2>9, <3>1 DEF Run
  <2>13. q = Cancelled(d, f)
    BY <1>3, <2>1, <2>5, <2>7, <2>9 DEF RequestCancel
  <2>14. StatusLogged(d, f, q) /\ Ended(d, q)
    BY <2>2, <2>12, <2>13, CancelledIs
  <2>15. /\ q \in Run /\ q.node = node2 /\ q.result = r.result /\ q.attempts = r.attempts
         /\ After(l, q.events, {f})
         /\ IF \A n \in Nodes : node2[n] \in {"cancelled", "succeeded", "skipped"}
            THEN q.status = "cancelled" ELSE q.status = "cancel_requested"
    BY <2>12, <2>14 DEF StatusLogged, Ended
  <2>16. PICK U : U = ({e} \cup S) \cup {f}
    OBVIOUS
  <2>17. After(r.events, q.events, U)
    <3>1. After(r.events, l, {e} \cup S)
      BY <2>4, <2>11, AfterTrans
    <3>. QED  BY <2>15, <2>16, <3>1, AfterTrans
  <2>18. U \subseteq EventsBy(c)
    BY <2>2, <2>6, <2>16
  <2>19. After(r.events, q.events, EventsBy(c))
    BY <2>17, <2>18, AfterWider
  <2>20. \A i \in DOMAIN q.events : Proper(q.events[i])
    BY <1>1, <2>19, AfterProper
  <2>21. ASSUME NEW n \in Nodes
         PROVE  Tells(q.events, n, node2[n]) /\ (node2[n] = "succeeded" => r.result[n] = Left(q.events, n))
    <3>1. CASE n \in Touched(r)
      <4>1. node2[n] = IF r.node[n] = "queued" THEN "cancelled" ELSE "cancel_requested"
        BY <2>7, <3>1 DEF Touched, Active
      <4>2. \A g \in U : IsNodeEvent(g, n) => node2[n] \in SaysOf(g.type)
        <5> SUFFICES ASSUME NEW g \in U, IsNodeEvent(g, n) PROVE node2[n] \in SaysOf(g.type)
          OBVIOUS
        <5>1. g \in S /\ g.node = n
          BY <2>2, <2>16 DEF IsNodeEvent
        <5>2. g.type = IF r.node[n] = "queued" THEN "NODE_CANCELLED" ELSE "NODE_CANCEL_REQUESTED"
          BY <2>5, <5>1 DEF Stops
        <5>. QED  BY <4>1, <5>2, Says
      <4>3. PICK i \in DOMAIN ce : ce[i].node = n
        BY <2>5, <3>1
      <4>4. ce[i] \in S
        BY <2>5
      <4>5. IsNodeEvent(ce[i], n)
        <5>1. ce[i].type \in {"NODE_CANCELLED", "NODE_CANCEL_REQUESTED"}
          BY <2>5, <4>4 DEF Stops
        <5>. QED  BY <4>3, <5>1 DEF IsNodeEvent
      <4>6. PICK k : k = Len(a.events) + i
        OBVIOUS
      <4>7. k \in DOMAIN l /\ k > Len(a.events) /\ l[k] = ce[i]
        BY <2>11, <4>6
      <4>8. k \in DOMAIN q.events /\ q.events[k] = l[k]
        BY <2>15, <4>7 DEF After, Prefix
      <4>9. k > Len(r.events)
        BY <2>4, <4>6, <4>7, <2>10, <1>1 DEF After, Prefix
      <4>10. Tells(q.events, n, node2[n])
        BY <2>17, <4>2, <4>5, <4>7, <4>8, <4>9, TellsAnew
      <4>. QED  BY <4>1, <4>10
    <3>2. CASE n \notin Touched(r)
      <4>1. node2[n] = r.node[n]
        BY <2>7, <3>2 DEF Touched, Active
      <4>2. \A g \in U : ~IsNodeEvent(g, n)
        <5>1. \A g \in S : g.node # n
          BY <2>5, <3>2 DEF Stops
        <5>. QED  BY <5>1, <2>2, <2>16 DEF IsNodeEvent
      <4>3. Tells(q.events, n, r.node[n])
        BY <1>1, <2>17, <4>2, TellsStill DEF LogOK
      <4>4. Left(q.events, n) = Left(r.events, n)
        BY <2>17, <4>2, LeftStill, SuccessIsNodeEvent
      <4>. QED  BY <1>1, <4>1, <4>3, <4>4 DEF LogOK
    <3>. QED  BY <3>1, <3>2
  <2>22. LogOK(q.events, q.node, q.result)
    BY <2>15, <2>21 DEF LogOK
  <2>23. \A n \in Nodes : node2[n] = IF r.node[n] = "queued" THEN "cancelled"
                                    ELSE IF r.node[n] \in Active THEN "cancel_requested" ELSE r.node[n]
    BY <2>7
  <2>24. NodesOK(q)
    <3>1. \A d2 \in Edges : d2[1] \in Nodes /\ d2[2] \in Nodes
      BY VersionAssumption DEF ValidVersion
    <3>. QED  BY <2>15, <2>23, <3>1 DEF RunOK, NodesOK, Active
  <2>25. r.status \notin {"cancel_requested", "cancelled", "succeeded"}
    BY <1>3 DEF CanRequestCancel
  <2>26. ~Finished(node2)
    BY <2>23, <2>25 DEF RunOK, StatusOK, Finished, Active
  <2>27. StatusOK(q)
    <3>1. \A n \in Nodes : node2[n] \notin Active \cup {"queued"}
      BY <2>23 DEF Active
    <3>. QED  BY <2>15, <2>26, <3>1 DEF StatusOK
  <2>28. Kept(r, q)
    BY <2>15, <2>23, <2>25 DEF Kept, Active
  <2>29. \A n \in Nodes : r.node[n] \in Active => q.node[n] = "cancel_requested"
    BY <2>15, <2>23 DEF Active
  <2>. QED  BY <2>15, <2>19, <2>20, <2>22, <2>24, <2>27, <2>28, <2>29 DEF Advances, RunOK
<1>. QED  BY <1>2, <1>3

-----------------------------------------------------------------------------
(* Starting a node *)

\* Only a scheduled retry leaves a node queued.
LEMMA QueuedSays ==
  ASSUME NEW t \in NodeEventType, "queued" \in SaysOf(t)
  PROVE  "running" \in SaysOf(t)
BY Says DEF NodeEventType

LEMMA NodeEventIs ==
  ASSUME NEW e, Proper(e), NEW n \in Nodes, IsNodeEvent(e, n)
  PROVE  e.type \in NodeEventType
BY DEF Proper, IsNodeEvent

\* A node that was started before and waits again may be running.
LEMMA Restarted ==
  ASSUME NEW log, \A i \in DOMAIN log : Proper(log[i]), NEW n \in Nodes, Tells(log, n, "queued"),
         NEW k \in DOMAIN log, IsNodeEvent(log[k], n)
  PROVE  Tells(log, n, "running")
<1>1. ASSUME NEW i \in DOMAIN log, IsNodeEvent(log[i], n),
             \A j \in DOMAIN log : IsNodeEvent(log[j], n) => j <= i
      PROVE  "running" \in SaysOf(log[i].type)
  <2>1. "queued" \in SaysOf(log[i].type)
    BY <1>1 DEF Tells
  <2>2. log[i].type \in NodeEventType
    BY <1>1, NodeEventIs
  <2>. QED  BY <2>1, <2>2, QueuedSays
<1>. QED  BY <1>1 DEF Tells

StartedEvent(c) == EventOf(c, "run-start", "RUN_STARTED", None)

NodeStartedEvent(c, n) == EventOf(c, "start", "NODE_STARTED", n)

LEMMA StartEventsAre ==
  ASSUME NEW c \in CommandIds["execute-node"], NEW n \in Nodes
  PROVE  /\ c \in AllCommandIds
         /\ StartedEvent(c) \in Event /\ StartedEvent(c) \in EventsBy(c)
         /\ \A m \in Nodes : ~IsNodeEvent(StartedEvent(c), m)
         /\ StartedEvent(c).id = <<c, "run-start", None>> /\ StartedEvent(c).node = None
         /\ NodeStartedEvent(c, n) \in Event /\ NodeStartedEvent(c, n) \in EventsBy(c)
         /\ IsNodeEvent(NodeStartedEvent(c, n), n)
         /\ \A m \in Nodes \ {n} : ~IsNodeEvent(NodeStartedEvent(c, n), m)
         /\ NodeStartedEvent(c, n).id = <<c, "start", None>> /\ NodeStartedEvent(c, n).type = "NODE_STARTED"
<1>1. c \in AllCommandIds
  BY DEF AllCommandIds, CommandType
<1>. QED  BY <1>1, NoneIsNoNode DEF StartedEvent, NodeStartedEvent, EventOf, Event, TransitionId, EventType,
                                    Deed, EventsBy, Proper, NodeEventType, IsNodeEvent

(* What start_node leaves of r. *)
Starts(r, n, c, q) ==
  /\ RunOK(q) /\ After(r.events, q.events, EventsBy(c)) /\ Kept(r, q)
  /\ q.node[n] = "running" /\ q.status \notin Closed \cup {"absent"}
  /\ \A m \in Nodes \ {n} : q.attempts[m] = r.attempts[m]
  /\ Unanswered(q.events, c)

LEMMA StartAdvances ==
  ASSUME NEW r, RunOK(r), NEW n \in Nodes, NEW c \in CommandIds["execute-node"], Unanswered(r.events, c),
         CanStart(r, n), r.status # "absent",
         \A i \in DOMAIN r.events : r.events[i].id[1] = c => r.events[i].node \in {n, None},
         NEW q, q = StartNode(r, n, c)
  PROVE  Starts(r, n, c, q)
<1>1. /\ r \in Run /\ r.events \in Seq(Event) /\ r.node \in [Nodes -> NodeStatus] /\ r.attempts \in [Nodes -> Nat]
      /\ r.status \in RunStatus /\ LogOK(r.events, r.node, r.result)
      /\ \A i \in DOMAIN r.events : Proper(r.events[i])
  BY DEF RunOK, Run
<1>2. r.node[n] = "queued" /\ r.status \notin Closed /\ r.attempts[n] < MaxAttempts[n]
      /\ \A d \in Edges : d[2] = n => r.node[d[1]] = "succeeded"
  <2>1. \A d \in Edges : d[1] \in Nodes /\ d = <<d[1], d[2]>>
    BY VersionAssumption DEF ValidVersion
  <2>. QED  BY <2>1 DEF CanStart, ReadyNodes
<1>3. PICK e, f : e = NodeStartedEvent(c, n) /\ f = StartedEvent(c)
  OBVIOUS
<1>4. /\ e \in Event /\ e \in EventsBy(c) /\ IsNodeEvent(e, n) /\ \A m \in Nodes \ {n} : ~IsNodeEvent(e, m)
      /\ e.id = <<c, "start", None>> /\ e.type = "NODE_STARTED"
      /\ f \in Event /\ f \in EventsBy(c) /\ \A m \in Nodes : ~IsNodeEvent(f, m)
      /\ f.id = <<c, "run-start", None>> /\ f.node = None
  BY <1>3, StartEventsAre
<1>5. PICK node2, att2, st, b : /\ node2 = [r.node EXCEPT ![n] = "running"]
                                /\ att2 = [r.attempts EXCEPT ![n] = @ + 1]
                                /\ st = IF r.status = "queued" THEN "running" ELSE r.status
                                /\ b = [r EXCEPT !.node = node2, !.attempts = att2, !.status = st]
  OBVIOUS
<1>6. /\ node2 \in [Nodes -> NodeStatus] /\ att2 \in [Nodes -> Nat] /\ st \in RunStatus
      /\ \A m \in Nodes : /\ node2[m] = IF m = n THEN "running" ELSE r.node[m]
                          /\ att2[m] = IF m = n THEN r.attempts[n] + 1 ELSE r.attempts[m]
      /\ st \notin Closed \cup {"absent"}
  BY <1>1, <1>2, <1>5 DEF NodeStatus, RunStatus, Closed
<1>7. /\ b \in Run /\ b.node = node2 /\ b.attempts = att2 /\ b.status = st
      /\ b.result = r.result /\ b.events = r.events
  BY <1>1, <1>5, <1>6 DEF Run
<1>8. PICK l : l = IF r.status = "queued" THEN Logged(b, f) ELSE b
  OBVIOUS
<1>9. q = Logged(l, e)
  BY <1>3, <1>5, <1>8 DEF StartNode, StartedEvent, NodeStartedEvent
<1>10. /\ l \in Run /\ l.node = node2 /\ l.attempts = att2 /\ l.status = st
       /\ l.result = r.result /\ After(r.events, l.events, {f})
  <2>1. CASE r.status = "queued"
    <3>1. Wrote(b, f, l)
      BY <1>4, <1>7, <1>8, <2>1, LoggedIs
    <3>. QED  BY <1>7, <3>1 DEF Wrote
  <2>2. CASE r.status # "queued"
    <3>1. l = b
      BY <1>8, <2>2
    <3>2. After(r.events, r.events, {f})
      BY <1>1, AfterNothing
    <3>. QED  BY <1>7, <3>1, <3>2
  <2>. QED  BY <2>1, <2>2
<1>11. /\ q \in Run /\ q.node = node2 /\ q.attempts = att2 /\ q.status = st /\ q.result = r.result
       /\ After(l.events, q.events, {e})
       /\ (\A i \in DOMAIN l.events : l.events[i].id # e.id) =>
            Len(q.events) = Len(l.events) + 1 /\ q.events[Len(l.events) + 1] = e
  <2>1. Wrote(l, e, q)
    BY <1>4, <1>9, <1>10, LoggedIs
  <2>. QED  BY <1>10, <2>1 DEF Wrote
<1>12. PICK S : S = {f} \cup {e}
  OBVIOUS
<1>13. After(r.events, q.events, S)
  BY <1>10, <1>11, <1>12, AfterTrans
<1>14. After(r.events, q.events, EventsBy(c))
  <2>1. S \subseteq EventsBy(c)
    BY <1>4, <1>12
  <2>. QED  BY <1>13, <2>1, AfterWider
<1>15. \A i \in DOMAIN q.events : Proper(q.events[i])
  BY <1>1, <1>14, AfterProper
<1>16. Unanswered(q.events, c)
  <2>1. \A g \in S : g.id[2] \in {"start", "run-start"}
    BY <1>4, <1>12
  <2>2. ASSUME NEW i \in DOMAIN q.events, q.events[i].id[1] = c
        PROVE  q.events[i].id[2] \in {"start", "run-start"}
    <3>1. CASE i > Len(r.events)
      BY <1>13, <2>1, <3>1 DEF After
    <3>2. CASE ~(i > Len(r.events))
      <4>1. i \in 1..Len(r.events) /\ i \in DOMAIN r.events
        BY <1>1, <1>13, <3>2 DEF After
      <4>2. q.events[i] = r.events[i]
        BY <1>13, <4>1 DEF After, Prefix
      <4>. QED  BY <2>2, <4>1, <4>2 DEF Unanswered
    <3>. QED  BY <3>1, <3>2
  <2>. QED  BY <2>2 DEF Unanswered
<1>17. Tells(q.events, n, "running")
  <2>1. CASE \A i \in DOMAIN l.events : l.events[i].id # e.id
    <3>1. PICK k : k = Len(l.events) + 1
      OBVIOUS
    <3>2. k \in DOMAIN q.events /\ k > Len(r.events) /\ q.events[k] = e
      <4>1. Len(q.events) = k /\ q.events[k] = e
        BY <1>11, <2>1, <3>1
      <4>2. Len(l.events) \in Nat /\ Len(r.events) \in Nat /\ Len(r.events) <= Len(l.events)
        BY <1>10 DEF After, Prefix
      <4>3. q.events \in Seq(Event)
        BY <1>11 DEF Run
      <4>. QED  BY <3>1, <4>1, <4>2, <4>3
    <3>3. PICK w : w = "running"
      OBVIOUS
    <3>4. \A g \in S : IsNodeEvent(g, n) => w \in SaysOf(g.type)
      BY <1>4, <1>12, <3>3, Says
    <3>5. IsNodeEvent(q.events[k], n)
      BY <1>4, <3>2
    <3>6. Tells(q.events, n, w)
      BY <1>13, <3>2, <3>4, <3>5, TellsAnew
    <3>. QED  BY <3>3, <3>6
  <2>2. CASE ~(\A i \in DOMAIN l.events : l.events[i].id # e.id)
    <3>1. PICK i \in DOMAIN l.events : l.events[i].id = e.id
      BY <2>2
    <3>2. \A j \in DOMAIN l.events : Proper(l.events[j])
      <4>1. {f} \subseteq EventsBy(c)
        BY <1>4
      <4>2. After(r.events, l.events, EventsBy(c))
        BY <1>10, <4>1, AfterWider
      <4>. QED  BY <1>1, <4>2, AfterProper
    <3>3. l.events[i].node \in {n, None}
      BY <1>1, <1>4, <1>10, <3>1 DEF After, Prefix
    <3>4. IsNodeEvent(l.events[i], n)
      BY <1>4, <3>1, <3>2, <3>3, NoneIsNoNode DEF Proper, IsNodeEvent
    <3>5. Tells(l.events, n, "queued")
      <4>1. Tells(r.events, n, "queued")
        BY <1>1, <1>2 DEF LogOK
      <4>. QED  BY <1>4, <1>10, <4>1, TellsStill
    <3>6. Tells(l.events, n, "running")
      BY <3>2, <3>4, <3>5, Restarted
    <3>7. q = l
      BY <1>9, <3>1 DEF Logged
    <3>. QED  BY <3>6, <3>7
  <2>. QED  BY <2>1, <2>2
<1>18. LogOK(q.events, q.node, q.result)
  <2> SUFFICES ASSUME NEW m \in Nodes
               PROVE  Tells(q.events, m, node2[m]) /\ (node2[m] = "succeeded" => r.result[m] = Left(q.events, m))
    BY <1>11 DEF LogOK
  <2>1. CASE m = n
    BY <1>6, <1>17, <2>1
  <2>2. CASE m # n
    <3>1. \A g \in S : ~IsNodeEvent(g, m)
      BY <1>4, <1>12, <2>2
    <3>2. Tells(q.events, m, r.node[m])
      BY <1>1, <1>13, <3>1, TellsStill DEF LogOK
    <3>3. Left(q.events, m) = Left(r.events, m)
      BY <1>13, <3>1, LeftStill, SuccessIsNodeEvent
    <3>. QED  BY <1>1, <1>6, <2>2, <3>2, <3>3 DEF LogOK
  <2>. QED  BY <2>1, <2>2
<1>19. NodesOK(q)
  <2>1. \A d \in Edges : d[1] \in Nodes /\ d[2] \in Nodes
    BY VersionAssumption DEF ValidVersion
  <2>2. NodesOK(r) /\ MaxAttempts[n] \in Nat
    BY VersionAssumption DEF RunOK, ValidVersion
  <2>3. \A m \in Nodes : q.attempts[m] <= MaxAttempts[m]
    BY <1>1, <1>2, <1>6, <1>11, <2>2 DEF NodesOK
  <2>4. \A m \in Nodes : q.node[m] \in Active => q.attempts[m] > 0
    BY <1>1, <1>6, <1>11, <2>2 DEF NodesOK
  <2>5. ASSUME NEW d \in Edges, q.attempts[d[2]] > 0 \/ q.node[d[2]] = "failed"
        PROVE  q.node[d[1]] = "succeeded"
    <3>1. r.node[d[1]] = "succeeded"
      BY <1>2, <1>6, <1>11, <2>1, <2>2, <2>5 DEF NodesOK
    <3>. QED  BY <1>2, <1>6, <1>11, <2>1, <3>1
  <2>. QED  BY <2>3, <2>4, <2>5 DEF NodesOK
<1>20. StatusOK(q)
  BY <1>6, <1>11 DEF StatusOK, Finished, Closed
<1>21. Kept(r, q)
  BY <1>2, <1>6, <1>11 DEF Kept, Closed
<1>22. q.node[n] = "running" /\ q.status \notin Closed \cup {"absent"}
       /\ \A m \in Nodes \ {n} : q.attempts[m] = r.attempts[m]
  BY <1>6, <1>11
<1>23. RunOK(q)
  BY <1>11, <1>15, <1>18, <1>19, <1>20 DEF RunOK
<1>. QED  BY <1>14, <1>16, <1>21, <1>22, <1>23 DEF Starts

-----------------------------------------------------------------------------
(* Steps of the whole state *)

LEMMA ReceivedMore ==
  ASSUME NEW e, NEW got, NEW got2, got \subseteq got2, Received(e, got)
  PROVE  Received(e, got2)
BY DEF Received

LEMMA CallOKMore ==
  ASSUME NEW k, NEW log, NEW log2, NEW executions, NEW executions2, CallOK(k, log, executions),
         NEW S, After(log, log2, S), \A n \in Nodes : executions[n] > 0 => executions2[n] > 0
  PROVE  CallOK(k, log2, executions2)
<1>1. k.copy.events \in Seq(Event)
  BY DEF CallOK, RunOK, Run
<1>2. PICK p : p = k.copy.events
  OBVIOUS
<1>3. Prefix(p, log2)
  <2>1. /\ Len(p) \in Nat /\ Len(log) \in Nat /\ Len(log2) \in Nat /\ Len(p) <= Len(log) /\ Len(log) <= Len(log2)
        /\ (\A i \in 1..Len(p) : log[i] = p[i]) /\ (\A i \in 1..Len(log) : log2[i] = log[i])
    BY <1>1, <1>2 DEF CallOK, After, Prefix
  <2>2. \A i \in 1..Len(p) : i \in 1..Len(log)
    BY <2>1
  <2>. QED  BY <2>1, <2>2 DEF Prefix
<1>. QED  BY <1>2, <1>3 DEF CallOK

(* What a step has to show. *)
GoesOn(r, got, k, a, x, s, got2, k2, a2, x2) ==
  /\ RunOK(s) /\ Kept(r, s) /\ s.status # "absent"
  /\ got \subseteq got2 /\ got2 \subseteq Receipt
  /\ \E S : After(r.events, s.events, S) /\ \A e \in S : Received(e, got2)
  /\ x2 \in Executor /\ \A n \in Nodes : x.executions[n] > 0 => x2.executions[n] > 0
  /\ \A n \in Nodes : s.attempts[n] > 0 => x2.executions[n] > 0
  /\ k2 \in [Calls -> Call]
  /\ \A y \in Calls : k2[y] = k[y] \/ k2[y] = NoCall \/ CallOK(k2[y], s.events, x2.executions)
  /\ a2 \subseteq Nodes
  /\ \A n \in x2.told \cup a2 :
       \/ n \in x.told \cup a
       \/ x2.executions[n] > 0 /\ s.node[n] = "cancel_requested"

LEMMA StepSound ==
  ASSUME NEW r, NEW got, NEW k, NEW a, NEW x, Sound(r, got, k, a, x),
         NEW s, NEW got2, NEW k2, NEW a2, NEW x2, GoesOn(r, got, k, a, x, s, got2, k2, a2, x2)
  PROVE  Sound(s, got2, k2, a2, x2)
<1>0. PICK S : After(r.events, s.events, S) /\ \A e \in S : Received(e, got2)
  BY DEF GoesOn
<1>1. ASSUME NEW i \in DOMAIN s.events PROVE Received(s.events[i], got2)
  <2>1. CASE i > Len(r.events)
    BY <1>0, <2>1 DEF After
  <2>2. CASE ~(i > Len(r.events))
    <3>1. i \in 1..Len(r.events) /\ i \in DOMAIN r.events
      BY <1>0, <2>2 DEF After
    <3>2. s.events[i] = r.events[i]
      BY <1>0, <3>1 DEF After, Prefix
    <3>3. Received(r.events[i], got)
      BY <3>1 DEF Sound
    <3>. QED  BY <3>2, <3>3, ReceivedMore DEF GoesOn
  <2>. QED  BY <2>1, <2>2
<1>2. ASSUME NEW y \in Calls, k2[y] # NoCall PROVE CallOK(k2[y], s.events, x2.executions)
  <2>1. CASE k2[y] = k[y]
    <3>1. CallOK(k[y], r.events, x.executions)
      BY <1>2, <2>1 DEF Sound
    <3>2. \A n \in Nodes : x.executions[n] > 0 => x2.executions[n] > 0
      BY DEF GoesOn
    <3>. QED  BY <1>0, <2>1, <3>1, <3>2, CallOKMore
  <2>. QED  BY <1>2, <2>1 DEF GoesOn
<1>3. ASSUME NEW n \in x2.told \cup a2
      PROVE  x2.executions[n] > 0 /\ s.node[n] \in {"cancel_requested", "cancelled"}
  <2>1. n \in Nodes
    BY DEF Executor, GoesOn
  <2>2. CASE n \in x.told \cup a
    <3>1. x.executions[n] > 0 /\ r.node[n] \in {"cancel_requested", "cancelled"}
      BY <2>2 DEF Sound
    <3>. QED  BY <2>1, <3>1 DEF Kept, GoesOn
  <2>. QED  BY <2>2 DEF GoesOn
<1>. QED  BY <1>1, <1>2, <1>3 DEF Sound, GoesOn

\* A command without a receipt has logged nothing but starts.
LEMMA NewIsUnanswered ==
  ASSUME NEW r, NEW got, NEW k, NEW a, NEW x, Sound(r, got, k, a, x),
         NEW type \in CommandType, NEW c \in CommandIds[type], [type |-> type, id |-> c] \notin got
  PROVE  Unanswered(r.events, c) /\ c \in AllCommandIds
<1>1. c \in AllCommandIds /\ c # None
  BY VersionAssumption DEF AllCommandIds
<1>2. ASSUME NEW i \in DOMAIN r.events, r.events[i].id[1] = c
      PROVE  r.events[i].id[2] \in {"start", "run-start"}
  <2>1. Received(r.events[i], got)
    BY DEF Sound
  <2>2. CASE r.events[i].id[1] = None
    BY <1>1, <1>2, <2>2
  <2>3. ASSUME NEW t \in CommandType, c \in CommandIds[t], [type |-> t, id |-> c] \in got
        PROVE  FALSE
    BY <2>3, VersionAssumption
  <2>. QED  BY <1>2, <2>1, <2>2, <2>3 DEF Received
<1>. QED  BY <1>1, <1>2 DEF Unanswered

\* A command in one transaction.
LEMMA CommandStep ==
  ASSUME NEW r, NEW got, NEW k, NEW a, NEW x, Sound(r, got, k, a, x), r.status # "absent",
         NEW type \in CommandType, NEW c \in CommandIds[type], NEW s, Advances(r, s, c), s.attempts = r.attempts,
         NEW a2, \A n \in a2 : n \in a \/ (n \in Nodes /\ r.node[n] \in Active /\ s.node[n] = "cancel_requested")
  PROVE  Sound(s, got \cup {[type |-> type, id |-> c]}, k, a2, x)
<1>1. PICK got2 : got2 = got \cup {[type |-> type, id |-> c]}
  OBVIOUS
<1>2. got \subseteq got2 /\ got2 \subseteq Receipt
  BY <1>1 DEF Sound, Receipt, AllCommandIds
<1>3. \A e \in EventsBy(c) : Received(e, got2)
  BY <1>1 DEF EventsBy, Received
<1>4. RunOK(s) /\ After(r.events, s.events, EventsBy(c)) /\ Kept(r, s) /\ s.status # "absent"
  BY DEF Advances, Kept
<1>5. /\ x \in Executor /\ k \in [Calls -> Call] /\ a \subseteq Nodes
      /\ \A n \in Nodes : r.attempts[n] > 0 => x.executions[n] > 0
  BY DEF Sound
<1>6. a2 \subseteq Nodes
  BY <1>5
<1>7. \A n \in x.told \cup a2 : \/ n \in x.told \cup a
                                \/ x.executions[n] > 0 /\ s.node[n] = "cancel_requested"
  <2>1. \A n \in Nodes : r.node[n] \in Active => r.attempts[n] > 0
    BY DEF Sound, RunOK, NodesOK
  <2>. QED  BY <1>5, <2>1
<1>8. \A n \in Nodes : s.attempts[n] > 0 => x.executions[n] > 0
  BY <1>5
<1>9. Sound(s, got2, k, a2, x)
  <2>1. GoesOn(r, got, k, a, x, s, got2, k, a2, x)
    BY <1>2, <1>3, <1>4, <1>5, <1>6, <1>7, <1>8 DEF GoesOn
  <2>. QED  BY <2>1, StepSound
<1>. QED  BY <1>1, <1>9

\* A log says the same of two runs, but for a node that was queued again.
LEMMA SameLog ==
  ASSUME NEW log \in Seq(Event), \A i \in DOMAIN log : Proper(log[i]), NEW n \in Nodes,
         NEW u, NEW v, Tells(log, n, u), Tells(log, n, v)
  PROVE  u = v \/ (u \in {"queued", "running"} /\ v \in {"queued", "running"})
<1>1. PICK T : T = {i \in DOMAIN log : IsNodeEvent(log[i], n)}
  OBVIOUS
<1>2. CASE T = {}
  <2>1. \A i \in DOMAIN log : ~IsNodeEvent(log[i], n)
    BY <1>1, <1>2
  <2>. QED  BY <2>1 DEF Tells
<1>3. CASE T # {}
  <2>1. Len(log) \in Nat /\ T \subseteq 1..Len(log)
    BY <1>1
  <2>2. PICK i \in T : \A j \in T : j <= i
    BY <1>3, <2>1, LastPosition
  <2>3. i \in DOMAIN log /\ IsNodeEvent(log[i], n) /\ \A j \in DOMAIN log : IsNodeEvent(log[j], n) => j <= i
    BY <1>1, <2>2
  <2>4. u \in SaysOf(log[i].type) /\ v \in SaysOf(log[i].type)
    BY <2>3 DEF Tells
  <2>5. log[i].type \in NodeEventType
    BY <2>3, NodeEventIs
  <2>. QED  BY <2>4, <2>5, Says DEF NodeEventType
<1>. QED  BY <1>2, <1>3

\* A copy with the log of the run loses no cancellation and no result.
LEMMA CopyKeeps ==
  ASSUME NEW r, RunOK(r), NEW p, RunOK(p), p.events = r.events, NEW n \in Nodes, p.node[n] = "running",
         p.status # "absent", NEW s, Kept(p, s)
  PROVE  Kept(r, s)
<1>1. r.events \in Seq(Event) /\ \A i \in DOMAIN r.events : Proper(r.events[i])
  BY DEF RunOK, Run
<1>2. \A m \in Nodes :
        \/ r.node[m] = p.node[m]
        \/ r.node[m] \in {"queued", "running"} /\ p.node[m] \in {"queued", "running"}
  <2> SUFFICES ASSUME NEW m \in Nodes
               PROVE  \/ r.node[m] = p.node[m]
                      \/ r.node[m] \in {"queued", "running"} /\ p.node[m] \in {"queued", "running"}
    OBVIOUS
  <2>1. Tells(r.events, m, r.node[m]) /\ Tells(r.events, m, p.node[m])
    BY DEF RunOK, LogOK
  <2>. QED  BY <1>1, <2>1, SameLog
<1>3. r.status \notin {"cancel_requested", "cancelled"}
  <2>1. r.node[n] \in {"queued", "running"}
    BY <1>2
  <2>. QED  BY <2>1 DEF RunOK, StatusOK, Active
<1>4. \A m \in Nodes : r.node[m] = "succeeded" => p.node[m] = "succeeded" /\ p.result[m] = r.result[m]
  BY <1>2 DEF RunOK, LogOK
<1>5. \A m \in Nodes : r.node[m] \in {"cancel_requested", "cancelled"} => p.node[m] = r.node[m]
  BY <1>2
<1>. QED  BY <1>3, <1>4, <1>5 DEF Kept

SavedWhole(log, p, s, new) == log = p /\ [s EXCEPT !.events = log \o new] = s

\* The unique keys: an outcome is saved only over the log it was computed from.
LEMMA SavedIsApplied ==
  ASSUME NEW log \in Seq(Event), NEW p \in Seq(Event), Prefix(p, log),
         NEW s, s \in Run, NEW S, After(p, s.events, S), Len(s.events) > Len(p),
         NEW new, new = SubSeq(s.events, Len(p) + 1, Len(s.events)), new = <<>> \/ Len(log) = Len(p)
  PROVE  SavedWhole(log, p, s, new)
<1>1. PICK l : l = s.events
  OBVIOUS
<1>2. l \in Seq(Event) /\ Len(l) \in Nat /\ Len(p) \in Nat /\ Len(log) \in Nat /\ Len(p) < Len(l)
      /\ \A i \in 1..Len(p) : l[i] = p[i]
  BY <1>1 DEF After, Prefix
<1>3. new \in Seq(Event) /\ Len(new) = Len(l) - Len(p) /\ \A i \in 1..Len(new) : new[i] = l[Len(p) + i]
  <2>1. new \in Seq(Event)
    BY <1>1, <1>2
  <2>2. Len(new) = Len(l) - Len(p)
    BY <1>1, <1>2
  <2>3. \A i \in 1..Len(new) : new[i] = l[Len(p) + i]
    BY <1>1, <1>2, <2>2
  <2>. QED  BY <2>1, <2>2, <2>3
<1>4. Len(log) = Len(p)
  <2>1. Len(new) # 0
    BY <1>2, <1>3
  <2>2. Len(<<>>) = 0
    OBVIOUS
  <2>. QED  BY <2>1, <2>2
<1>5. log = p
  BY <1>4, SeqEqual DEF Prefix
<1>6. PICK j : j = log \o new
  OBVIOUS
<1>7. j = l
  <2>1. j \in Seq(Event) /\ Len(j) = Len(l)
    <3>1. j \in Seq(Event) /\ Len(j) = Len(log) + Len(new)
      BY <1>3, <1>6
    <3>. QED  BY <1>2, <1>3, <1>4, <3>1
  <2>2. ASSUME NEW i \in 1..Len(j) PROVE j[i] = l[i]
    <3>1. CASE i <= Len(p)
      BY <1>2, <1>3, <1>5, <1>6, <2>1, <3>1
    <3>2. CASE i > Len(p)
      <4>1. i - Len(p) \in 1..Len(new) /\ Len(p) + (i - Len(p)) = i
        BY <1>2, <1>3, <2>1, <3>2
      <4>2. j[i] = new[i - Len(p)]
        BY <1>2, <1>3, <1>5, <1>6, <2>1, <3>2
      <4>. QED  BY <1>3, <4>1, <4>2
    <3>. QED  BY <1>2, <2>1, <3>1, <3>2
  <2>. QED  BY <1>2, <2>1, <2>2, SeqEqual
<1>8. [s EXCEPT !.events = j] = s
  BY <1>1, <1>7 DEF Run
<1>. QED  BY <1>5, <1>6, <1>8 DEF SavedWhole

\* What an outcome makes of a copy.
LEMMA AppliedIs ==
  ASSUME NEW r, NEW n, NEW c, NEW outcome
  PROVE  /\ outcome.status = "completed"  => Applied(r, n, c, outcome) = SucceedNode(r, n, outcome.result, c)
         /\ outcome.status = "incomplete" => Applied(r, n, c, outcome) = FailNode(r, n, FALSE, c)
         /\ outcome.status = "failed"     => Applied(r, n, c, outcome) = FailNode(r, n, outcome.retryable, c)
         /\ outcome.status = "accepted"   => Applied(r, n, c, outcome) = AcceptNode(r, n, c)
BY DEF Applied

LEMMA AppliedAdvances ==
  ASSUME NEW r, RunOK(r), NEW n \in Nodes, NEW c \in AllCommandIds, Unanswered(r.events, c),
         r.node[n] = "running", r.status \notin Closed,
         NEW outcome \in Outcome, outcome.status # "malformed", NEW q, q = Applied(r, n, c, outcome)
  PROVE  Advances(r, q, c) /\ Len(q.events) > Len(r.events) /\ q.attempts = r.attempts
<1>1. r.node[n] \in Active /\ CanFail(r, n)
  BY DEF Active, CanFail
<1>2. CASE outcome.status = "completed"
  <2>1. outcome.result \in Results
    BY <1>2 DEF Outcome
  <2>2. q = SucceedNode(r, n, outcome.result, c)
    BY <1>2, AppliedIs
  <2>. QED  BY <1>1, <2>1, <2>2, SucceedAdvances
<1>3. CASE outcome.status = "incomplete"
  <2>1. PICK again \in BOOLEAN : again = FALSE
    OBVIOUS
  <2>2. q = FailNode(r, n, again, c)
    BY <1>3, <2>1, AppliedIs
  <2>. QED  BY <1>1, <2>2, FailAdvances
<1>4. CASE outcome.status = "failed"
  <2>1. outcome.retryable \in BOOLEAN
    BY <1>4 DEF Outcome
  <2>2. q = FailNode(r, n, outcome.retryable, c)
    BY <1>4, AppliedIs
  <2>. QED  BY <1>1, <2>1, <2>2, FailAdvances
<1>5. CASE outcome.status = "accepted"
  <2>1. q = AcceptNode(r, n, c)
    BY <1>5, AppliedIs
  <2>. QED  BY <2>1, AcceptAdvances
<1>6. outcome.status \in {"completed", "incomplete", "failed", "accepted"}
  BY DEF Outcome
<1>. QED  BY <1>2, <1>3, <1>4, <1>5, <1>6

-----------------------------------------------------------------------------
(* The actions *)

LEMMA AbsentIs ==
  /\ AbsentRun \in Run /\ AbsentRun.status = "absent" /\ AbsentRun.events = <<>>
  /\ AbsentRun.node = [n \in Nodes |-> "queued"] /\ AbsentRun.attempts = [n \in Nodes |-> 0]
  /\ AbsentRun.result = [n \in Nodes |-> None]
BY DEF AbsentRun, Run, RunStatus, NodeStatus

LEMMA SomeNode == 1 \in Nodes
BY VersionAssumption DEF ValidVersion, Nodes

\* A run no node of which has moved.
LEMMA UntouchedOK ==
  ASSUME NEW r, r \in Run, r.status \in {"absent", "queued"}, r.events = <<>>,
         r.node = [n \in Nodes |-> "queued"], r.attempts = [n \in Nodes |-> 0]
  PROVE  RunOK(r)
<1>1. \A n \in Nodes : r.node[n] = "queued" /\ r.attempts[n] = 0
  OBVIOUS
<1>2. NodesOK(r)
  <2>1. /\ \A e \in Edges : e[1] \in Nodes /\ e[2] \in Nodes
        /\ \A n \in Nodes : MaxAttempts[n] \in Nat
    BY VersionAssumption DEF ValidVersion
  <2>. QED  BY <1>1, <2>1 DEF NodesOK, Active
<1>3. StatusOK(r)
  BY <1>1, SomeNode DEF StatusOK, Finished
<1>4. DOMAIN r.events = {}
  OBVIOUS
<1>5. LogOK(r.events, r.node, r.result)
  BY <1>1, <1>4 DEF LogOK, Tells
<1>. QED  BY <1>2, <1>3, <1>4, <1>5 DEF RunOK

\* create() leaves a sound run with one event.
CreatedEvent == EventOf(None, "create", "RUN_CREATED", None)

LEMMA NewRunIs ==
  ASSUME NEW input \in Inputs, NEW q, q = NewRun(input)
  PROVE  /\ RunOK(q) /\ After(<<>>, q.events, {CreatedEvent}) /\ q.status = "queued"
         /\ q.attempts = [n \in Nodes |-> 0]
<1>1. PICK b, e : b = [AbsentRun EXCEPT !.status = "queued", !.input = input] /\ e = CreatedEvent
  OBVIOUS
<1>2. /\ b \in Run /\ b.status = "queued" /\ b.events = <<>> /\ b.node = AbsentRun.node
      /\ b.attempts = AbsentRun.attempts /\ b.result = AbsentRun.result
  BY <1>1, AbsentIs DEF Run, RunStatus
<1>3. /\ e \in Event /\ Proper(e) /\ \A n \in Nodes : ~IsNodeEvent(e, n)
  BY <1>1, NoneIsNoNode DEF CreatedEvent, EventOf, Event, TransitionId, EventType, Deed, Proper, NodeEventType,
                            IsNodeEvent
<1>4. q = Logged(b, e)
  BY <1>1 DEF NewRun, CreatedEvent
<1>5. Wrote(b, e, q)
  BY <1>2, <1>3, <1>4, LoggedIs
<1>6. /\ q \in Run /\ q.status = "queued" /\ q.node = b.node /\ q.attempts = b.attempts /\ q.result = b.result
      /\ After(b.events, q.events, {e})
  BY <1>2, <1>5 DEF Wrote
<1>7. RunOK(b)
  BY <1>2, AbsentIs, UntouchedOK
<1>8. LogOK(q.events, q.node, q.result)
  <2>1. LogOK(b.events, b.node, b.result) /\ \A g \in {e}, n \in Nodes : ~IsNodeEvent(g, n)
    BY <1>3, <1>7 DEF RunOK
  <2>2. LogOK(q.events, b.node, b.result)
    BY <1>6, <2>1, LogOKStill
  <2>. QED  BY <1>6, <2>2
<1>9. \A i \in DOMAIN q.events : Proper(q.events[i])
  BY <1>2, <1>3, <1>6 DEF After
<1>10. NodesOK(q) /\ StatusOK(q)
  BY <1>2, <1>6, <1>7 DEF RunOK, NodesOK, StatusOK
<1>11. RunOK(q)
  BY <1>6, <1>8, <1>9, <1>10 DEF RunOK
<1>. QED  BY <1>1, <1>2, <1>6, <1>11, AbsentIs

(* Nothing of the run is lost, and the state stays sound. *)
SoundStep == IInv' /\ Kept(run, run')

LEMMA KeptSame == ASSUME NEW r PROVE Kept(r, r)
BY DEF Kept

LEMMA CreateStep ==
  ASSUME IInv, NEW input \in Inputs, CreateRun(input)
  PROVE  SoundStep
<1>1. PICK s, S : s = NewRun(input) /\ S = {CreatedEvent}
  OBVIOUS
<1>2. /\ run = AbsentRun /\ (\A y \in Calls : call[y] = NoCall) /\ run' = s
      /\ receipts' = receipts /\ call' = call /\ asking' = asking /\ executor' = executor
  BY <1>1 DEF CreateRun, IInv, Sound
<1>3. RunOK(s) /\ After(run.events, s.events, S) /\ s.status = "queued" /\ s.attempts = [n \in Nodes |-> 0]
  BY <1>1, <1>2, AbsentIs, NewRunIs
<1>4. Kept(run, s)
  BY <1>2, AbsentIs DEF Kept
<1>5. \A e \in S : Received(e, receipts)
  BY <1>1 DEF CreatedEvent, EventOf, Received
<1>6. GoesOn(run, receipts, call, asking, executor, s, receipts, call, asking, executor)
  <2>1. /\ receipts \subseteq Receipt /\ call \in [Calls -> Call] /\ executor \in Executor /\ asking \subseteq Nodes
    BY DEF IInv, Sound
  <2>2. \A n \in Nodes : ~(s.attempts[n] > 0)
    BY <1>3
  <2>. QED  BY <1>3, <1>4, <1>5, <2>1, <2>2 DEF GoesOn
<1>7. Sound(s, receipts, call, asking, executor)
  BY <1>6, StepSound DEF IInv
<1>. QED  BY <1>2, <1>4, <1>7 DEF SoundStep, IInv

\* A command that found no receipt leaves one.
LEMMA SaveStep ==
  ASSUME IInv, NEW type \in CommandType, NEW c \in CommandIds[type], run.status # "absent",
         NEW s, Advances(run, s, c), s.attempts = run.attempts, SaveWithReceipt(s, type, c),
         \A n \in asking' : n \in asking \/ (n \in Nodes /\ run.node[n] \in Active /\ s.node[n] = "cancel_requested")
  PROVE  SoundStep
<1>1. /\ run' = s /\ receipts' = receipts \cup {[type |-> type, id |-> c]}
      /\ call' = call /\ executor' = executor
  BY DEF SaveWithReceipt
<1>2. PICK a2 : a2 = asking'
  OBVIOUS
<1>3. Sound(s, receipts \cup {[type |-> type, id |-> c]}, call, a2, executor)
  BY <1>2, CommandStep DEF IInv
<1>4. Kept(run, s)
  BY DEF Advances
<1>. QED  BY <1>1, <1>2, <1>3, <1>4 DEF SoundStep, IInv

LEMMA NewCommand ==
  ASSUME IInv, NEW type \in CommandType, NEW c \in CommandIds[type], New(type, c)
  PROVE  RunOK(run) /\ run.status # "absent" /\ Unanswered(run.events, c) /\ c \in AllCommandIds
<1>1. [type |-> type, id |-> c] \notin receipts /\ run.status # "absent"
  BY DEF New
<1>2. RunOK(run)
  BY DEF IInv, Sound
<1>. QED  BY <1>1, <1>2, NewIsUnanswered DEF IInv

LEMMA CompleteStep ==
  ASSUME IInv, NEW n \in Nodes, NEW result \in Results, NEW c \in CommandIds["complete-node"],
         CompleteNode(n, result, c)
  PROVE  SoundStep
<1>1. PICK type \in CommandType : type = "complete-node"
  BY DEF CommandType
<1>2. /\ New(type, c) /\ CanSucceed(run, n, result) /\ asking' = asking /\ c \in CommandIds[type]
      /\ SaveWithReceipt(SucceedNode(run, n, result, c), type, c)
  BY <1>1 DEF CompleteNode
<1>3. RunOK(run) /\ run.status # "absent" /\ Unanswered(run.events, c) /\ c \in AllCommandIds
  BY <1>2, NewCommand
<1>4. PICK s : s = SucceedNode(run, n, result, c)
  OBVIOUS
<1>5. Advances(run, s, c) /\ s.attempts = run.attempts
  <2>1. CASE run.node[n] = "succeeded"
    <3>1. s = run
      BY <1>4, <2>1 DEF SucceedNode
    <3>2. After(run.events, run.events, EventsBy(c))
      BY <1>3, AfterNothing DEF RunOK, Run
    <3>. QED  BY <1>3, <3>1, <3>2, KeptSame DEF Advances
  <2>2. CASE run.node[n] # "succeeded"
    <3>1. run.node[n] \in Active
      BY <1>2, <2>2 DEF CanSucceed
    <3>. QED  BY <1>3, <1>4, <3>1, SucceedAdvances
  <2>. QED  BY <2>1, <2>2
<1>. QED  BY <1>2, <1>3, <1>4, <1>5, SaveStep

LEMMA FailStep ==
  ASSUME IInv, NEW n \in Nodes, NEW retryable \in BOOLEAN, NEW c \in CommandIds["fail-node"],
         ReportFailure(n, retryable, c)
  PROVE  SoundStep
<1>1. PICK type \in CommandType : type = "fail-node"
  BY DEF CommandType
<1>2. /\ New(type, c) /\ CanFail(run, n) /\ asking' = asking /\ c \in CommandIds[type]
      /\ SaveWithReceipt(FailNode(run, n, retryable, c), type, c)
  BY <1>1 DEF ReportFailure
<1>3. RunOK(run) /\ run.status # "absent" /\ Unanswered(run.events, c) /\ c \in AllCommandIds
  BY <1>2, NewCommand
<1>4. PICK s : s = FailNode(run, n, retryable, c)
  OBVIOUS
<1>5. Advances(run, s, c) /\ s.attempts = run.attempts
  BY <1>2, <1>3, <1>4, FailAdvances
<1>. QED  BY <1>2, <1>3, <1>4, <1>5, SaveStep

LEMMA SkipStep ==
  ASSUME IInv, NEW n \in Nodes, NEW c \in CommandIds["skip-node"], Skip(n, c)
  PROVE  SoundStep
<1>1. PICK type \in CommandType : type = "skip-node"
  BY DEF CommandType
<1>2. /\ New(type, c) /\ CanSkip(run, n) /\ asking' = asking /\ c \in CommandIds[type]
      /\ SaveWithReceipt(SkipNode(run, n, c), type, c)
  BY <1>1 DEF Skip
<1>3. RunOK(run) /\ run.status # "absent" /\ Unanswered(run.events, c) /\ c \in AllCommandIds
  BY <1>2, NewCommand
<1>4. PICK s : s = SkipNode(run, n, c)
  OBVIOUS
<1>5. Advances(run, s, c) /\ s.attempts = run.attempts
  BY <1>2, <1>3, <1>4, SkipAdvances
<1>. QED  BY <1>2, <1>3, <1>4, <1>5, SaveStep

LEMMA ConfirmStep ==
  ASSUME IInv, NEW n \in Nodes, NEW c \in CommandIds["confirm-cancel"], ConfirmCancel(n, c)
  PROVE  SoundStep
<1>1. PICK type \in CommandType : type = "confirm-cancel"
  BY DEF CommandType
<1>2. /\ New(type, c) /\ CanConfirmCancel(run, n) /\ asking' = asking /\ c \in CommandIds[type]
      /\ SaveWithReceipt(ConfirmNodeCancel(run, n, c), type, c)
  BY <1>1 DEF ConfirmCancel
<1>3. RunOK(run) /\ run.status # "absent" /\ Unanswered(run.events, c) /\ c \in AllCommandIds
  BY <1>2, NewCommand
<1>4. PICK s : s = ConfirmNodeCancel(run, n, c)
  OBVIOUS
<1>5. Advances(run, s, c) /\ s.attempts = run.attempts
  BY <1>2, <1>3, <1>4, ConfirmAdvances
<1>. QED  BY <1>2, <1>3, <1>4, <1>5, SaveStep

LEMMA RejectStep ==
  ASSUME IInv, NEW n \in Nodes, NEW c \in CommandIds["execute-node"], RejectInput(n, c)
  PROVE  SoundStep
<1>1. PICK type \in CommandType : type = "execute-node"
  BY DEF CommandType
<1>2. /\ New(type, c) /\ n \in ReadyNodes(run) /\ CanRejectInput(run, n) /\ asking' = asking
      /\ c \in CommandIds[type] /\ SaveWithReceipt(RejectNodeInput(run, n, c), type, c)
  BY <1>1 DEF RejectInput
<1>3. RunOK(run) /\ run.status # "absent" /\ Unanswered(run.events, c) /\ c \in AllCommandIds
  BY <1>2, NewCommand
<1>4. PICK s : s = RejectNodeInput(run, n, c)
  OBVIOUS
<1>5. Advances(run, s, c) /\ s.attempts = run.attempts
  BY <1>2, <1>3, <1>4, RejectAdvances
<1>. QED  BY <1>2, <1>3, <1>4, <1>5, SaveStep

LEMMA CancelStep ==
  ASSUME IInv, NEW c \in CommandIds["cancel"], Cancel(c)
  PROVE  SoundStep
<1>1. PICK type \in CommandType : type = "cancel"
  BY DEF CommandType
<1>2. /\ New(type, c) /\ CanRequestCancel(run) /\ c \in CommandIds[type]
      /\ asking' = asking \cup {n \in Nodes : run.node[n] \in Active}
      /\ SaveWithReceipt(RequestCancel(run, c), type, c)
  BY <1>1 DEF Cancel
<1>3. RunOK(run) /\ run.status # "absent" /\ c \in AllCommandIds
  BY <1>2, NewCommand
<1>4. PICK s : s = RequestCancel(run, c)
  OBVIOUS
<1>5. /\ Advances(run, s, c) /\ s.attempts = run.attempts
      /\ \A n \in Nodes : run.node[n] \in Active => s.node[n] = "cancel_requested"
  BY <1>2, <1>3, <1>4, CancelAdvances
<1>6. \A n \in asking' : n \in asking \/ (n \in Nodes /\ run.node[n] \in Active /\ s.node[n] = "cancel_requested")
  BY <1>2, <1>5
<1>. QED  BY <1>2, <1>3, <1>4, <1>5, <1>6, SaveStep

LEMMA RunExists ==
  ASSUME IInv, asking # {} \/ \E x \in Calls : call[x] # NoCall
  PROVE  run.status # "absent"
<1>1. \A n \in Nodes : AbsentRun.node[n] = "queued"
  BY AbsentIs
<1>2. \A n \in asking : n \in Nodes /\ run.node[n] \in {"cancel_requested", "cancelled"}
  BY DEF IInv, Sound
<1>. QED  BY <1>1, <1>2 DEF IInv, Sound

\* Steps that leave the rows alone.
LEMMA RowsStay ==
  ASSUME IInv, run.status # "absent", run' = run, receipts' = receipts,
         executor' \in Executor, executor'.executions = executor.executions,
         asking' \subseteq asking, executor'.told \subseteq executor.told \cup asking,
         call' \in [Calls -> Call], \A y \in Calls : call'[y] = call[y] \/ call'[y] = NoCall
  PROVE  SoundStep
<1>1. PICK k2, a2, x2 : k2 = call' /\ a2 = asking' /\ x2 = executor'
  OBVIOUS
<1>2. After(run.events, run.events, {})
  BY AfterNothing DEF IInv, Sound, RunOK, Run
<1>3. /\ RunOK(run) /\ receipts \subseteq Receipt /\ asking \subseteq Nodes
      /\ \A n \in Nodes : run.attempts[n] > 0 => executor.executions[n] > 0
  BY DEF IInv, Sound
<1>4. /\ x2 \in Executor /\ x2.executions = executor.executions /\ a2 \subseteq asking
      /\ x2.told \subseteq executor.told \cup asking
      /\ k2 \in [Calls -> Call] /\ \A y \in Calls : k2[y] = call[y] \/ k2[y] = NoCall
  BY <1>1
<1>5. GoesOn(run, receipts, call, asking, executor, run, receipts, k2, a2, x2)
  BY <1>2, <1>3, <1>4, KeptSame DEF GoesOn
<1>6. Sound(run, receipts, k2, a2, x2)
  BY <1>5, StepSound DEF IInv
<1>7. Kept(run, run)
  BY KeptSame
<1>. QED  BY <1>1, <1>6, <1>7 DEF SoundStep, IInv

LEMMA AskStep ==
  ASSUME IInv, NEW n \in Nodes, NEW delivered \in BOOLEAN, AskToStop(n, delivered)
  PROVE  SoundStep
<1>1. /\ n \in asking /\ asking' = asking \ {n} /\ run' = run /\ receipts' = receipts /\ call' = call
      /\ executor' = [executor EXCEPT !.told = IF delivered THEN @ \cup {n} ELSE @]
  BY DEF AskToStop
<1>2. executor \in Executor /\ call \in [Calls -> Call]
  BY DEF IInv, Sound
<1>3. PICK told2 : told2 = IF delivered THEN executor.told \cup {n} ELSE executor.told
  OBVIOUS
<1>4. told2 \subseteq Nodes /\ told2 \subseteq executor.told \cup asking
  BY <1>1, <1>2, <1>3 DEF Executor
<1>5. executor' = [executor EXCEPT !.told = told2]
  BY <1>1, <1>3
<1>6. executor' \in Executor /\ executor'.executions = executor.executions /\ executor'.told = told2
  BY <1>2, <1>4, <1>5 DEF Executor
<1>7. run.status # "absent"
  BY <1>1, RunExists
<1>. QED  BY <1>1, <1>2, <1>4, <1>6, <1>7, RowsStay

LEMMA CancelDiesStep ==
  ASSUME IInv, CancelDies
  PROVE  SoundStep
<1>1. /\ asking # {} /\ asking' = {} /\ run' = run /\ receipts' = receipts /\ call' = call /\ executor' = executor
  BY DEF CancelDies
<1>2. executor \in Executor /\ call \in [Calls -> Call]
  BY DEF IInv, Sound
<1>3. run.status # "absent"
  BY <1>1, RunExists
<1>. QED  BY <1>1, <1>2, <1>3, RowsStay

\* A call ends, one way or another.
LEMMA CallEnds ==
  ASSUME IInv, NEW x \in Calls, call[x] # NoCall, NEW k2, k2 = [call EXCEPT ![x] = NoCall]
  PROVE  /\ run.status # "absent" /\ k2 \in [Calls -> Call]
         /\ \A y \in Calls : k2[y] = call[y] \/ k2[y] = NoCall
<1>1. NoCall \in Call
  BY AbsentIs DEF NoCall, Call
<1>2. call \in [Calls -> Call]
  BY DEF IInv, Sound
<1>3. run.status # "absent"
  BY RunExists
<1>. QED  BY <1>1, <1>2, <1>3

LEMMA ExecuteDiesStep ==
  ASSUME IInv, NEW x \in Calls, ExecuteDies(x)
  PROVE  SoundStep
<1>1. /\ call[x] # NoCall /\ call' = [call EXCEPT ![x] = NoCall]
      /\ run' = run /\ receipts' = receipts /\ asking' = asking /\ executor' = executor
  BY DEF ExecuteDies
<1>2. executor \in Executor
  BY DEF IInv, Sound
<1>3. /\ run.status # "absent" /\ call' \in [Calls -> Call]
      /\ \A y \in Calls : call'[y] = call[y] \/ call'[y] = NoCall
  BY <1>1, CallEnds
<1>. QED  BY <1>1, <1>2, <1>3, RowsStay

\* The first commit of execute_node.
LEMMA ExecuteStep ==
  ASSUME IInv, NEW n \in Nodes, NEW x \in Calls, NEW c \in IdsFor("execute-node", n), Execute(x, n, c)
  PROVE  SoundStep
<1>1. PICK type \in CommandType : type = "execute-node"
  BY DEF CommandType
<1>2. PICK s : s = StartNode(run, n, c)
  OBVIOUS
<1>3. /\ New(type, c) /\ CanStart(run, n) /\ c \in CommandIds[type]
      /\ \A i \in DOMAIN run.events : run.events[i].id[1] = c => run.events[i].node \in {n, None}
      /\ run' = s /\ call' = [call EXCEPT ![x] = [id |-> c, node |-> n, copy |-> s]]
      /\ executor' = [executor EXCEPT !.executions[n] = @ + 1]
      /\ receipts' = receipts /\ asking' = asking
  BY <1>1, <1>2 DEF Execute, IdsFor
<1>4. RunOK(run) /\ run.status # "absent" /\ Unanswered(run.events, c) /\ c \in AllCommandIds
  BY <1>3, NewCommand
<1>5. Starts(run, n, c, s)
  BY <1>1, <1>2, <1>3, <1>4, StartAdvances
<1>6. /\ RunOK(s) /\ s \in Run /\ After(run.events, s.events, EventsBy(c)) /\ Kept(run, s)
      /\ s.node[n] = "running" /\ s.status \notin Closed \cup {"absent"}
      /\ (\A m \in Nodes \ {n} : s.attempts[m] = run.attempts[m]) /\ Unanswered(s.events, c)
  BY <1>5 DEF Starts, RunOK
<1>7. /\ executor \in Executor /\ call \in [Calls -> Call] /\ receipts \subseteq Receipt /\ asking \subseteq Nodes
      /\ \A m \in Nodes : run.attempts[m] > 0 => executor.executions[m] > 0
  BY DEF IInv, Sound
<1>8. PICK ex2, x2 : ex2 = [executor.executions EXCEPT ![n] = @ + 1] /\ x2 = [executor EXCEPT !.executions = ex2]
  OBVIOUS
<1>9. /\ executor.executions \in [Nodes -> Nat] /\ ex2 \in [Nodes -> Nat] /\ ex2[n] > 0
      /\ \A m \in Nodes : executor.executions[m] > 0 => ex2[m] > 0
  BY <1>7, <1>8 DEF Executor
<1>10. x2 \in Executor /\ x2.executions = ex2 /\ x2.told = executor.told /\ executor' = x2
  <2>1. executor' = x2
    BY <1>3, <1>8
  <2>. QED  BY <1>7, <1>8, <1>9, <2>1 DEF Executor
<1>11. \A m \in Nodes : s.attempts[m] > 0 => ex2[m] > 0
  BY <1>6, <1>7, <1>9
<1>12. PICK k, k2 : k = [id |-> c, node |-> n, copy |-> s] /\ k2 = [call EXCEPT ![x] = k]
  OBVIOUS
<1>13. k \in Call /\ k.id = c /\ k.node = n /\ k.copy = s
  BY <1>1, <1>3, <1>6, <1>12 DEF Call
<1>14. k2 \in [Calls -> Call] /\ \A y \in Calls : k2[y] = call[y] \/ k2[y] = k
  BY <1>7, <1>12, <1>13
<1>15. CallOK(k, s.events, x2.executions)
  <2>1. Prefix(s.events, s.events)
    BY <1>6 DEF Prefix, Run
  <2>. QED  BY <1>1, <1>3, <1>6, <1>10, <1>11, <1>13, <2>1 DEF CallOK
<1>16. \E S : After(run.events, s.events, S) /\ \A e \in S : Received(e, receipts)
  <2>1. PICK S : S = {e \in EventsBy(c) : e.id[2] \in {"start", "run-start"}}
    OBVIOUS
  <2>2. ASSUME NEW i \in DOMAIN s.events, i > Len(run.events) PROVE s.events[i] \in S
    <3>1. s.events[i] \in EventsBy(c)
      BY <1>6, <2>2 DEF After
    <3>2. s.events[i].id[2] \in {"start", "run-start"}
      BY <1>6, <3>1 DEF Unanswered, EventsBy
    <3>. QED  BY <2>1, <3>1, <3>2
  <2>3. After(run.events, s.events, S)
    BY <1>6, <2>2 DEF After
  <2>4. \A e \in S : Received(e, receipts)
    BY <1>1, <1>3, <2>1 DEF EventsBy, Received
  <2>. QED  BY <2>3, <2>4
<1>17. GoesOn(run, receipts, call, asking, executor, s, receipts, k2, asking, x2)
  <2>1. \A y \in Calls : k2[y] = call[y] \/ k2[y] = NoCall \/ CallOK(k2[y], s.events, x2.executions)
    BY <1>14, <1>15
  <2>. QED  BY <1>6, <1>7, <1>9, <1>10, <1>11, <1>14, <1>16, <2>1 DEF GoesOn
<1>18. Sound(s, receipts, k2, asking, x2)
  BY <1>17, StepSound DEF IInv
<1>. QED  BY <1>3, <1>6, <1>10, <1>12, <1>18 DEF SoundStep, IInv

\* The second commit of execute_node.
LEMMA FinishStep ==
  ASSUME IInv, NEW x \in Calls, NEW outcome \in Outcome, Finish(x, outcome)
  PROVE  SoundStep
<1>1. PICK p, n, c, s : /\ p = call[x].copy /\ n = call[x].node /\ c = call[x].id
                        /\ s = Applied(p, n, c, outcome)
  OBVIOUS
<1>2. /\ call[x] # NoCall /\ call' = [call EXCEPT ![x] = NoCall] /\ asking' = asking /\ executor' = executor
      /\ IF outcome.status # "malformed" /\ EventsFit(x, s) THEN SaveCopy(x, s)
         ELSE run' = run /\ receipts' = receipts
  BY <1>1 DEF Finish
<1>3. /\ run.status # "absent" /\ call' \in [Calls -> Call]
      /\ \A y \in Calls : call'[y] = call[y] \/ call'[y] = NoCall
  BY <1>2, CallEnds
<1>4. executor \in Executor /\ RunOK(run) /\ asking \subseteq Nodes /\ receipts \subseteq Receipt
  BY DEF IInv, Sound
<1>5. CASE ~(outcome.status # "malformed" /\ EventsFit(x, s))
  BY <1>2, <1>3, <1>4, <1>5, RowsStay
<1>6. CASE outcome.status # "malformed" /\ EventsFit(x, s)
  <2>1. CallOK(call[x], run.events, executor.executions)
    BY <1>2 DEF IInv, Sound
  <2>2. /\ c \in CommandIds["execute-node"] /\ n \in Nodes /\ RunOK(p) /\ p.node[n] = "running"
        /\ p.status \notin Closed /\ p.status # "absent" /\ Prefix(p.events, run.events)
        /\ Unanswered(p.events, c) /\ \A m \in Nodes : p.attempts[m] > 0 => executor.executions[m] > 0
    BY <1>1, <2>1 DEF CallOK
  <2>3. c \in AllCommandIds
    BY <2>2 DEF AllCommandIds, CommandType
  <2>4. Advances(p, s, c) /\ Len(s.events) > Len(p.events) /\ s.attempts = p.attempts
    BY <1>1, <1>6, <2>2, <2>3, AppliedAdvances
  <2>5. RunOK(s) /\ s \in Run /\ After(p.events, s.events, EventsBy(c)) /\ Kept(p, s)
    BY <2>4 DEF Advances, RunOK
  <2>6. PICK new : new = SubSeq(s.events, Len(p.events) + 1, Len(s.events))
    OBVIOUS
  <2>7. new = <<>> \/ Len(run.events) = Len(p.events)
    BY <1>1, <1>6, <2>6 DEF EventsFit, NewEvents
  <2>8. run.events \in Seq(Event) /\ p.events \in Seq(Event)
    BY <1>4, <2>2 DEF RunOK, Run
  <2>9. run.events = p.events /\ [s EXCEPT !.events = run.events \o new] = s
    <3>1. SavedWhole(run.events, p.events, s, new)
      BY <2>2, <2>4, <2>5, <2>6, <2>7, <2>8, SavedIsApplied
    <3>. QED  BY <3>1 DEF SavedWhole
  <2>10. run' = s /\ receipts' = receipts \cup {[type |-> "execute-node", id |-> c]}
    BY <1>1, <1>2, <1>6, <2>6, <2>9 DEF SaveCopy, NewEvents
  <2>11. Kept(run, s)
    BY <1>4, <2>2, <2>5, <2>9, CopyKeeps
  <2>12. PICK got2, k2 : got2 = receipts' /\ k2 = call'
    OBVIOUS
  <2>13. receipts \subseteq got2 /\ got2 \subseteq Receipt
    BY <1>4, <2>3, <2>10, <2>12 DEF Receipt, CommandType
  <2>14. \A e \in EventsBy(c) : Received(e, got2)
    <3>1. PICK type \in CommandType : type = "execute-node"
      BY DEF CommandType
    <3>. QED  BY <2>2, <2>10, <2>12, <3>1 DEF EventsBy, Received
  <2>15. s.status # "absent"
    BY <2>2, <2>5 DEF Kept
  <2>16. GoesOn(run, receipts, call, asking, executor, s, got2, k2, asking, executor)
    <3>1. After(run.events, s.events, EventsBy(c))
      BY <2>5, <2>9
    <3>2. \A m \in Nodes : s.attempts[m] > 0 => executor.executions[m] > 0
      BY <2>2, <2>4
    <3>3. k2 \in [Calls -> Call] /\ \A y \in Calls : k2[y] = call[y] \/ k2[y] = NoCall
      BY <1>3, <2>12
    <3>. QED  BY <1>4, <2>5, <2>11, <2>13, <2>14, <2>15, <3>1, <3>2, <3>3 DEF GoesOn
  <2>17. Sound(s, got2, k2, asking, executor)
    BY <2>16, StepSound DEF IInv
  <2>. QED  BY <1>2, <2>10, <2>11, <2>12, <2>17 DEF SoundStep, IInv
<1>. QED  BY <1>5, <1>6

-----------------------------------------------------------------------------
(* The theorems *)

LEMMA InitSound == Init => IInv
<1> SUFFICES ASSUME Init PROVE IInv
  OBVIOUS
<1>1. RunOK(run) /\ run.events = <<>> /\ \A n \in Nodes : run.attempts[n] = 0
  BY AbsentIs, UntouchedOK DEF Init
<1>2. NoCall \in Call
  BY AbsentIs DEF NoCall, Call
<1>3. executor \in Executor /\ executor.told = {}
  BY DEF Init, Executor
<1>. QED  BY <1>1, <1>2, <1>3 DEF Init, IInv, Sound

LEMMA NextSound ==
  ASSUME IInv, [Next]_vars
  PROVE  SoundStep
<1>1. CASE UNCHANGED vars
  <2>1. /\ run' = run /\ receipts' = receipts /\ call' = call /\ asking' = asking /\ executor' = executor
    BY <1>1 DEF vars
  <2>. QED  BY <2>1, KeptSame DEF SoundStep, IInv
<1>2. \A type \in CommandType, n \in Nodes : IdsFor(type, n) \subseteq CommandIds[type]
  BY DEF IdsFor
<1>3. CASE \E input \in Inputs : CreateRun(input)
  BY <1>3, CreateStep
<1>4. ASSUME NEW n \in Nodes, NEW result \in Results, NEW c \in IdsFor("complete-node", n), CompleteNode(n, result, c)
      PROVE  SoundStep
  BY <1>2, <1>4, CompleteStep DEF CommandType
<1>5. ASSUME NEW n \in Nodes, NEW retryable \in BOOLEAN, NEW c \in IdsFor("fail-node", n), ReportFailure(n, retryable, c)
      PROVE  SoundStep
  BY <1>2, <1>5, FailStep DEF CommandType
<1>6. ASSUME NEW n \in Nodes, NEW c \in IdsFor("skip-node", n), Skip(n, c)
      PROVE  SoundStep
  BY <1>2, <1>6, SkipStep DEF CommandType
<1>7. ASSUME NEW n \in Nodes, NEW c \in IdsFor("confirm-cancel", n), ConfirmCancel(n, c)
      PROVE  SoundStep
  BY <1>2, <1>7, ConfirmStep DEF CommandType
<1>8. ASSUME NEW n \in Nodes, NEW delivered \in BOOLEAN, AskToStop(n, delivered)
      PROVE  SoundStep
  BY <1>8, AskStep
<1>9. ASSUME NEW n \in Nodes, NEW c \in IdsFor("execute-node", n), RejectInput(n, c)
      PROVE  SoundStep
  BY <1>2, <1>9, RejectStep DEF CommandType
<1>10. ASSUME NEW n \in Nodes, NEW x \in Calls, NEW c \in IdsFor("execute-node", n), Execute(x, n, c)
       PROVE  SoundStep
  BY <1>10, ExecuteStep
<1>11. CASE \E c \in CommandIds["cancel"] : Cancel(c)
  BY <1>11, CancelStep
<1>12. CASE CancelDies
  BY <1>12, CancelDiesStep
<1>13. CASE \E x \in Calls : ExecuteDies(x)
  BY <1>13, ExecuteDiesStep
<1>14. CASE \E x \in Calls, outcome \in Outcome : Finish(x, outcome)
  BY <1>14, FinishStep
<1>. QED  BY <1>1, <1>3, <1>4, <1>5, <1>6, <1>7, <1>8, <1>9, <1>10, <1>11, <1>12, <1>13, <1>14 DEF Next

\* The inductive invariant: the run is sound, and every call under way holds a
\* sound copy of an earlier run, whose command has logged nothing but starts.
THEOREM RunInvariant == Spec => []IInv
<1>1. IInv /\ [Next]_vars => IInv'
  BY NextSound DEF SoundStep
<1>. QED  BY <1>1, InitSound, PTL DEF Spec

LEMMA OutputsAreLeft ==
  ASSUME NEW r, NEW n
  PROVE  Outputs(r, n) = Left(r.events, n)
BY DEF Outputs, Left

\* Status, nodes, event log and executors of a run agree although calls save
\* old copies of it.
THEOREM RunStaysConsistent == Spec => []RunConsistent
<1>1. IInv => RunConsistent
  <2> SUFFICES ASSUME IInv PROVE RunConsistent
    OBVIOUS
  <2>1. /\ RunOK(run) /\ run \in Run /\ NodesOK(run) /\ StatusOK(run) /\ LogOK(run.events, run.node, run.result)
    BY DEF IInv, Sound, RunOK
  <2>2. TypeOK
    BY <2>1 DEF IInv, Sound, NodesOK, TypeOK
  <2>3. ToldIsCancelling
    BY DEF IInv, Sound, ToldIsCancelling
  <2>4. DependenciesHonoured
    <3>1. \A e \in Edges : e[1] \in Nodes
      BY VersionAssumption DEF ValidVersion
    <3>2. \A e \in Edges : run.node[e[1]] = "succeeded" => Outputs(run, e[1]) = run.result[e[1]]
      BY <2>1, <3>1, OutputsAreLeft DEF LogOK
    <3>. QED  BY <2>1, <3>2 DEF NodesOK, DependenciesHonoured
  <2>5. StatusTellsNodes
    BY <2>1 DEF StatusOK, Finished, StatusTellsNodes
  <2>6. LogTellsNodes
    <3> SUFFICES ASSUME NEW n \in Nodes, NEW at, at = {i \in DOMAIN run.events : IsNodeEvent(run.events[i], n)}
                 PROVE  IF at = {} THEN run.node[n] = "queued"
                        ELSE \A i \in at : (\A j \in at : j <= i) => run.node[n] \in SaysOf(run.events[i].type)
      BY DEF LogTellsNodes
    <3>1. Tells(run.events, n, run.node[n])
      BY <2>1 DEF LogOK
    <3>. QED  BY <3>1 DEF Tells
  <2>. QED  BY <2>2, <2>3, <2>4, <2>5, <2>6 DEF RunConsistent
<1>. QED  BY <1>1, RunInvariant, PTL

\* A cancellation that has been committed is not lost.
THEOREM CancellationIsKept == Spec => CancellationKept
<1> DEFINE Keeps == /\ run.status = "cancel_requested" => run'.status \in {"cancel_requested", "cancelled"}
                    /\ run.status = "cancelled" => run'.status = "cancelled"
                    /\ \A n \in Nodes :
                         /\ run.node[n] = "cancel_requested" => run'.node[n] \in {"cancel_requested", "cancelled"}
                         /\ run.node[n] = "cancelled" => run'.node[n] = "cancelled"
<1>1. IInv /\ [Next]_vars => [Keeps]_vars
  BY NextSound DEF SoundStep, Kept
<1>. QED  BY <1>1, RunInvariant, PTL DEF Spec, CancellationKept

\* What a node succeeded with is never replaced.
THEOREM ResultStaysFinal == Spec => ResultIsFinal
<1> DEFINE Final == \A n \in Nodes : run.node[n] = "succeeded" =>
                      /\ run'.node[n] = "succeeded"
                      /\ run'.result[n] = run.result[n]
                      /\ Outputs(run', n) = Outputs(run, n)
<1>1. IInv /\ [Next]_vars => [Final]_vars
  <2> SUFFICES ASSUME IInv, [Next]_vars, NEW n \in Nodes, run.node[n] = "succeeded"
               PROVE  /\ run'.node[n] = "succeeded" /\ run'.result[n] = run.result[n]
                      /\ Outputs(run', n) = Outputs(run, n)
    OBVIOUS
  <2>1. SoundStep
    BY NextSound
  <2>2. PICK r, s : r = run /\ s = run'
    OBVIOUS
  <2>3. RunOK(r) /\ RunOK(s) /\ Kept(r, s) /\ r.node[n] = "succeeded"
    BY <2>1, <2>2 DEF SoundStep, IInv, Sound
  <2>4. /\ s.node[n] = "succeeded" /\ s.result[n] = r.result[n]
        /\ s.result[n] = Left(s.events, n) /\ r.result[n] = Left(r.events, n)
    BY <2>3 DEF Kept, RunOK, LogOK
  <2>5. Outputs(s, n) = Outputs(r, n)
    BY <2>4, OutputsAreLeft
  <2>. QED  BY <2>2, <2>4, <2>5
<1>. QED  BY <1>1, RunInvariant, PTL DEF Spec, ResultIsFinal
=============================================================================
