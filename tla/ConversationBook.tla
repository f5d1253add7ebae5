-------------------------- MODULE ConversationBook --------------------------
(***************************************************************************)
(* The conversations of all owners and the requests that create, list,     *)
(* read, pin, name, extend and delete them.  A request is a session of the *)
(* database: it resolves the conversation in the scope of its principal    *)
(* and goes on in later statements, between which other sessions commit.   *)
(* A statement that needs one row lock and commits at once is one step;    *)
(* update_pinned keeps the lock of its owner and of its row over several.  *)
(***************************************************************************)
EXTENDS Integers, Sequences, FiniteSets

CONSTANTS
  Owners,
  Ids,          \* conversation ids; numbers, because lists are ordered by them
  Sessions,
  NoSession,
  PinLimit,     \* pinned_conversation_limit
  PageSize,     \* limit of a page
  MaxMessages,  \* ContextPolicy.max_messages
  MaxCost,      \* ContextBudget.max_cost
  Costs,        \* lengths a message may have
  Books,        \* what the tables may hold when the observation starts
  MaxClock      \* bound on the clock

ASSUME BookAssumption ==
  /\ Owners # {}
  /\ Ids \subseteq Nat /\ Ids # {} /\ IsFiniteSet(Ids)
  /\ NoSession \notin Sessions
  /\ PinLimit \in Nat \ {0} /\ PageSize \in Nat \ {0}
  /\ MaxMessages \in Nat \ {0} /\ MaxCost \in Nat \ {0}
  /\ Costs \subseteq Nat \ {0} /\ MaxClock \in Nat

VARIABLES
  book,       \* conversation and conversation_message
  ownerLock,  \* pg_advisory_xact_lock of an owner
  rowLock,    \* FOR UPDATE locks kept between two statements
  ses,        \* the sessions
  clock,
  touched     \* history: conversations changed since a session began to list

vars == <<book, ownerLock, rowLock, ses, clock, touched>>

Summary == {"none", "generated", "given"}

\* A row and the lengths of its messages by sequence; "unborn" and "deleted"
\* ids have no row.
Conversation ==
  [row : {"unborn", "stored", "deleted"}, owner : Owners, summary : Summary,
   pinned : BOOLEAN, updated : Nat, messages : Seq(Costs)]

ASSUME BooksAssumption ==
  \A b \in Books : b \in [Ids -> Conversation] /\ \A c \in Ids : b[c].updated <= 1

Step == {"idle", "lock_owner", "lock_row", "pin", "rename", "delete", "append",
         "title", "context", "history", "list", "done", "dead"}

\* A line of the list, and the cursor after it.
Line == [pinned : BOOLEAN, updated : Nat, id : Ids]

Session ==
  [at : Step,
   job : Step,          \* the step the request began with
   who : Owners,        \* principal.subject
   id : Ids,            \* the conversation it is about
   flag : BOOLEAN,      \* pin or unpin, name or clear
   mark : Nat,          \* sequence a page or the window is limited by
   cursor : Seq(Line),  \* of the next page of a list, if any
   base : Nat,          \* history: messages there were when reading began
   seen : Seq(Nat)]     \* what the request has read

Idle == [at |-> "idle", job |-> "idle", who |-> CHOOSE o \in Owners : TRUE,
         id |-> CHOOSE i \in Ids : TRUE, flag |-> FALSE, mark |-> 0, cursor |-> <<>>, base |-> 0, seen |-> <<>>]

Pinned(o) == {c \in Ids : book[c].row = "stored" /\ book[c].owner = o /\ book[c].pinned}

\* The tables hold a book the service could have written.
Init ==
  /\ book \in Books
  /\ \A o \in Owners : Cardinality(Pinned(o)) <= PinLimit
  /\ ownerLock = [o \in Owners |-> NoSession]
  /\ rowLock = [c \in Ids |-> NoSession]
  /\ ses = [s \in Sessions |-> Idle]
  /\ clock = 1
  /\ touched = [s \in Sessions |-> {}]

Stored(c) == book[c].row = "stored"

Goto(s, at) == ses' = [ses EXCEPT ![s].at = at]

\* A commit that changes the row of c.
Write(c, conversation) ==
  /\ book' = [book EXCEPT ![c] = conversation]
  /\ touched' = [s \in Sessions |->
                   IF ses[s].job = "list" THEN touched[s] \cup {c} ELSE touched[s]]

Locks == <<ownerLock, rowLock>>

-----------------------------------------------------------------------------
(* Creating and resolving *)

\* access.create
Create(s, who) ==
  /\ ses[s].at = "idle"
  /\ \E c \in Ids :
       /\ book[c].row = "unborn"
       /\ Write(c, [row |-> "stored", owner |-> who, summary |-> "none",
                    pinned |-> FALSE, updated |-> clock, messages |-> <<>>])
  /\ Goto(s, "done")
  /\ UNCHANGED <<Locks, clock>>

\* Mutation: the owner of the conversation is not looked at.
OwnedByAnyone(who, c) == Stored(c)

\* get_owned_conversation
Owned(who, c) == Stored(c) /\ book[c].owner = who

\* access.resolve at the head of every request but create and list: a request
\* for a conversation out of scope ends here.
Resolve(s, who, c, first, flag) ==
  /\ ses[s].at = "idle"
  /\ ses' = [ses EXCEPT ![s] =
       IF Owned(who, c)
       THEN [Idle EXCEPT !.at = first, !.job = first, !.who = who, !.id = c, !.flag = flag,
                         !.base = IF first = "history" THEN Len(book[c].messages) ELSE 0]
       ELSE [Idle EXCEPT !.at = "done"]]
  /\ UNCHANGED <<book, Locks, clock, touched>>

-----------------------------------------------------------------------------
(* update_pinned *)

\* The transaction of s ends and its locks with it.
Release(s) ==
  /\ ownerLock' = [o \in Owners |-> IF ownerLock[o] = s THEN NoSession ELSE ownerLock[o]]
  /\ rowLock' = [c \in Ids |-> IF rowLock[c] = s THEN NoSession ELSE rowLock[c]]

\* Mutation: pinning without the lock of the owner.
LockOwnerNot(s) ==
  /\ ses[s].at = "lock_owner"
  /\ Goto(s, "lock_row")
  /\ UNCHANGED <<book, Locks, clock, touched>>

LockOwner(s) ==
  /\ ses[s].at = "lock_owner"
  /\ ownerLock[ses[s].who] = NoSession
  /\ ownerLock' = [ownerLock EXCEPT ![ses[s].who] = s]
  /\ Goto(s, "lock_row")
  /\ UNCHANGED <<book, rowLock, clock, touched>>

\* Nothing to do: the row is gone, it is as requested, or the limit is reached.
PinEnds(s) ==
  LET c == ses[s].id IN
  \/ ~Owned(ses[s].who, c)
  \/ book[c].pinned = ses[s].flag
  \/ ses[s].flag /\ Cardinality(Pinned(ses[s].who)) >= PinLimit

\* Mutation: a lock of the session instead of the transaction; a request that
\* is refused keeps it.
LockRowKeepsOwner(s) ==
  /\ ses[s].at = "lock_row"
  /\ rowLock[ses[s].id] = NoSession
  /\ IF PinEnds(s)
     THEN Goto(s, "done") /\ UNCHANGED Locks
     ELSE /\ rowLock' = [rowLock EXCEPT ![ses[s].id] = s]
          /\ Goto(s, "pin")
          /\ UNCHANGED ownerLock
  /\ UNCHANGED <<book, clock, touched>>

\* The row is read under its lock and the pinned rows of the owner counted.
LockRow(s) ==
  /\ ses[s].at = "lock_row"
  /\ rowLock[ses[s].id] = NoSession
  /\ IF PinEnds(s)
     THEN Goto(s, "done") /\ Release(s)
     ELSE /\ rowLock' = [rowLock EXCEPT ![ses[s].id] = s]
          /\ Goto(s, "pin")
          /\ UNCHANGED ownerLock
  /\ UNCHANGED <<book, clock, touched>>

\* updated_at stays as it is.
Pin(s) ==
  /\ ses[s].at = "pin"
  /\ Write(ses[s].id, [book[ses[s].id] EXCEPT !.pinned = ses[s].flag])
  /\ Release(s)
  /\ Goto(s, "done")
  /\ UNCHANGED clock

-----------------------------------------------------------------------------
(* Writes of one row *)

\* Under the row lock; a row deleted since it was resolved is not found.
Writes(s, at, after, conversation) ==
  /\ ses[s].at = at
  /\ rowLock[ses[s].id] = NoSession
  /\ IF Stored(ses[s].id)
     THEN Write(ses[s].id, conversation) /\ Goto(s, after)
     ELSE Goto(s, "done") /\ UNCHANGED <<book, touched>>
  /\ UNCHANGED <<Locks, clock>>

\* update_topic_summary: the owner gives a name or clears it.
Rename(s) ==
  Writes(s, "rename", "done",
         [book[ses[s].id] EXCEPT !.summary = IF ses[s].flag THEN "given" ELSE "none",
                                 !.updated = clock])

\* Messages and events go with the row.
Delete(s) ==
  Writes(s, "delete", "done", [book[ses[s].id] EXCEPT !.row = "deleted", !.messages = <<>>])

\* append_message of a user message: the row lock orders the sequence numbers,
\* and the first message is to give the conversation a name.
AppendMessage(s, cost) ==
  LET c == ses[s].id
      sequence == Len(book[c].messages) + 1
  IN  /\ ses[s].at = "append"
      /\ rowLock[c] = NoSession
      /\ IF Stored(c)
         THEN /\ Write(c, [book[c] EXCEPT !.messages = Append(@, cost), !.updated = clock])
              /\ ses' = [ses EXCEPT ![s].at = IF sequence = 1 THEN "title" ELSE "context",
                                    ![s].mark = sequence]
         ELSE Goto(s, "done") /\ UNCHANGED <<book, touched>>
      /\ UNCHANGED <<Locks, clock>>

\* Mutation: the generated name replaces whatever is there.
TitleAnyway(s) ==
  /\ ses[s].at = "title"
  /\ rowLock[ses[s].id] = NoSession
  /\ Goto(s, "context")
  /\ IF Stored(ses[s].id)
     THEN Write(ses[s].id, [book[ses[s].id] EXCEPT !.summary = "generated", !.updated = clock])
     ELSE UNCHANGED <<book, touched>>
  /\ UNCHANGED <<Locks, clock>>

\* update_topic_summary_if_empty, a transaction of its own.
NameIfEmpty(c) ==
  /\ rowLock[c] = NoSession
  /\ Stored(c) /\ book[c].summary = "none"
  /\ Write(c, [book[c] EXCEPT !.summary = "generated", !.updated = clock])

\* maybe_generate_topic_summary: the rule takes a non-empty first sentence or
\* the whole line, so it has a candidate; a conversation that has a name is
\* left alone, and an error is logged and leaves the message as it is.
Title(s) ==
  /\ ses[s].at = "title"
  /\ Goto(s, "context")
  /\ NameIfEmpty(ses[s].id) \/ UNCHANGED <<book, touched>>
  /\ UNCHANGED <<Locks, clock>>

-----------------------------------------------------------------------------
(* The context of a turn: sequence numbers of the messages it is made of *)

\* read_recent_messages: the newest, up to the turn's own.
Recent(c, through) ==
  LET last == IF Len(book[c].messages) < through THEN Len(book[c].messages) ELSE through
      n == IF last < MaxMessages THEN last ELSE MaxMessages
  IN  [k \in 1..n |-> last - n + k]

\* ConversationContextBuilder.build: from the newest message back while the
\* budget lasts.  Empty: the newest alone is over it, an error.
Selected(c, window) ==
  LET n == Len(window)
      Spent[k \in 1..(n + 1)] ==
        IF k = n + 1 THEN 0 ELSE Spent[k + 1] + book[c].messages[window[k]]
      first == CHOOSE k \in 1..(n + 1) :
                 /\ \A j \in k..(n + 1) : Spent[j] <= MaxCost
                 /\ k = 1 \/ Spent[k - 1] > MaxCost
  IN  SubSeq(window, first, n)

BuildContext(s) ==
  /\ ses[s].at = "context"
  /\ ses' = [ses EXCEPT ![s].at = "done",
                        ![s].seen = IF Stored(ses[s].id)
                                    THEN Selected(ses[s].id, Recent(ses[s].id, ses[s].mark))
                                    ELSE <<>>]
  /\ UNCHANGED <<book, Locks, clock, touched>>

-----------------------------------------------------------------------------
(* Pages *)

\* Messages after the mark, at most a page of them.
HistoryPage(c, mark) ==
  LET to == IF mark + PageSize < Len(book[c].messages)
            THEN mark + PageSize ELSE Len(book[c].messages)
  IN  [k \in 1..(to - mark) |-> mark + k]

\* read_history; the client asks for the next page while there is more.  A
\* conversation that is gone is not found or has no messages.
ReadHistory(s) ==
  LET c == ses[s].id
      page == IF Stored(c) THEN HistoryPage(c, ses[s].mark) ELSE <<>>
      more == Stored(c) /\ Len(book[c].messages) > ses[s].mark + PageSize
  IN  /\ ses[s].at = "history"
      /\ ses' = [ses EXCEPT ![s].seen = @ \o page,
                            ![s].mark = IF more THEN page[Len(page)] ELSE @,
                            ![s].at = IF more THEN "history" ELSE "done"]
      /\ UNCHANGED <<book, Locks, clock, touched>>

\* Pinned first, then the most recently changed, then by id.
Before(p, q) ==
  \/ p.pinned /\ ~q.pinned
  \/ p.pinned = q.pinned /\ p.updated > q.updated
  \/ p.pinned = q.pinned /\ p.updated = q.updated /\ p.id > q.id

LineOf(c) == [pinned |-> book[c].pinned, updated |-> book[c].updated, id |-> c]

\* ORDER BY
Ordered(lines) ==
  [k \in 1..Cardinality(lines) |->
     CHOOSE e \in lines : Cardinality({f \in lines : Before(f, e)}) = k - 1]

\* Mutation: the cursor forgets that its line was pinned.
PastUnpinned(cursor, e) == Before([cursor EXCEPT !.pinned = FALSE], e)

\* The condition of list_owned on the cursor.
Past(cursor, e) == Before(cursor, e)

ListBegin(s, who) ==
  /\ ses[s].at = "idle"
  /\ ses' = [ses EXCEPT ![s] = [Idle EXCEPT !.at = "list", !.job = "list", !.who = who]]
  /\ UNCHANGED <<book, Locks, clock, touched>>

\* list_owned; the client sends the cursor back while there is more.
ListPage(s) ==
  LET lines == {LineOf(c) : c \in {d \in Ids : Owned(ses[s].who, d)}}
      rows == Ordered({e \in lines : \A k \in DOMAIN ses[s].cursor : Past(ses[s].cursor[k], e)})
      more == Len(rows) > PageSize
      page == IF more THEN SubSeq(rows, 1, PageSize) ELSE rows
  IN  /\ ses[s].at = "list"
      /\ ses' = [ses EXCEPT ![s].seen = @ \o [k \in DOMAIN page |-> page[k].id],
                            ![s].cursor = IF more THEN <<page[PageSize]>> ELSE <<>>,
                            ![s].at = IF more THEN "list" ELSE "done"]
      /\ UNCHANGED <<book, Locks, clock, touched>>

-----------------------------------------------------------------------------

\* A session ends in the middle: its transaction is rolled back.
Die(s) ==
  /\ ses[s].at \notin {"idle", "done", "dead"}
  /\ Goto(s, "dead")
  /\ Release(s)
  /\ UNCHANGED <<book, clock, touched>>

Tick ==
  /\ clock < MaxClock
  /\ clock' = clock + 1
  /\ UNCHANGED <<book, Locks, ses, touched>>

\* Starting a request is up to the client.
Request(s) ==
  \E who \in Owners :
    \/ Create(s, who) \/ ListBegin(s, who)
    \/ \E c \in Ids :
         \/ \E first \in {"lock_owner", "rename"}, flag \in BOOLEAN : Resolve(s, who, c, first, flag)
         \/ \E first \in {"delete", "append", "history"} : Resolve(s, who, c, first, FALSE)

\* The next statement of a request under way.
Statement(s) ==
  \/ LockOwner(s) \/ LockRow(s) \/ Pin(s)
  \/ Rename(s) \/ Delete(s) \/ (\E cost \in Costs : AppendMessage(s, cost)) \/ Title(s)
  \/ BuildContext(s) \/ ReadHistory(s) \/ ListPage(s)

Next ==
  \/ \E s \in Sessions : Request(s) \/ Statement(s) \/ Die(s)
  \/ Tick

\* The database executes the statements it is given.
Fairness == \A s \in Sessions : WF_vars(Statement(s))

Spec == Init /\ [][Next]_vars /\ Fairness

-----------------------------------------------------------------------------
(* Properties *)

\* Every variable has its type, and no row is dated ahead of the clock.
TypeOK ==
  /\ book \in [Ids -> Conversation]
  /\ ownerLock \in [Owners -> Sessions \cup {NoSession}]
  /\ rowLock \in [Ids -> Sessions \cup {NoSession}]
  /\ ses \in [Sessions -> Session]
  /\ clock \in Nat
  /\ touched \in [Sessions -> SUBSET Ids]
  /\ \A c \in Ids : book[c].updated <= clock

\* An owner never has more conversations pinned than the limit, however many
\* requests count and pin at the same time (update_pinned).
PinLimitKept == \A o \in Owners : Cardinality(Pinned(o)) <= PinLimit

\* Whatever changes a conversation is the step of a session of its owner,
\* although only resolve() looks at the owner and the writes come later.
OwnerActsAlone ==
  [][ \A c \in Ids : \A s \in Sessions :
        Stored(c) /\ book'[c] # book[c] /\ ses'[s] # ses[s]
        => ses[s].who = book[c].owner ]_vars

\* A name that the owner gave is changed by a renaming only: the name made
\* from the first message never replaces it, however late it comes.
GivenNameStays ==
  [][ \A c \in Ids :
        Stored(c) /\ book[c].summary = "given" /\ book'[c].summary # "given"
        => \E s \in Sessions : ses[s].at = "rename" /\ ses[s].id = c /\ ses'[s].at = "done" ]_vars

\* A client that follows the cursors to the end has seen every conversation
\* that was not changed meanwhile, once and in list order.
ListIsComplete ==
  \A s \in Sessions : ses[s].job = "list" /\ ses[s].at = "done" =>
    LET still == {c \in Ids : Owned(ses[s].who, c)} \ touched[s]
        seen == ses[s].seen
    IN  /\ \A c \in still : \E k \in DOMAIN seen : seen[k] = c
        /\ \A i, k \in DOMAIN seen :
             i < k /\ {seen[i], seen[k]} \subseteq still
             => Before(LineOf(seen[i]), LineOf(seen[k]))

\* A client that follows the pages of a history has read every message that
\* was there when it began, in order and without a gap, whatever is appended
\* meanwhile.
HistoryIsComplete ==
  \A s \in Sessions :
    ses[s].job = "history" /\ ses[s].at = "done" /\ Stored(ses[s].id) =>
      /\ Len(ses[s].seen) >= ses[s].base
      /\ \A k \in DOMAIN ses[s].seen : ses[s].seen[k] = k

\* What a run of messages costs.
CostOf(c, from, to) ==
  LET Sum[k \in (from - 1)..to] == IF k = from - 1 THEN 0 ELSE Sum[k - 1] + book[c].messages[k]
  IN  Sum[to]

\* The context of a turn is the longest run of messages that ends with the
\* turn's own, keeps both limits and leaves nothing out in between; it is
\* empty exactly when the turn's own message is over the budget.
ContextIsLongest ==
  \A s \in Sessions :
    ses[s].job = "append" /\ ses[s].at = "done" /\ Stored(ses[s].id) /\ ses[s].mark > 0 =>
      LET c == ses[s].id
          n == Len(ses[s].seen)
          from == ses[s].mark - n + 1
      IN  /\ \A k \in 1..n : ses[s].seen[k] = from + k - 1
          /\ n <= MaxMessages
          /\ CostOf(c, from, ses[s].mark) <= MaxCost
          /\ from > 1 /\ n < MaxMessages => CostOf(c, from - 1, ses[s].mark) > MaxCost

\* Every request ends: nobody waits for ever for the lock of an owner or of
\* a row, whoever is refused or dies.
RequestsEnd ==
  \A s \in Sessions : ses[s].at # "idle" ~> ses[s].at \in {"done", "dead"}

\* What a client pages through and what a turn reads is complete, in order and
\* within its limits, although others write between the statements.
ReadsSound ==
  /\ TypeOK
  /\ ListIsComplete
  /\ HistoryIsComplete
  /\ ContextIsLongest
=============================================================================
