------------------------- MODULE ConversationProofs -------------------------
(***************************************************************************)
(* Theorems about conversations.  First ConversationBook, for any number   *)
(* of owners, conversations and sessions: the pin limit, the isolation of  *)
(* owners, the names they give, and that lists, histories and contexts are *)
(* read completely.  Then TurnCoordinator, for any number of turns:        *)
(* exclusion, the registry of lock objects and the lock the coordinator    *)
(* implements.                                                             *)
(***************************************************************************)
EXTENDS ConversationBook, TurnCoordinator, FiniteSetTheorems, WellFoundedInduction, TLAPS

Fields == {"at", "job", "who", "id", "flag", "mark", "cursor", "base", "seen"}

\* Steps of a request that may still write to its conversation.
Busy == {"lock_owner", "lock_row", "pin", "rename", "delete", "append", "title"}

TablesOK ==
  /\ book \in [Ids -> Conversation]
  /\ clock \in Nat
  /\ ownerLock \in [Owners -> Sessions \cup {NoSession}]
  /\ rowLock \in [Ids -> Sessions \cup {NoSession}]

SessionsOK ==
  /\ DOMAIN ses = Sessions
  /\ \A s \in Sessions :
       /\ DOMAIN ses[s] = Fields
       /\ ses[s].at \in Step
       /\ ses[s].who \in Owners
       /\ ses[s].id \in Ids
       /\ ses[s].flag \in BOOLEAN

\* A request writes to a conversation of its own principal.
Target(s) ==
  ses[s].at \in Busy
    => book[ses[s].id].row # "unborn" /\ book[ses[s].id].owner = ses[s].who

\* Who pins holds the lock of the owner, and from the count to the commit
\* nobody else changes the row or adds to the pinned ones.
Holder(s) ==
  /\ ses[s].at \in {"lock_row", "pin"} => ownerLock[ses[s].who] = s
  /\ ses[s].at = "pin" =>
       /\ rowLock[ses[s].id] = s
       /\ book[ses[s].id].row = "stored"
       /\ ses[s].flag =>
            \A o \in Owners : o = ses[s].who => Cardinality(Pinned(o)) < PinLimit

IInv ==
  /\ TablesOK
  /\ SessionsOK
  /\ \A s \in Sessions : Target(s) /\ Holder(s)
  /\ PinLimitKept

-----------------------------------------------------------------------------
(* Sessions *)

\* Session s goes to step x and keeps principal, conversation and flag; the
\* others do not move.
Moves(s, x) ==
  /\ SessionsOK'
  /\ \A t \in Sessions \ {s} : ses'[t] = ses[t]
  /\ ses'[s].at = x
  /\ ses'[s].who = ses[s].who
  /\ ses'[s].id = ses[s].id
  /\ ses'[s].flag = ses[s].flag

LEMMA GotoMoves ==
  ASSUME SessionsOK, NEW s \in Sessions, NEW x \in Step, Goto(s, x)
  PROVE  Moves(s, x)
BY DEF SessionsOK, Goto, Moves, Fields

LEMMA IdleTyped ==
  /\ DOMAIN Idle = Fields
  /\ Idle.who \in Owners
  /\ Idle.id \in Ids
  /\ Idle.flag = FALSE
  /\ Idle.at = "idle"
<1>1. /\ (CHOOSE o \in Owners : TRUE) \in Owners
      /\ (CHOOSE i \in Ids : TRUE) \in Ids
  BY BookAssumption
<1> QED  BY <1>1 DEF Idle, Fields

-----------------------------------------------------------------------------
(* Pinned conversations *)

LEMMA PinnedFinite ==
  ASSUME NEW o
  PROVE  IsFiniteSet(Pinned(o)) /\ Cardinality(Pinned(o)) \in Nat
BY BookAssumption, FS_Subset, FS_CardinalityType DEF Pinned

LEMMA FewerPinned ==
  ASSUME NEW o, Pinned(o)' \subseteq Pinned(o)
  PROVE  Cardinality(Pinned(o)') \in Nat /\ Cardinality(Pinned(o)') <= Cardinality(Pinned(o))
BY PinnedFinite, FS_Subset, FS_CardinalityType

LEMMA OneMore ==
  ASSUME NEW S, IsFiniteSet(S), NEW e
  PROVE  /\ IsFiniteSet(S \cup {e})
         /\ Cardinality(S) \in Nat
         /\ Cardinality(S \cup {e}) \in Nat
         /\ Cardinality(S \cup {e}) <= Cardinality(S) + 1
<1>1. Cardinality(S) \in Nat
  BY FS_CardinalityType
<1>2. IsFiniteSet(S \cup {e})
  BY FS_AddElement
<1>3. Cardinality(S \cup {e}) = IF e \in S THEN Cardinality(S) ELSE Cardinality(S) + 1
  BY FS_AddElement
<1> QED  BY <1>1, <1>2, <1>3

-----------------------------------------------------------------------------
(* The kinds of steps *)

\* Tables and locks stay; a session goes to a step without a lock.
LEMMA QuietStep ==
  ASSUME IInv, NEW s \in Sessions, NEW x \in Step \ {"lock_row", "pin"}, SessionsOK',
         \A t \in Sessions \ {s} : ses'[t] = ses[t],
         ses'[s].at = x,
         x \in Busy => Target(s)',
         UNCHANGED <<book, ownerLock, rowLock>>, clock' \in Nat
  PROVE  IInv'
<1>1. TablesOK'
  BY DEF IInv, TablesOK
<1>2. \A o : Pinned(o)' = Pinned(o)
  BY DEF Pinned
<1>3. PinLimitKept'
  BY <1>2 DEF IInv, PinLimitKept
<1>4. \A t \in Sessions : Target(t)'
  <2> SUFFICES ASSUME NEW t \in Sessions PROVE Target(t)'
    OBVIOUS
  <2>1. CASE t = s
    BY <2>1 DEF Target
  <2>2. CASE t # s
    BY <2>2 DEF IInv, Target
  <2> QED  BY <2>1, <2>2
<1>5. \A t \in Sessions : Holder(t)'
  <2> SUFFICES ASSUME NEW t \in Sessions PROVE Holder(t)'
    OBVIOUS
  <2>1. CASE t = s
    BY <2>1 DEF Holder
  <2>2. CASE t # s
    BY <2>2, <1>2 DEF IInv, Holder
  <2> QED  BY <2>1, <2>2
<1> QED  BY <1>1, <1>3, <1>4, <1>5 DEF IInv

\* The row v is pinned only if the row of c is.
NoNewPin(c, v) ==
  v.row = "stored" /\ v.pinned => book[c].row = "stored" /\ book[c].pinned

\* One row is written that nobody is about to pin, and nothing becomes pinned.
LEMMA RowStep ==
  ASSUME IInv, NEW s \in Sessions, NEW c \in Ids, NEW v \in Conversation,
         NEW x \in Step \ {"lock_row", "pin"}, SessionsOK',
         \A t \in Sessions \ {s} : ses'[t] = ses[t],
         ses'[s].at = x,
         x \in Busy => ses'[s].id = c /\ ses'[s].who = v.owner,
         \A t \in Sessions : ses[t].at = "pin" => ses[t].id # c,
         book' = [book EXCEPT ![c] = v],
         v.row # "unborn",
         book[c].row # "unborn" => v.owner = book[c].owner,
         NoNewPin(c, v),
         UNCHANGED <<ownerLock, rowLock, clock>>
  PROVE  IInv'
<1>1. TablesOK'
  BY DEF IInv, TablesOK
<1>2. /\ book'[c] = v
      /\ \A d \in Ids : d # c => book'[d] = book[d]
  BY DEF IInv, TablesOK
<1>3. \A o : Pinned(o)' \subseteq Pinned(o)
  <2> SUFFICES ASSUME NEW o, NEW d \in Pinned(o)' PROVE d \in Pinned(o)
    OBVIOUS
  <2>1. CASE d = c
    BY <2>1, <1>2 DEF Pinned, NoNewPin
  <2>2. CASE d # c
    BY <2>2, <1>2 DEF Pinned
  <2> QED  BY <2>1, <2>2
<1>4. PinLimitKept'
  <2> SUFFICES ASSUME NEW o \in Owners PROVE Cardinality(Pinned(o)') <= PinLimit
    BY DEF PinLimitKept, Pinned
  <2>1. Cardinality(Pinned(o)') \in Nat /\ Cardinality(Pinned(o)') <= Cardinality(Pinned(o))
    BY <1>3, FewerPinned
  <2>2. Cardinality(Pinned(o)) \in Nat /\ Cardinality(Pinned(o)) <= PinLimit
    BY PinnedFinite DEF IInv, PinLimitKept
  <2> QED  BY <2>1, <2>2, BookAssumption
<1>5. \A t \in Sessions : Target(t)'
  <2> SUFFICES ASSUME NEW t \in Sessions, ses'[t].at \in Busy
               PROVE  book'[ses'[t].id].row # "unborn" /\ book'[ses'[t].id].owner = ses'[t].who
    BY DEF Target
  <2>1. CASE t = s
    BY <2>1, <1>2
  <2>2. CASE t # s
    <3>1. ses'[t] = ses[t] /\ ses[t].id \in Ids
      BY <2>2 DEF IInv, SessionsOK
    <3>2. book[ses[t].id].row # "unborn" /\ book[ses[t].id].owner = ses[t].who
      BY <3>1 DEF IInv, Target
    <3> QED  BY <3>1, <3>2, <1>2
  <2> QED  BY <2>1, <2>2
<1>6. \A t \in Sessions : Holder(t)'
  <2> SUFFICES ASSUME NEW t \in Sessions PROVE Holder(t)'
    OBVIOUS
  <2>1. CASE t = s
    BY <2>1 DEF Holder
  <2>2. CASE t # s
    <3>1. /\ ses'[t] = ses[t] /\ ses[t].id \in Ids /\ ses[t].who \in Owners
          /\ Holder(t)
      BY <2>2 DEF IInv, SessionsOK
    <3>2. ses[t].at = "pin" => book'[ses[t].id] = book[ses[t].id]
      BY <3>1, <1>2
    <3>3. ASSUME ses[t].at = "pin", ses[t].flag, NEW o \in Owners, o = ses[t].who
          PROVE  Cardinality(Pinned(o)') < PinLimit
      <4>1. Cardinality(Pinned(o)') \in Nat /\ Cardinality(Pinned(o)') <= Cardinality(Pinned(o))
        BY <1>3, FewerPinned
      <4>2. Cardinality(Pinned(o)) \in Nat /\ Cardinality(Pinned(o)) < PinLimit
        BY <3>1, <3>3, PinnedFinite DEF Holder
      <4> QED  BY <4>1, <4>2, BookAssumption
    <3> QED  BY <3>1, <3>2, <3>3 DEF Holder
  <2> QED  BY <2>1, <2>2
<1> QED  BY <1>1, <1>4, <1>5, <1>6 DEF IInv

\* The transaction of a session ends without a write.
LEMMA ReleaseStep ==
  ASSUME IInv, NEW s \in Sessions, NEW x \in {"done", "dead"},
         Goto(s, x), Release(s), UNCHANGED <<book, clock>>
  PROVE  IInv'
<1>1. Moves(s, x)
  BY GotoMoves DEF IInv, Step
<1>2. TablesOK'
  BY DEF IInv, TablesOK, Release
<1>3. \A o : Pinned(o)' = Pinned(o)
  BY DEF Pinned
<1>4. PinLimitKept'
  BY <1>3 DEF IInv, PinLimitKept
<1>5. \A t \in Sessions : Target(t)' /\ Holder(t)'
  <2> SUFFICES ASSUME NEW t \in Sessions PROVE Target(t)' /\ Holder(t)'
    OBVIOUS
  <2>1. CASE t = s
    BY <2>1, <1>1 DEF Moves, Target, Holder, Busy
  <2>2. CASE t # s
    <3>1. /\ ses'[t] = ses[t] /\ ses[t].id \in Ids /\ ses[t].who \in Owners
          /\ Holder(t) /\ Target(t)
      BY <2>2, <1>1 DEF IInv, SessionsOK, Moves
    <3>2. /\ ownerLock[ses[t].who] = t => ownerLock'[ses[t].who] = t
          /\ rowLock[ses[t].id] = t => rowLock'[ses[t].id] = t
      BY <3>1, <2>2 DEF Release
    <3>3. Target(t)'
      BY <3>1 DEF Target
    <3>4. Holder(t)'
      BY <3>1, <3>2, <1>3 DEF Holder
    <3> QED  BY <3>3, <3>4
  <2> QED  BY <2>1, <2>2
<1> QED  BY <1>1, <1>2, <1>4, <1>5 DEF IInv, Moves

-----------------------------------------------------------------------------
(* The actions *)

LEMMA CreateStep ==
  ASSUME IInv, NEW s \in Sessions, NEW who \in Owners, Create(s, who)
  PROVE  IInv'
<1> DEFINE new == [row |-> "stored", owner |-> who, summary |-> "none",
                   pinned |-> FALSE, updated |-> clock, messages |-> <<>>]
<1>1. PICK c \in Ids : book[c].row = "unborn" /\ book' = [book EXCEPT ![c] = new]
  BY DEF Create, Write
<1>2. new \in Conversation
  BY DEF IInv, TablesOK, Conversation, Summary
<1>3. Moves(s, "done")
  BY GotoMoves DEF IInv, Create, Step
<1>4. \A t \in Sessions : ses[t].at = "pin" => ses[t].id # c
  BY <1>1 DEF IInv, Holder
<1> HIDE DEF new
<1>5. new.row = "stored" /\ NoNewPin(c, new)
  BY DEF new, NoNewPin
<1> QED
  BY <1>1, <1>2, <1>3, <1>4, <1>5, RowStep DEF Moves, Create, Locks, Busy, Step

LEMMA ResolveStep ==
  ASSUME IInv, NEW s \in Sessions, NEW who \in Owners, NEW c \in Ids,
         NEW first \in {"lock_owner", "rename", "delete", "append", "history"},
         NEW flag \in BOOLEAN, Resolve(s, who, c, first, flag)
  PROVE  IInv'
<1>1. CASE Owned(who, c)
  <2> DEFINE r == [Idle EXCEPT !.at = first, !.job = first, !.who = who, !.id = c,
                               !.flag = flag,
                               !.base = IF first = "history" THEN Len(book[c].messages) ELSE 0]
  <2>1. ses' = [ses EXCEPT ![s] = r]
    BY <1>1 DEF Resolve
  <2>2. /\ DOMAIN r = Fields /\ r.at = first /\ r.who = who /\ r.id = c /\ r.flag = flag
    BY IdleTyped DEF Fields
  <2> HIDE DEF r
  <2>3. /\ SessionsOK' /\ ses'[s] = r
        /\ \A t \in Sessions \ {s} : ses'[t] = ses[t]
    BY <2>1, <2>2 DEF IInv, SessionsOK, Step
  <2>4. Target(s)'
    BY <1>1, <2>2, <2>3 DEF Target, Owned, Stored, Resolve
  <2> QED
    BY <2>2, <2>3, <2>4, QuietStep DEF Resolve, Locks, Step, IInv, TablesOK
<1>2. CASE ~Owned(who, c)
  <2> DEFINE r == [Idle EXCEPT !.at = "done"]
  <2>1. ses' = [ses EXCEPT ![s] = r]
    BY <1>2 DEF Resolve
  <2>2. /\ DOMAIN r = Fields /\ r.at = "done" /\ r.who \in Owners /\ r.id \in Ids
        /\ r.flag \in BOOLEAN
    BY IdleTyped DEF Fields
  <2> HIDE DEF r
  <2>3. /\ SessionsOK' /\ ses'[s] = r
        /\ \A t \in Sessions \ {s} : ses'[t] = ses[t]
    BY <2>1, <2>2 DEF IInv, SessionsOK, Step
  <2> QED
    BY <2>2, <2>3, QuietStep DEF Resolve, Locks, Step, Busy, IInv, TablesOK
<1> QED  BY <1>1, <1>2

LEMMA ListBeginStep ==
  ASSUME IInv, NEW s \in Sessions, NEW who \in Owners, ListBegin(s, who)
  PROVE  IInv'
<1> DEFINE r == [Idle EXCEPT !.at = "list", !.job = "list", !.who = who]
<1>1. ses' = [ses EXCEPT ![s] = r]
  BY DEF ListBegin
<1>2. /\ DOMAIN r = Fields /\ r.at = "list" /\ r.who \in Owners /\ r.id \in Ids
      /\ r.flag \in BOOLEAN
  BY IdleTyped DEF Fields
<1> HIDE DEF r
<1>3. /\ SessionsOK' /\ ses'[s] = r
      /\ \A t \in Sessions \ {s} : ses'[t] = ses[t]
  BY <1>1, <1>2 DEF IInv, SessionsOK, Step
<1> QED
  BY <1>2, <1>3, QuietStep DEF ListBegin, Locks, Step, Busy, IInv, TablesOK

LEMMA LockOwnerStep ==
  ASSUME IInv, NEW s \in Sessions, LockOwner(s)
  PROVE  IInv'
<1>1. Moves(s, "lock_row")
  BY GotoMoves DEF IInv, LockOwner, Step
<1>2. TablesOK'
  BY DEF IInv, TablesOK, SessionsOK, LockOwner
<1>3. \A o : Pinned(o)' = Pinned(o)
  BY DEF Pinned, LockOwner
<1>4. PinLimitKept'
  BY <1>3 DEF IInv, PinLimitKept
<1>5. \A t \in Sessions : Target(t)' /\ Holder(t)'
  <2> SUFFICES ASSUME NEW t \in Sessions PROVE Target(t)' /\ Holder(t)'
    OBVIOUS
  <2>1. ses[s].who \in Owners /\ ownerLock' = [ownerLock EXCEPT ![ses[s].who] = s]
    BY DEF IInv, SessionsOK, LockOwner
  <2>2. CASE t = s
    <3>1. Target(t)'
      BY <2>2, <1>1 DEF IInv, Moves, Target, LockOwner, Busy
    <3>2. Holder(t)'
      BY <2>1, <2>2, <1>1 DEF IInv, TablesOK, Moves, Holder
    <3> QED  BY <3>1, <3>2
  <2>3. CASE t # s
    <3>1. /\ ses'[t] = ses[t] /\ ses[t].who \in Owners /\ Holder(t) /\ Target(t)
      BY <2>3, <1>1 DEF IInv, SessionsOK, Moves
    <3>2. ownerLock[ses[t].who] = t => ownerLock'[ses[t].who] = t
      BY <2>1, <3>1, BookAssumption DEF IInv, TablesOK, LockOwner
    <3>3. Target(t)'
      BY <3>1 DEF Target, LockOwner
    <3>4. Holder(t)'
      BY <3>1, <3>2, <1>3 DEF Holder, LockOwner
    <3> QED  BY <3>3, <3>4
  <2> QED  BY <2>2, <2>3
<1> QED  BY <1>1, <1>2, <1>4, <1>5 DEF IInv, Moves

\* From the count on, the session keeps the owner lock and locks the row.
LEMMA LockRowStep ==
  ASSUME IInv, NEW s \in Sessions, LockRow(s)
  PROVE  IInv'
<1>1. CASE PinEnds(s)
  BY <1>1, ReleaseStep DEF LockRow
<1>2. CASE ~PinEnds(s)
  <2>1. Goto(s, "pin")
    BY <1>2 DEF LockRow
  <2>2. Moves(s, "pin")
    BY <2>1, GotoMoves DEF IInv, Step
  <2>3. /\ ses[s].id \in Ids /\ ses[s].who \in Owners
        /\ rowLock' = [rowLock EXCEPT ![ses[s].id] = s]
        /\ rowLock[ses[s].id] = NoSession
        /\ UNCHANGED <<book, clock, ownerLock>>
    BY <1>2 DEF IInv, SessionsOK, LockRow
  <2>4. TablesOK'
    BY <2>3 DEF IInv, TablesOK
  <2>5. \A o : Pinned(o)' = Pinned(o)
    BY <2>3 DEF Pinned
  <2>6. PinLimitKept'
    BY <2>5 DEF IInv, PinLimitKept
  <2>7. \A t \in Sessions : Target(t)' /\ Holder(t)'
    <3> SUFFICES ASSUME NEW t \in Sessions PROVE Target(t)' /\ Holder(t)'
      OBVIOUS
    <3>1. CASE t = s
      <4>1. Target(t)'
        BY <3>1, <2>2, <2>3 DEF IInv, Moves, Target, LockRow, Busy
      <4>2. ownerLock'[ses'[s].who] = s /\ rowLock'[ses'[s].id] = s
        BY <2>2, <2>3 DEF IInv, TablesOK, Moves, Holder, LockRow
      <4>3. book'[ses'[s].id].row = "stored"
        BY <1>2, <2>2, <2>3 DEF PinEnds, Owned, Stored, Moves
      <4>4. ASSUME ses[s].flag, NEW o \in Owners, o = ses[s].who
            PROVE  Cardinality(Pinned(o)) < PinLimit
        <5>1. ~(Cardinality(Pinned(o)) >= PinLimit)
          BY <1>2, <4>4 DEF PinEnds
        <5>2. Cardinality(Pinned(o)) \in Nat
          BY PinnedFinite
        <5> QED  BY <5>1, <5>2, BookAssumption
      <4>5. Holder(t)'
        BY <3>1, <4>2, <4>3, <4>4, <2>2, <2>5 DEF Holder, Moves
      <4> QED  BY <4>1, <4>5
    <3>2. CASE t # s
      <4>1. /\ ses'[t] = ses[t] /\ ses[t].id \in Ids /\ Holder(t) /\ Target(t)
        BY <3>2, <2>2 DEF IInv, SessionsOK, Moves
      <4>2. rowLock[ses[t].id] = t => rowLock'[ses[t].id] = t
        BY <2>3, <4>1, BookAssumption DEF IInv, TablesOK
      <4>3. Target(t)'
        BY <4>1, <2>3 DEF Target
      <4>4. Holder(t)'
        BY <4>1, <4>2, <2>3, <2>5 DEF Holder
      <4> QED  BY <4>3, <4>4
    <3> QED  BY <3>1, <3>2
  <2> QED  BY <2>2, <2>4, <2>6, <2>7 DEF IInv, Moves
<1> QED  BY <1>1, <1>2

\* The commit of update_pinned: at most one more is pinned, by the session
\* that counted under the lock of this owner.
LEMMA PinStep ==
  ASSUME IInv, NEW s \in Sessions, Pin(s)
  PROVE  IInv'
<1>1. PICK c \in Ids : c = ses[s].id
  BY DEF IInv, SessionsOK
<1>2. PICK w \in Owners : w = ses[s].who
  BY DEF IInv, SessionsOK
<1>3. PICK f \in BOOLEAN : f = ses[s].flag
  BY DEF IInv, SessionsOK
<1>4. Moves(s, "done")
  BY GotoMoves DEF IInv, Pin, Step
<1>5. /\ book[c].row = "stored" /\ book[c].owner = w
      /\ ownerLock[w] = s /\ rowLock[c] = s
      /\ f => Cardinality(Pinned(w)) < PinLimit
  BY <1>1, <1>2, <1>3 DEF IInv, Holder, Target, Pin, Busy
<1>6. /\ book' = [book EXCEPT ![c] = [book[c] EXCEPT !.pinned = f]]
      /\ book[c] \in Conversation /\ [book[c] EXCEPT !.pinned = f] \in Conversation
      /\ UNCHANGED clock
  <2>1. book[c] \in Conversation
    BY DEF IInv, TablesOK
  <2>2. [book[c] EXCEPT !.pinned = f] \in Conversation
    BY <2>1 DEF Conversation
  <2> QED  BY <1>1, <1>3, <2>1, <2>2 DEF Pin, Write
<1>7. TablesOK'
  BY <1>6 DEF IInv, TablesOK, Pin, Release
<1>8. /\ book'[c].row = "stored" /\ book'[c].owner = w
      /\ \A d \in Ids : d # c => book'[d] = book[d]
  BY <1>5, <1>6 DEF IInv, TablesOK, Conversation
<1>9. \A o \in Owners : o # w => Pinned(o)' = Pinned(o)
  BY <1>5, <1>8 DEF Pinned
<1>10. Pinned(w)' \subseteq Pinned(w) \cup {c}
  BY <1>8 DEF Pinned
<1>11. ~f => Pinned(w)' \subseteq Pinned(w)
  <2>1. book'[c].pinned = f
    BY <1>6 DEF IInv, TablesOK, Conversation
  <2> QED  BY <2>1, <1>8 DEF Pinned
<1>12. PinLimitKept'
  <2> SUFFICES ASSUME NEW o \in Owners PROVE Cardinality(Pinned(o)') <= PinLimit
    BY DEF PinLimitKept, Pinned
  <2>1. Cardinality(Pinned(o)) \in Nat /\ Cardinality(Pinned(o)) <= PinLimit
        /\ IsFiniteSet(Pinned(o))
    BY PinnedFinite DEF IInv, PinLimitKept
  <2>2. CASE o # w
    BY <2>1, <2>2, <1>9
  <2>3. CASE o = w /\ ~f
    BY <2>1, <2>3, <1>11, FewerPinned, BookAssumption
  <2>4. CASE o = w /\ f
    <3>1. /\ IsFiniteSet(Pinned(o) \cup {c})
          /\ Cardinality(Pinned(o) \cup {c}) <= Cardinality(Pinned(o)) + 1
          /\ Cardinality(Pinned(o) \cup {c}) \in Nat
      BY <2>1, OneMore
    <3>2. Cardinality(Pinned(o)') <= Cardinality(Pinned(o) \cup {c})
          /\ Cardinality(Pinned(o)') \in Nat
      BY <3>1, <2>4, <1>10, FS_Subset, FS_CardinalityType
    <3>3. Cardinality(Pinned(o)) < PinLimit
      BY <2>4, <1>5
    <3> QED  BY <2>1, <3>1, <3>2, <3>3, BookAssumption
  <2> QED  BY <2>2, <2>3, <2>4
<1>13. \A t \in Sessions : Target(t)' /\ Holder(t)'
  <2> SUFFICES ASSUME NEW t \in Sessions PROVE Target(t)' /\ Holder(t)'
    OBVIOUS
  <2>1. CASE t = s
    BY <2>1, <1>4 DEF Moves, Target, Holder, Busy
  <2>2. CASE t # s
    <3>1. /\ ses'[t] = ses[t] /\ ses[t].id \in Ids /\ ses[t].who \in Owners
          /\ Holder(t) /\ Target(t)
      BY <2>2, <1>4 DEF IInv, SessionsOK, Moves
    <3>2. /\ ownerLock[ses[t].who] = t => ownerLock'[ses[t].who] = t
          /\ rowLock[ses[t].id] = t => rowLock'[ses[t].id] = t
      BY <3>1, <2>2 DEF Pin, Release
    <3>3. Target(t)'
      BY <3>1, <1>5, <1>8 DEF Target
    <3>4. ses[t].at = "pin" => ses[t].who # w /\ ses[t].id # c
      BY <3>1, <2>2, <1>5 DEF Holder
    <3>5. Holder(t)'
      BY <3>1, <3>2, <3>4, <1>8, <1>9 DEF Holder
    <3> QED  BY <3>3, <3>5
  <2> QED  BY <2>1, <2>2
<1> QED  BY <1>4, <1>7, <1>12, <1>13 DEF IInv, Moves

\* Nobody is about to pin a row that is not locked.
LEMMA UnlockedIsNotPinned ==
  ASSUME IInv, NEW c \in Ids, rowLock[c] = NoSession
  PROVE  \A t \in Sessions : ses[t].at = "pin" => ses[t].id # c
BY BookAssumption DEF IInv, Holder

\* A stored row that nobody has locked is written by its owner's session, and
\* what it tells about owner and pin stays.
LEMMA OwnRowStep ==
  ASSUME IInv, NEW s \in Sessions, NEW c \in Ids, NEW v \in Conversation,
         NEW x \in Step \ {"lock_row", "pin"}, Moves(s, x),
         x \in Busy => ses[s].id = c /\ ses[s].who = v.owner,
         rowLock[c] = NoSession, Stored(c),
         book' = [book EXCEPT ![c] = v],
         v.row # "unborn", v.owner = book[c].owner, v.pinned = book[c].pinned,
         UNCHANGED <<ownerLock, rowLock, clock>>
  PROVE  IInv'
<1>1. SessionsOK' /\ ses'[s].at = x
  BY DEF Moves
<1>2. \A t \in Sessions \ {s} : ses'[t] = ses[t]
  BY DEF Moves
<1>3. x \in Busy => ses'[s].id = c /\ ses'[s].who = v.owner
  BY DEF Moves
<1>4. \A t \in Sessions : ses[t].at = "pin" => ses[t].id # c
  BY UnlockedIsNotPinned
<1>5. book[c].row # "unborn" => v.owner = book[c].owner
  OBVIOUS
<1>6. NoNewPin(c, v)
  BY DEF Stored, NoNewPin
<1> QED
  BY <1>1, <1>2, <1>3, <1>4, <1>5, <1>6, RowStep

LEMMA WritesStep ==
  ASSUME IInv, NEW s \in Sessions, NEW at \in {"rename", "delete"},
         NEW v, Writes(s, at, "done", v),
         Stored(ses[s].id) =>
           /\ v \in Conversation /\ v.row # "unborn"
           /\ v.owner = book[ses[s].id].owner
           /\ v.pinned = book[ses[s].id].pinned
  PROVE  IInv'
<1>1. PICK c \in Ids : c = ses[s].id
  BY DEF IInv, SessionsOK
<1>2. Goto(s, "done")
  BY DEF Writes
<1>3. Moves(s, "done")
  BY <1>2, GotoMoves DEF IInv, Step
<1>4. UNCHANGED <<ownerLock, rowLock, clock>> /\ rowLock[c] = NoSession
  BY <1>1 DEF Writes, Locks
<1>5. CASE Stored(c)
  <2>1. book' = [book EXCEPT ![c] = v]
    BY <1>1, <1>5 DEF Writes, Write
  <2>2. /\ v \in Conversation /\ v.row # "unborn"
        /\ v.owner = book[c].owner /\ v.pinned = book[c].pinned
    BY <1>1, <1>5
  <2>3. "done" \in Step \ {"lock_row", "pin"} /\ "done" \notin Busy
    BY DEF Step, Busy
  <2> QED
    BY <1>3, <1>4, <1>5, <2>1, <2>2, <2>3, OwnRowStep
<1>6. CASE ~Stored(c)
  <2>1. UNCHANGED book
    BY <1>1, <1>6 DEF Writes
  <2> QED
    BY <1>3, <1>4, <2>1, QuietStep DEF Moves, Busy, Step, IInv, TablesOK
<1> QED  BY <1>5, <1>6

LEMMA RenameStep ==
  ASSUME IInv, NEW s \in Sessions, Rename(s)
  PROVE  IInv'
<1>1. book[ses[s].id] \in Conversation
  BY DEF IInv, TablesOK, SessionsOK
<1> DEFINE v == [book[ses[s].id] EXCEPT !.summary = IF ses[s].flag THEN "given" ELSE "none",
                                        !.updated = clock]
<1>2. /\ v \in Conversation /\ v.row = book[ses[s].id].row
      /\ v.owner = book[ses[s].id].owner /\ v.pinned = book[ses[s].id].pinned
  BY <1>1 DEF Conversation, Summary, IInv, TablesOK
<1>3. Writes(s, "rename", "done", v)
  BY DEF Rename
<1> HIDE DEF v
<1> QED  BY <1>2, <1>3, WritesStep DEF Stored

LEMMA DeleteStep ==
  ASSUME IInv, NEW s \in Sessions, Delete(s)
  PROVE  IInv'
<1>1. book[ses[s].id] \in Conversation
  BY DEF IInv, TablesOK, SessionsOK
<1> DEFINE v == [book[ses[s].id] EXCEPT !.row = "deleted", !.messages = <<>>]
<1>2. /\ v \in Conversation /\ v.row = "deleted"
      /\ v.owner = book[ses[s].id].owner /\ v.pinned = book[ses[s].id].pinned
  <2>1. <<>> \in Seq(Costs) /\ "deleted" \in {"unborn", "stored", "deleted"}
    OBVIOUS
  <2>2. PICK e \in Seq(Costs) : e = <<>>
    BY <2>1
  <2>3. v = [book[ses[s].id] EXCEPT !.row = "deleted", !.messages = e]
    BY <2>2
  <2> HIDE DEF v
  <2> QED  BY <1>1, <2>1, <2>3 DEF Conversation
<1>3. Writes(s, "delete", "done", v)
  BY DEF Delete
<1> HIDE DEF v
<1> QED  BY <1>2, <1>3, WritesStep

LEMMA AppendStep ==
  ASSUME IInv, NEW s \in Sessions, NEW cost \in Costs, AppendMessage(s, cost)
  PROVE  IInv'
<1>1. PICK c \in Ids : c = ses[s].id
  BY DEF IInv, SessionsOK
<1>2. UNCHANGED <<ownerLock, rowLock, clock>> /\ rowLock[c] = NoSession
  BY <1>1 DEF AppendMessage, Locks
<1>3. CASE Stored(c)
  <2> DEFINE v == [book[c] EXCEPT !.messages = Append(@, cost), !.updated = clock]
             x == IF Len(book[c].messages) + 1 = 1 THEN "title" ELSE "context"
  <2>1. book[c] \in Conversation
    BY DEF IInv, TablesOK
  <2>2. Append(book[c].messages, cost) \in Seq(Costs)
    BY <2>1 DEF Conversation
  <2>3. /\ v \in Conversation /\ v.row = book[c].row
        /\ v.owner = book[c].owner /\ v.pinned = book[c].pinned
    BY <2>1, <2>2 DEF Conversation, IInv, TablesOK
  <2>4. book' = [book EXCEPT ![c] = v]
    BY <1>1, <1>3 DEF AppendMessage, Write
  <2>5. ses' = [ses EXCEPT ![s].at = x, ![s].mark = Len(book[c].messages) + 1]
    BY <1>1, <1>3 DEF AppendMessage
  <2>6. x \in {"title", "context"}
    OBVIOUS
  <2> HIDE DEF x, v
  <2>7. Moves(s, x)
    BY <2>5, <2>6 DEF IInv, SessionsOK, Moves, Fields, Step
  <2>8. ses[s].who = book[c].owner
    BY <1>1 DEF IInv, Target, AppendMessage, Busy
  <2>9. x \in Step \ {"lock_row", "pin"} /\ v.row # "unborn"
    BY <1>3, <2>3, <2>6 DEF Step, Stored
  <2> QED
    BY <1>1, <1>2, <1>3, <2>3, <2>4, <2>7, <2>8, <2>9, OwnRowStep
<1>4. CASE ~Stored(c)
  <2>1. Goto(s, "done") /\ UNCHANGED book
    BY <1>1, <1>4 DEF AppendMessage
  <2>2. Moves(s, "done")
    BY <2>1, GotoMoves DEF IInv, Step
  <2> QED
    BY <1>2, <2>1, <2>2, QuietStep DEF Moves, Busy, Step, IInv, TablesOK
<1> QED  BY <1>3, <1>4

LEMMA TitleStep ==
  ASSUME IInv, NEW s \in Sessions, Title(s)
  PROVE  IInv'
<1>1. PICK c \in Ids : c = ses[s].id
  BY DEF IInv, SessionsOK
<1>2. Moves(s, "context")
  BY GotoMoves DEF IInv, Title, Step
<1>3. UNCHANGED <<ownerLock, rowLock, clock>>
  BY DEF Title, Locks
<1>4. CASE NameIfEmpty(c)
  <2> DEFINE v == [book[c] EXCEPT !.summary = "generated", !.updated = clock]
  <2>1. book[c] \in Conversation
    BY DEF IInv, TablesOK
  <2>2. /\ v \in Conversation /\ v.row = book[c].row
        /\ v.owner = book[c].owner /\ v.pinned = book[c].pinned
    BY <2>1 DEF Conversation, Summary, IInv, TablesOK
  <2>3. book' = [book EXCEPT ![c] = v] /\ Stored(c) /\ rowLock[c] = NoSession
    BY <1>4 DEF NameIfEmpty, Write
  <2> HIDE DEF v
  <2>4. /\ "context" \in Step \ {"lock_row", "pin"} /\ "context" \notin Busy
        /\ v.row # "unborn"
    BY <2>2, <2>3 DEF Step, Busy, Stored
  <2> QED
    BY <1>2, <1>3, <2>2, <2>3, <2>4, OwnRowStep
<1>5. CASE UNCHANGED <<book, touched>>
  BY <1>2, <1>3, <1>5, QuietStep DEF Moves, Busy, Step, IInv, TablesOK
<1> QED  BY <1>1, <1>4, <1>5 DEF Title

\* Tables and locks stay and the session reads on or is done.
LEMMA ReadOnStep ==
  ASSUME IInv, NEW s \in Sessions, NEW x \in {"history", "list", "done"}, Moves(s, x),
         UNCHANGED <<book, ownerLock, rowLock, clock>>
  PROVE  IInv'
<1>1. x \in Step \ {"lock_row", "pin"} /\ x \notin Busy
  BY DEF Step, Busy
<1>2. clock' \in Nat
  BY DEF IInv, TablesOK
<1>3. /\ SessionsOK' /\ ses'[s].at = x
      /\ \A t \in Sessions \ {s} : ses'[t] = ses[t]
  BY DEF Moves
<1> QED  BY <1>1, <1>2, <1>3, QuietStep

LEMMA ReadStep ==
  ASSUME IInv, NEW s \in Sessions, BuildContext(s) \/ ReadHistory(s) \/ ListPage(s)
  PROVE  IInv'
<1>1. CASE BuildContext(s)
  <2>1. PICK q : ses' = [ses EXCEPT ![s].at = "done", ![s].seen = q]
    BY <1>1 DEF BuildContext
  <2>2. Moves(s, "done")
    BY <2>1 DEF IInv, SessionsOK, Moves, Fields, Step
  <2>3. UNCHANGED <<book, ownerLock, rowLock, clock>>
    BY <1>1 DEF BuildContext, Locks
  <2> QED  BY <2>2, <2>3, ReadOnStep
<1>2. CASE ReadHistory(s)
  <2> DEFINE c == ses[s].id
             page == IF Stored(c) THEN HistoryPage(c, ses[s].mark) ELSE <<>>
             more == Stored(c) /\ Len(book[c].messages) > ses[s].mark + PageSize
             q == ses[s].seen \o page
             n == IF more THEN page[Len(page)] ELSE ses[s].mark
             x == IF more THEN "history" ELSE "done"
  <2>1. ses' = [ses EXCEPT ![s].seen = q, ![s].mark = n, ![s].at = x]
    BY <1>2 DEF ReadHistory
  <2>2. x \in {"history", "done"}
    OBVIOUS
  <2> HIDE DEF q, n, x
  <2>3. Moves(s, x)
    BY <2>1, <2>2 DEF IInv, SessionsOK, Moves, Fields, Step
  <2>4. UNCHANGED <<book, ownerLock, rowLock, clock>>
    BY <1>2 DEF ReadHistory, Locks
  <2> QED  BY <2>2, <2>3, <2>4, ReadOnStep
<1>3. CASE ListPage(s)
  <2> DEFINE lines == {LineOf(c) : c \in {d \in Ids : Owned(ses[s].who, d)}}
             rows == Ordered({e \in lines :
                                \A k \in DOMAIN ses[s].cursor : Past(ses[s].cursor[k], e)})
             more == Len(rows) > PageSize
             page == IF more THEN SubSeq(rows, 1, PageSize) ELSE rows
             q == ses[s].seen \o [k \in DOMAIN page |-> page[k].id]
             n == IF more THEN <<page[PageSize]>> ELSE <<>>
             x == IF more THEN "list" ELSE "done"
  <2>1. ses' = [ses EXCEPT ![s].seen = q, ![s].cursor = n, ![s].at = x]
    BY <1>3 DEF ListPage
  <2>2. x \in {"list", "done"}
    OBVIOUS
  <2> HIDE DEF q, n, x
  <2>3. Moves(s, x)
    BY <2>1, <2>2 DEF IInv, SessionsOK, Moves, Fields, Step
  <2>4. UNCHANGED <<book, ownerLock, rowLock, clock>>
    BY <1>3 DEF ListPage, Locks
  <2> QED  BY <2>2, <2>3, <2>4, ReadOnStep
<1> QED  BY <1>1, <1>2, <1>3

-----------------------------------------------------------------------------
(* The invariant *)

LEMMA InitIInv == Init => IInv
<1> SUFFICES ASSUME Init PROVE IInv
  OBVIOUS
<1>1. \A s \in Sessions : ses[s] = Idle
  BY DEF Init
<1>2. TablesOK
  BY BooksAssumption DEF Init, TablesOK
<1>3. SessionsOK
  BY <1>1, IdleTyped DEF Init, SessionsOK, Step
<1>4. \A s \in Sessions : Target(s) /\ Holder(s)
  BY <1>1, IdleTyped DEF Target, Holder, Busy
<1>5. PinLimitKept
  BY DEF Init, PinLimitKept
<1> QED  BY <1>2, <1>3, <1>4, <1>5 DEF IInv

\* Steps that leave every variable of the invariant but the clock alone.
LEMMA StillStep ==
  ASSUME IInv, UNCHANGED <<book, ownerLock, rowLock, ses>>, clock' \in Nat
  PROVE  IInv'
<1>1. TablesOK' /\ SessionsOK'
  BY DEF IInv, TablesOK, SessionsOK
<1>2. \A o : Pinned(o)' = Pinned(o)
  BY DEF Pinned
<1>3. PinLimitKept'
  BY <1>2 DEF IInv, PinLimitKept
<1>4. \A t \in Sessions : Target(t)' /\ Holder(t)'
  BY <1>2 DEF IInv, Target, Holder
<1> QED  BY <1>1, <1>3, <1>4 DEF IInv

LEMMA RequestStep ==
  ASSUME IInv, NEW s \in Sessions, Request(s)
  PROVE  IInv'
<1>1. PICK who \in Owners :
        \/ Create(s, who) \/ ListBegin(s, who)
        \/ \E c \in Ids, first \in {"lock_owner", "rename", "delete", "append", "history"},
              flag \in BOOLEAN : Resolve(s, who, c, first, flag)
  BY DEF Request
<1>2. CASE Create(s, who)
  BY <1>2, CreateStep
<1>3. CASE ListBegin(s, who)
  BY <1>3, ListBeginStep
<1>4. CASE \E c \in Ids, first \in {"lock_owner", "rename", "delete", "append", "history"},
             flag \in BOOLEAN : Resolve(s, who, c, first, flag)
  BY <1>4, ResolveStep
<1> QED  BY <1>1, <1>2, <1>3, <1>4

LEMMA StatementStep ==
  ASSUME IInv, NEW s \in Sessions, Statement(s)
  PROVE  IInv'
<1>1. CASE LockOwner(s)
  BY <1>1, LockOwnerStep
<1>2. CASE LockRow(s)
  BY <1>2, LockRowStep
<1>3. CASE Pin(s)
  BY <1>3, PinStep
<1>4. CASE Rename(s)
  BY <1>4, RenameStep
<1>5. CASE Delete(s)
  BY <1>5, DeleteStep
<1>6. CASE \E cost \in Costs : AppendMessage(s, cost)
  BY <1>6, AppendStep
<1>7. CASE Title(s)
  BY <1>7, TitleStep
<1>8. CASE BuildContext(s) \/ ReadHistory(s) \/ ListPage(s)
  BY <1>8, ReadStep
<1> QED  BY <1>1, <1>2, <1>3, <1>4, <1>5, <1>6, <1>7, <1>8 DEF Statement

LEMMA StepKeepsIInv ==
  ASSUME IInv, [Next]_vars
  PROVE  IInv'
<1>1. ASSUME NEW s \in Sessions, Request(s)
      PROVE  IInv'
  BY <1>1, RequestStep
<1>2. ASSUME NEW s \in Sessions, Statement(s)
      PROVE  IInv'
  BY <1>2, StatementStep
<1>3. ASSUME NEW s \in Sessions, Die(s)
      PROVE  IInv'
  BY <1>3, ReleaseStep DEF Die
<1>4. CASE Tick
  BY <1>4, StillStep DEF Tick, Locks, IInv, TablesOK
<1>5. CASE UNCHANGED vars
  BY <1>5, StillStep DEF vars, IInv, TablesOK
<1> QED  BY <1>1, <1>2, <1>3, <1>4, <1>5 DEF Next

\* Tables, locks and sessions agree at every step: a request writes only to a
\* conversation of its principal, and update_pinned counts under its owner's
\* lock and keeps it to the commit.
THEOREM BookInvariant == Spec => []IInv
<1>1. Init => IInv
  BY InitIInv
<1>2. IInv /\ [Next]_vars => IInv'
  BY StepKeepsIInv
<1> QED  BY <1>1, <1>2, PTL DEF Spec

\* No owner ever has more conversations pinned than the limit, for any number
\* of sessions that pin at the same time (update_pinned).
THEOREM PinLimitHolds == Spec => []PinLimitKept
<1>1. IInv => PinLimitKept
  BY DEF IInv
<1> QED  BY <1>1, BookInvariant, PTL

-----------------------------------------------------------------------------
(* What a step may change *)

\* A step that changes rows changes only that of one conversation, by one
\* session at a step of its request that writes.
Writer(s, c) ==
  /\ \A t \in Sessions \ {s} : ses'[t] = ses[t]
  /\ \A d \in Ids \ {c} : book'[d] = book[d]
  /\ Stored(c) /\ book'[c] # book[c] => ses[s].at \in Busy /\ ses[s].id = c

LEMMA WritesWriter ==
  ASSUME IInv, NEW s \in Sessions, NEW v,
         Goto(s, "done") \/ Goto(s, "context"),
         \/ book' = [book EXCEPT ![ses[s].id] = v]
         \/ UNCHANGED book,
         ses[s].at \in Busy
  PROVE  Writer(s, ses[s].id)
<1>1. \A t \in Sessions \ {s} : ses'[t] = ses[t]
  BY DEF Goto, IInv, SessionsOK
<1>2. \A d \in Ids \ {ses[s].id} : book'[d] = book[d]
  BY DEF IInv, TablesOK
<1> QED  BY <1>1, <1>2 DEF Writer

\* Every step of a session but its reads is one of a writer.
LEMMA StatementWriter ==
  ASSUME IInv, NEW s \in Sessions, Statement(s)
  PROVE  UNCHANGED book \/ Writer(s, ses[s].id)
<1>1. CASE LockOwner(s) \/ LockRow(s) \/ BuildContext(s) \/ ReadHistory(s) \/ ListPage(s)
  BY <1>1 DEF LockOwner, LockRow, BuildContext, ReadHistory, ListPage
<1>2. CASE Pin(s)
  BY <1>2, WritesWriter DEF Pin, Write, Busy
<1>3. CASE Rename(s)
  BY <1>3, WritesWriter DEF Rename, Writes, Write, Busy
<1>4. CASE Delete(s)
  BY <1>4, WritesWriter DEF Delete, Writes, Write, Busy
<1>5. ASSUME NEW cost \in Costs, AppendMessage(s, cost)
      PROVE  UNCHANGED book \/ Writer(s, ses[s].id)
  <2>1. CASE Stored(ses[s].id)
    <3>1. PICK v : book' = [book EXCEPT ![ses[s].id] = v]
      BY <1>5, <2>1 DEF AppendMessage, Write
    <3>2. PICK x, y : ses' = [ses EXCEPT ![s].at = x, ![s].mark = y]
      BY <1>5, <2>1 DEF AppendMessage
    <3>3. \A t \in Sessions \ {s} : ses'[t] = ses[t]
      BY <3>2 DEF IInv, SessionsOK
    <3>4. \A d \in Ids \ {ses[s].id} : book'[d] = book[d]
      BY <3>1 DEF IInv, TablesOK
    <3> QED  BY <3>3, <3>4, <1>5 DEF Writer, AppendMessage, Busy
  <2>2. CASE ~Stored(ses[s].id)
    BY <1>5, <2>2 DEF AppendMessage
  <2> QED  BY <2>1, <2>2
<1>6. CASE Title(s)
  BY <1>6, WritesWriter DEF Title, NameIfEmpty, Write, Busy
<1> QED  BY <1>1, <1>2, <1>3, <1>4, <1>5, <1>6 DEF Statement

LEMMA OwnerStep ==
  ASSUME IInv, [Next]_vars, NEW c \in Ids, NEW s \in Sessions,
         Stored(c), book'[c] # book[c], ses'[s] # ses[s]
  PROVE  ses[s].who = book[c].owner
<1>1. ASSUME NEW t \in Sessions, Statement(t)
      PROVE  ses[s].who = book[c].owner
  <2>1. Writer(t, ses[t].id)
    BY <1>1, StatementWriter
  <2>2. s = t /\ ses[t].id = c /\ ses[t].at \in Busy
    BY <2>1 DEF Writer
  <2> QED  BY <2>2 DEF IInv, Target
<1>2. ASSUME NEW t \in Sessions, Request(t)
      PROVE  FALSE
  <2>1. CASE UNCHANGED book
    BY <2>1
  <2>2. CASE \E who \in Owners : Create(t, who)
    BY <2>2 DEF Create, Write, Stored, IInv, TablesOK
  <2> QED  BY <1>2, <2>1, <2>2 DEF Request, ListBegin, Resolve
<1>3. ASSUME NEW t \in Sessions, Die(t)
      PROVE  FALSE
  BY <1>3 DEF Die
<1>4. CASE Tick \/ UNCHANGED vars
  BY <1>4 DEF Tick, vars
<1> QED  BY <1>1, <1>2, <1>3, <1>4 DEF Next

\* A stored conversation is changed by sessions of its owner only, although
\* resolve() looks at the owner in a transaction of its own.
THEOREM OwnersActAlone == Spec => OwnerActsAlone
<1>1. IInv /\ [Next]_vars =>
        [\A c \in Ids : \A s \in Sessions :
           Stored(c) /\ book'[c] # book[c] /\ ses'[s] # ses[s]
           => ses[s].who = book[c].owner]_vars
  BY OwnerStep
<1> QED  BY <1>1, BookInvariant, PTL DEF Spec, OwnerActsAlone

\* Only a renaming takes back a given name.
LEMMA NameStep ==
  ASSUME IInv, [Next]_vars, NEW c \in Ids,
         Stored(c), book[c].summary = "given", book'[c].summary # "given"
  PROVE  \E s \in Sessions : ses[s].at = "rename" /\ ses[s].id = c /\ ses'[s].at = "done"
<1>1. book'[c] # book[c] /\ book[c] \in Conversation /\ book \in [Ids -> Conversation]
  BY DEF IInv, TablesOK
<1>2. ASSUME NEW t \in Sessions, Statement(t)
      PROVE  \E s \in Sessions : ses[s].at = "rename" /\ ses[s].id = c /\ ses'[s].at = "done"
  <2>1. ses[t].id = c
    BY <1>1, <1>2, StatementWriter DEF Writer
  <2>2. CASE LockOwner(t) \/ LockRow(t) \/ BuildContext(t) \/ ReadHistory(t) \/ ListPage(t)
    BY <2>2, <1>1 DEF LockOwner, LockRow, BuildContext, ReadHistory, ListPage
  <2>3. CASE Pin(t)
    BY <2>1, <2>3, <1>1 DEF Pin, Write, Conversation
  <2>4. CASE Rename(t)
    <3>1. Goto(t, "done") /\ ses[t].at = "rename"
      BY <2>4 DEF Rename, Writes
    <3>2. Moves(t, "done")
      BY <3>1, GotoMoves DEF IInv, Step
    <3> QED  BY <2>1, <3>1, <3>2 DEF Moves
  <2>5. CASE Delete(t)
    <3>1. book' = [book EXCEPT ![c] = [book[c] EXCEPT !.row = "deleted", !.messages = <<>>]]
      BY <2>1, <2>5 DEF Delete, Writes, Write
    <3>2. book'[c] = [book[c] EXCEPT !.row = "deleted", !.messages = <<>>]
      BY <3>1, <1>1
    <3> QED  BY <3>2, <1>1 DEF Conversation
  <2>6. ASSUME NEW cost \in Costs, AppendMessage(t, cost)
        PROVE  FALSE
    <3>1. PICK m : book' = [book EXCEPT ![c] = [book[c] EXCEPT !.messages = m, !.updated = clock]]
      BY <2>1, <2>6 DEF AppendMessage, Write
    <3>2. book'[c] = [book[c] EXCEPT !.messages = m, !.updated = clock]
      BY <3>1, <1>1
    <3> QED  BY <3>2, <1>1 DEF Conversation
  <2>7. CASE Title(t)
    BY <2>1, <2>7, <1>1 DEF Title, NameIfEmpty
  <2> QED  BY <1>2, <2>2, <2>3, <2>4, <2>5, <2>6, <2>7 DEF Statement
<1>3. ASSUME NEW t \in Sessions, Request(t)
      PROVE  FALSE
  <2>1. CASE UNCHANGED book
    BY <2>1, <1>1
  <2>2. CASE \E who \in Owners : Create(t, who)
    BY <2>2, <1>1 DEF Create, Write, Stored
  <2> QED  BY <1>3, <2>1, <2>2 DEF Request, ListBegin, Resolve
<1>4. ASSUME NEW t \in Sessions, Die(t)
      PROVE  FALSE
  BY <1>4, <1>1 DEF Die
<1>5. CASE Tick \/ UNCHANGED vars
  BY <1>5, <1>1 DEF Tick, vars
<1> QED  BY <1>2, <1>3, <1>4, <1>5 DEF Next

\* A name the owner gave is replaced by a renaming only, never by the name
\* made from the first message, however late that one is written.
THEOREM GivenNamesStay == Spec => GivenNameStays
<1>1. IInv /\ [Next]_vars =>
        [\A c \in Ids :
           Stored(c) /\ book[c].summary = "given" /\ book'[c].summary # "given"
           => \E s \in Sessions : ses[s].at = "rename" /\ ses[s].id = c
                                   /\ ses'[s].at = "done"]_vars
  BY NameStep
<1> QED  BY <1>1, BookInvariant, PTL DEF Spec, GivenNameStays

-----------------------------------------------------------------------------
(* What sessions read.  ReadsInv says how far a session has come in what it *)
(* reads, in terms of what the tables still hold of it.                     *)

\* The conversations a listing session still owes its client as they were.
Still(s) == {c \in Ids : Owned(ses[s].who, c)} \ touched[s]

Seen(s, c) == \E k \in DOMAIN ses[s].seen : ses[s].seen[k] = c

\* A list that has come to its cursor has shown what is not after it.
Passed(s, c) ==
  \E k \in DOMAIN ses[s].cursor : ~Before(ses[s].cursor[k], LineOf(c))

Listing(s) ==
  ses[s].job = "list" =>
    /\ ses[s].at \in {"list", "done", "dead"}
    /\ DOMAIN ses[s].cursor \subseteq {1}
    /\ ses[s].at = "list" => \A c \in Still(s) : Seen(s, c) <=> Passed(s, c)
    /\ ses[s].at = "done" => \A c \in Still(s) : Seen(s, c)
    /\ \A i, k \in DOMAIN ses[s].seen :
         i < k /\ {ses[s].seen[i], ses[s].seen[k]} \subseteq Still(s)
         => Before(LineOf(ses[s].seen[i]), LineOf(ses[s].seen[k]))

Paging(s) ==
  ses[s].job = "history" =>
    /\ ses[s].at \in {"history", "done", "dead"}
    /\ book[ses[s].id].row # "unborn"
    /\ Stored(ses[s].id) =>
         /\ ses[s].base <= Len(book[ses[s].id].messages)
         /\ \A k \in DOMAIN ses[s].seen : ses[s].seen[k] = k
         /\ ses[s].at = "history" => /\ ses[s].mark = Len(ses[s].seen)
                                     /\ ses[s].mark <= Len(book[ses[s].id].messages)
         /\ ses[s].at = "done" => Len(ses[s].seen) >= ses[s].base

\* The context q of a turn whose own message has the sequence number m.
ContextOK(c, q, m) ==
  LET n == Len(q)
      from == m - n + 1
  IN  /\ \A k \in 1..n : q[k] = from + k - 1
      /\ n <= MaxMessages /\ n <= m
      /\ CostOf(c, from, m) <= MaxCost
      /\ from > 1 /\ n < MaxMessages => CostOf(c, from - 1, m) > MaxCost

Turning(s) ==
  ses[s].job = "append" =>
    /\ ses[s].at \in {"append", "title", "context", "done", "dead"}
    /\ book[ses[s].id].row # "unborn"
    /\ Stored(ses[s].id) =>
         /\ ses[s].mark <= Len(book[ses[s].id].messages)
         /\ ses[s].at \in {"title", "context"} => ses[s].mark > 0
         /\ ses[s].at = "done" /\ ses[s].mark > 0 => ContextOK(ses[s].id, ses[s].seen, ses[s].mark)

\* A request is at a step of its kind.
Along(s) ==
  /\ ses[s].at \in {"list", "history"} => ses[s].job = ses[s].at
  /\ ses[s].at \in {"append", "title", "context"} => ses[s].job = "append"

ReadsInv ==
  /\ TypeOK
  /\ \A s \in Sessions : Along(s) /\ Listing(s) /\ Paging(s) /\ Turning(s)

-----------------------------------------------------------------------------
(* Sums.  The cost of a context is a recursive function of sequence numbers; *)
(* facts about all of its values are proved at the least number they fail at. *)

\* Induction in the form the provers can apply: a set of numbers has a least
\* element.
LEMMA LeastNumber ==
  ASSUME NEW T \in SUBSET Nat, T # {}
  PROVE  \E x \in T : \A y \in T : x <= y
<1>1. \E x \in T : \A y \in T : ~ (<<y, x>> \in OpToRel(<, Nat))
  BY NatLessThanWellFounded, WFMin
<1>2. ASSUME NEW x \in T, NEW y \in T, ~(<<y, x>> \in OpToRel(<, Nat))
      PROVE  x <= y
  BY <1>2 DEF OpToRel
<1> QED  BY <1>1, <1>2

\* Some f sums up the values of v from a on.
Sums(f, v, a, b) ==
  f = [k \in (a - 1)..b |-> IF k = a - 1 THEN 0 ELSE f[k - 1] + v[k]]

LEMMA SumsExist ==
  ASSUME NEW a \in Nat \ {0}, NEW b \in Nat, a - 1 <= b, NEW v,
         \A k \in a..b : v[k] \in Nat
  PROVE  \E f \in [(a - 1)..b -> Nat] : Sums(f, v, a, b)
<1> DEFINE Short(n) == a - 1 <= n => \E f \in [(a - 1)..n -> Nat] : Sums(f, v, a, n)
           T == {n \in 0..b : ~ Short(n)}
<1>1. SUFFICES ASSUME T # {} PROVE FALSE
  <2>1. T = {} => Short(b)
    BY b \in 0..b
  <2> QED  BY <2>1
<1>2. PICK n \in T : \A y \in T : n <= y
  <2>1. T \in SUBSET Nat
    OBVIOUS
  <2> HIDE DEF T
  <2> QED  BY <1>1, <2>1, LeastNumber
<1>3. n \in 0..b /\ a - 1 <= n
  BY <1>2
<1>4. CASE n = a - 1
  <2> DEFINE f == [k \in (a - 1)..n |-> 0]
  <2>1. f \in [(a - 1)..n -> Nat] /\ Sums(f, v, a, n)
    BY <1>3, <1>4 DEF Sums
  <2> QED  BY <1>2, <2>1
<1>5. CASE n # a - 1
  <2>1. n - 1 \in 0..b /\ n - 1 \notin T /\ a - 1 <= n - 1
    BY <1>2, <1>3, <1>5
  <2>2. PICK g \in [(a - 1)..(n - 1) -> Nat] : Sums(g, v, a, n - 1)
    BY <2>1
  <2> DEFINE f == [k \in (a - 1)..n |-> IF k = n THEN g[n - 1] + v[n] ELSE g[k]]
  <2>3. \A k \in (a - 1)..(n - 1) : g[k] = IF k = a - 1 THEN 0 ELSE g[k - 1] + v[k]
    BY <2>2 DEF Sums
  <2>4. f \in [(a - 1)..n -> Nat]
    BY <1>3, <1>5, <2>2
  <2>5. ASSUME NEW k \in (a - 1)..n
        PROVE  f[k] = IF k = a - 1 THEN 0 ELSE f[k - 1] + v[k]
    BY <1>3, <1>5, <2>3
  <2>6. Sums(f, v, a, n)
    BY <2>4, <2>5 DEF Sums
  <2> QED  BY <1>2, <2>4, <2>6
<1> QED  BY <1>4, <1>5

\* Two such sums agree as far as what they sum up does.
LEMMA SumsAgree ==
  ASSUME NEW a \in Nat \ {0}, NEW b \in Nat, NEW d \in Nat, b <= d, NEW v, NEW w, NEW f, NEW g,
         Sums(f, v, a, b), Sums(g, w, a, d), \A k \in a..b : v[k] = w[k]
  PROVE  \A k \in (a - 1)..b : f[k] = g[k]
<1> DEFINE T == {k \in (a - 1)..b : f[k] # g[k]}
<1>1. SUFFICES ASSUME T # {} PROVE FALSE
  OBVIOUS
<1>2. PICK n \in T : \A y \in T : n <= y
  <2>1. T \in SUBSET Nat
    OBVIOUS
  <2> HIDE DEF T
  <2> QED  BY <1>1, <2>1, LeastNumber
<1>3. n \in (a - 1)..b /\ n \in (a - 1)..d /\ f[n] # g[n]
  BY <1>2
<1>4. /\ f[n] = IF n = a - 1 THEN 0 ELSE f[n - 1] + v[n]
      /\ g[n] = IF n = a - 1 THEN 0 ELSE g[n - 1] + w[n]
  BY <1>3 DEF Sums
<1>5. n # a - 1 => n - 1 \notin T /\ n - 1 \in (a - 1)..b /\ n \in a..b
  BY <1>2, <1>3
<1>6. n # a - 1 => f[n - 1] = g[n - 1] /\ v[n] = w[n]
  BY <1>5
<1> QED  BY <1>3, <1>4, <1>6

Agree(v, w, a, b) == \A k \in a..b : v[k] = w[k]

LEMMA SameSums ==
  ASSUME NEW a \in Nat \ {0}, NEW b \in Nat, NEW v, NEW w, NEW f, NEW g,
         Sums(f, v, a, b), Sums(g, w, a, b), Agree(v, w, a, b)
  PROVE  Agree(f, g, a - 1, b)
<1>1. b <= b /\ \A k \in a..b : v[k] = w[k]
  BY DEF Agree
<1>2. \A k \in (a - 1)..b : f[k] = g[k]
  BY <1>1, SumsAgree
<1> QED  BY <1>2 DEF Agree

\* A sum from a on is a difference of sums from the first on.
LEMMA SumsShift ==
  ASSUME NEW a \in Nat \ {0}, NEW b \in Nat, NEW v,
         NEW f \in [(a - 1)..b -> Nat], NEW p \in [0..b -> Nat],
         Sums(f, v, a, b), Sums(p, v, 1, b), \A k \in 1..b : v[k] \in Nat
  PROVE  \A k \in (a - 1)..b : p[k] = f[k] + p[a - 1]
<1> DEFINE T == {k \in (a - 1)..b : p[k] # f[k] + p[a - 1]}
<1>1. SUFFICES ASSUME T # {} PROVE FALSE
  OBVIOUS
<1>2. PICK n \in T : \A y \in T : n <= y
  <2>1. T \in SUBSET Nat
    OBVIOUS
  <2> HIDE DEF T
  <2> QED  BY <1>1, <2>1, LeastNumber
<1>3. n \in (a - 1)..b /\ n \in 0..b /\ p[n] # f[n] + p[a - 1]
  BY <1>2
<1>4. /\ f[n] = IF n = a - 1 THEN 0 ELSE f[n - 1] + v[n]
      /\ p[n] = IF n = 0 THEN 0 ELSE p[n - 1] + v[n]
  BY <1>3 DEF Sums
<1>5. n = a - 1 => f[n] = 0 /\ p[n] = f[n] + p[a - 1]
  BY <1>3, <1>4
<1>6. n # a - 1 => /\ n - 1 \notin T /\ n - 1 \in (a - 1)..b /\ n \in 1..b
                   /\ n - 1 \in 0..b
  BY <1>2, <1>3
<1>7. n # a - 1 => p[n - 1] = f[n - 1] + p[a - 1] /\ v[n] \in Nat
  BY <1>6
<1>8. /\ p[a - 1] \in Nat
      /\ n # a - 1 => f[n - 1] \in Nat /\ p[n - 1] \in Nat
  BY <1>3, <1>6
<1>9. CASE n # a - 1
  <2>1. f[n] = f[n - 1] + v[n] /\ p[n] = p[n - 1] + v[n]
    BY <1>3, <1>4, <1>9
  <2>3. PICK x \in Nat, y \in Nat, z \in Nat, u \in Nat :
          x = p[n - 1] /\ y = f[n - 1] /\ z = p[a - 1] /\ u = v[n]
    BY <1>7, <1>8, <1>9
  <2>4. x = y + z
    BY <1>7, <1>9, <2>3
  <2>5. x + u = (y + u) + z
    BY <2>4
  <2> QED  BY <1>3, <2>1, <2>3, <2>5
<1> QED  BY <1>3, <1>5, <1>9

-----------------------------------------------------------------------------
(* The context of a turn *)

MessagesOK(m) == m \in Seq(Costs)

LEMMA MessageTyped ==
  ASSUME NEW m, MessagesOK(m)
  PROVE  /\ Len(m) \in Nat
         /\ \A k \in 1..Len(m) : m[k] \in Nat
<1>1. Len(m) \in Nat /\ \A k \in 1..Len(m) : m[k] \in Costs
  BY DEF MessagesOK
<1> QED  BY <1>1, BookAssumption

\* What CostOf sums up.
LEMMA CostIsSum ==
  ASSUME NEW c, MessagesOK(book[c].messages), NEW a \in Nat \ {0},
         NEW b \in 0..Len(book[c].messages), a - 1 <= b
  PROVE  \E f \in [(a - 1)..b -> Nat] :
           Sums(f, book[c].messages, a, b) /\ CostOf(c, a, b) = f[b]
<1> DEFINE Sum == CHOOSE f : Sums(f, book[c].messages, a, b)
<1>1. \A k \in a..b : book[c].messages[k] \in Nat
  BY MessageTyped
<1>2. b \in Nat
  OBVIOUS
<1>3. PICK g \in [(a - 1)..b -> Nat] : Sums(g, book[c].messages, a, b)
  BY <1>1, <1>2, SumsExist
<1>4. Sums(Sum, book[c].messages, a, b)
  BY <1>3, Zenon
<1>5. CostOf(c, a, b) = Sum[b]
  BY Zenon DEF CostOf, Sums
<1> HIDE DEF Sum
<1>6. \A k \in (a - 1)..b : Sum[k] = g[k]
  BY <1>2, <1>3, <1>4, SumsAgree
<1>7. b \in (a - 1)..b
  OBVIOUS
<1> QED  BY <1>3, <1>5, <1>6, <1>7

\* What a run of messages costs depends on them alone.
LEMMA CostKept ==
  ASSUME NEW c, MessagesOK(book[c].messages), MessagesOK(book'[c].messages),
         NEW a \in Nat \ {0}, NEW b \in 0..Len(book[c].messages), a - 1 <= b,
         Len(book[c].messages) <= Len(book'[c].messages),
         \A k \in 1..Len(book[c].messages) : book'[c].messages[k] = book[c].messages[k]
  PROVE  CostOf(c, a, b)' = CostOf(c, a, b)
<1> DEFINE m == book[c].messages
           n == book'[c].messages
<1>1. PICK f \in [(a - 1)..b -> Nat] : Sums(f, m, a, b) /\ CostOf(c, a, b) = f[b]
  BY CostIsSum
<1> DEFINE Sum == CHOOSE h : Sums(h, n, a, b)
<1>2. Len(m) \in Nat /\ Len(n) \in Nat /\ b \in Nat
  BY MessageTyped
<1>3. \A k \in a..b : n[k] = m[k]
  BY <1>2
<1>4. \A k \in a..b : n[k] \in Nat
  BY <1>2, MessageTyped
<1>5. PICK g \in [(a - 1)..b -> Nat] : Sums(g, n, a, b)
  BY <1>2, <1>4, SumsExist
<1>6. Sums(Sum, n, a, b)
  BY <1>5, Zenon
<1>7. CostOf(c, a, b)' = Sum[b]
  BY Zenon DEF CostOf, Sums
<1> HIDE DEF Sum, m, n
<1>8. \A k \in (a - 1)..b : Sum[k] = f[k]
  <2>1. b \in Nat
    BY <1>2
  <2>2. PICK F, G, V, W : F = Sum /\ G = f /\ V = n /\ W = m
    OBVIOUS
  <2>3. Sums(F, V, a, b) /\ Sums(G, W, a, b) /\ Agree(V, W, a, b)
    BY <1>1, <1>3, <1>6, <2>2 DEF Agree
  <2>4. Agree(F, G, a - 1, b)
    BY <2>1, <2>3, SameSums
  <2> QED  BY <2>2, <2>4 DEF Agree
<1>9. b \in (a - 1)..b
  OBVIOUS
<1> QED  BY <1>1, <1>7, <1>8, <1>9

\* What the messages of a window cost from one of them to its end.
Spends(f, m, w) ==
  f = [k \in 1..(Len(w) + 1) |-> IF k = Len(w) + 1 THEN 0 ELSE f[k + 1] + m[w[k]]]

\* A window of the last n messages up to one with the number last.
Window(last, n) == [k \in 1..n |-> last - n + k]

LEMMA WindowTyped ==
  ASSUME NEW last \in Nat, NEW n \in 0..last
  PROVE  /\ Window(last, n) \in Seq(Nat)
         /\ Len(Window(last, n)) = n
         /\ \A k \in 1..n : Window(last, n)[k] = last - n + k
BY DEF Window

\* What a window costs is a difference of sums.
LEMMA WindowCosts ==
  ASSUME NEW m, MessagesOK(m), NEW last \in 0..Len(m), NEW n \in 0..last,
         NEW p \in [0..last -> Nat], Sums(p, m, 1, last)
  PROVE  /\ \E f : Spends(f, m, Window(last, n))
         /\ \A f : Spends(f, m, Window(last, n))
              => \A k \in 1..(n + 1) : f[k] = p[last] - p[last - n + k - 1]
<1> DEFINE w == Window(last, n)
           e(k) == p[last] - p[last - n + k - 1]
           g == [k \in 1..(n + 1) |-> e(k)]
<1>0. /\ last \in Nat /\ n \in Nat /\ Len(m) \in Nat
      /\ \A k \in 1..Len(m) : m[k] \in Nat
  BY MessageTyped
<1>1. /\ Len(w) = n /\ \A k \in 1..n : w[k] = last - n + k
  BY <1>0, WindowTyped
<1>2. \A i \in 1..last : p[i] = p[i - 1] + m[i]
  <2> SUFFICES ASSUME NEW i \in 1..last PROVE p[i] = p[i - 1] + m[i]
    OBVIOUS
  <2>1. i \in (1 - 1)..last /\ i # 1 - 1
    BY <1>0
  <2> QED  BY <2>1 DEF Sums
<1>3. ASSUME NEW k \in 1..n
      PROVE  e(k) = e(k + 1) + m[w[k]]
  <2>1. last - n + k \in 1..last /\ (last - n + k) - 1 = last - n + k - 1
        /\ last - n + (k + 1) - 1 = last - n + k
    BY <1>0
  <2>2. PICK i \in 1..last : i = last - n + k
    BY <2>1
  <2>3. p[i] = p[i - 1] + m[i]
    BY <1>2
  <2>4. e(k) = p[last] - p[i - 1] /\ e(k + 1) = p[last] - p[i] /\ w[k] = i
    BY <2>1, <2>2, <1>1
  <2>5. p[last] \in Nat /\ p[i] \in Nat /\ p[i - 1] \in Nat /\ m[i] \in Nat
    BY <1>0
  <2>6. p[last] - p[i - 1] = (p[last] - p[i]) + m[i]
    BY <2>3, <2>5
  <2> QED  BY <2>4, <2>6
<1>4. e(n + 1) = 0
  <2>1. last - n + (n + 1) - 1 = last
    BY <1>0
  <2>2. p[last] \in Nat
    BY <1>0
  <2> QED  BY <2>1, <2>2
<1> HIDE DEF e, w
<1>5. Spends(g, m, w)
  <2> SUFFICES ASSUME NEW k \in 1..(n + 1)
               PROVE  g[k] = IF k = n + 1 THEN 0 ELSE g[k + 1] + m[w[k]]
    BY <1>1 DEF Spends
  <2>1. CASE k = n + 1
    BY <2>1, <1>4
  <2>2. CASE k # n + 1
    <3>1. k \in 1..n /\ k + 1 \in 1..(n + 1)
      BY <2>2, <1>0
    <3> QED  BY <3>1, <2>2, <1>3
  <2> QED  BY <2>1, <2>2
<1>6. ASSUME NEW f, Spends(f, m, w)
      PROVE  \A k \in 1..(n + 1) : f[k] = e(k)
  <2> DEFINE T == {j \in 0..n : f[n + 1 - j] # e(n + 1 - j)}
  <2>1. \A k \in 1..(n + 1) : f[k] = IF k = n + 1 THEN 0 ELSE f[k + 1] + m[w[k]]
    BY <1>1, <1>6 DEF Spends
  <2>2. T = {}
    <3> SUFFICES ASSUME T # {} PROVE FALSE
      OBVIOUS
    <3>1. PICK j \in T : \A y \in T : j <= y
      <4>1. T \in SUBSET Nat
        BY <1>0
      <4> HIDE DEF T
      <4> QED  BY <4>1, LeastNumber
    <3>2. j \in 0..n /\ n + 1 - j \in 1..(n + 1) /\ f[n + 1 - j] # e(n + 1 - j)
      BY <1>0, <3>1
    <3>3. CASE j = 0
      BY <1>0, <1>4, <2>1, <3>2, <3>3
    <3>4. CASE j # 0
      <4>1. PICK k \in 1..n : k = n + 1 - j
        BY <1>0, <3>2, <3>4
      <4>2. j - 1 \in 0..n /\ j - 1 \notin T /\ n + 1 - (j - 1) = k + 1
        <5>1. j - 1 \in 0..n /\ n + 1 - (j - 1) = k + 1 /\ j \in Nat
          BY <1>0, <3>2, <3>4, <4>1
        <5>2. ~(j <= j - 1)
          BY <5>1
        <5> HIDE DEF T
        <5> QED  BY <5>1, <5>2, <3>1
      <4>3. f[k + 1] = e(k + 1)
        BY <4>2
      <4>4. f[k] = f[k + 1] + m[w[k]]
        BY <1>0, <2>1
      <4> QED  BY <1>3, <3>2, <4>1, <4>3, <4>4
    <3> QED  BY <3>3, <3>4
  <2> SUFFICES ASSUME NEW k \in 1..(n + 1) PROVE f[k] = e(k)
    OBVIOUS
  <2>3. n + 1 - k \in 0..n /\ n + 1 - (n + 1 - k) = k
    BY <1>0
  <2>4. n + 1 - k \notin T
    BY <2>2
  <2> QED  BY <2>3, <2>4
<1> QED  BY <1>5, <1>6 DEF w, e

\* The first message of a window that fits, with all after it.
Fits(f, n, k) ==
  /\ \A j \in k..(n + 1) : f[j] <= MaxCost
  /\ k = 1 \/ f[k - 1] > MaxCost

LEMMA FirstExists ==
  ASSUME NEW n \in Nat, NEW f, f[n + 1] = 0, \A k \in 1..(n + 1) : f[k] \in Int
  PROVE  \E k \in 1..(n + 1) : Fits(f, n, k)
<1> DEFINE T == {k \in 1..(n + 1) : \A j \in k..(n + 1) : f[j] <= MaxCost}
<1>1. n + 1 \in T
  <2>1. \A j \in (n + 1)..(n + 1) : j = n + 1
    OBVIOUS
  <2> QED  BY <2>1, BookAssumption
<1>2. PICK k \in T : \A y \in T : k <= y
  <2>1. T \in SUBSET Nat
    OBVIOUS
  <2> HIDE DEF T
  <2> QED  BY <1>1, <2>1, LeastNumber
<1>3. CASE k = 1
  BY <1>2, <1>3 DEF Fits
<1>4. CASE k # 1
  <2>1. k - 1 \in 1..(n + 1) /\ k \in Nat
    BY <1>2, <1>4
  <2>2. k - 1 \notin T
    <3>1. ~(k <= k - 1)
      BY <2>1
    <3> HIDE DEF T
    <3> QED  BY <3>1, <1>2
  <2>3. PICK j \in (k - 1)..(n + 1) : ~(f[j] <= MaxCost)
    BY <2>1, <2>2
  <2>4. j \notin k..(n + 1)
    BY <1>2, <2>3
  <2>5. j = k - 1
    BY <2>1, <2>3, <2>4
  <2>6. f[k - 1] \in Int /\ MaxCost \in Int /\ ~(f[k - 1] <= MaxCost)
    BY <2>1, <2>3, <2>5, BookAssumption
  <2>7. f[k - 1] > MaxCost
    BY <2>6
  <2> QED  BY <1>2, <2>7 DEF Fits
<1> QED  BY <1>3, <1>4

LEMMA SelectedIsRest ==
  ASSUME NEW c, NEW w, NEW n \in Nat, Len(w) = n,
         \E f : Spends(f, book[c].messages, w),
         \A f : Spends(f, book[c].messages, w) => \E k \in 1..(n + 1) : Fits(f, n, k)
  PROVE  \E f : /\ Spends(f, book[c].messages, w)
                /\ \E k \in 1..(n + 1) : Fits(f, n, k) /\ Selected(c, w) = SubSeq(w, k, n)
<1> DEFINE Spent == CHOOSE f : Spends(f, book[c].messages, w)
           first == CHOOSE k \in 1..(n + 1) : Fits(Spent, n, k)
<1>1. Spends(Spent, book[c].messages, w)
  BY Zenon
<1>2. first \in 1..(n + 1) /\ Fits(Spent, n, first)
  <2> HIDE DEF Spent
  <2>1. \E k \in 1..(n + 1) : Fits(Spent, n, k)
    BY <1>1
  <2> QED  BY <2>1, Zenon
<1>3. Selected(c, w) = SubSeq(w, first, n)
  BY Zenon DEF Selected, Spends, Fits
<1> HIDE DEF Spent, first
<1> QED  BY <1>1, <1>2, <1>3, Zenon

\* The context of a turn is the longest that both limits allow
\* (read_recent_messages, ConversationContextBuilder.build).
LEMMA SelectedIsLongest ==
  ASSUME NEW c, MessagesOK(book[c].messages),
         NEW last \in 1..Len(book[c].messages)
  PROVE  /\ Selected(c, Recent(c, last)) \in Seq(Nat)
         /\ ContextOK(c, Selected(c, Recent(c, last)), last)
<1> DEFINE m == book[c].messages
           n == IF last < MaxMessages THEN last ELSE MaxMessages
<1>1. /\ Len(m) \in Nat /\ last \in Nat /\ last \in 0..Len(m) /\ last >= 1
      /\ \A k \in 1..Len(m) : m[k] \in Nat
  BY MessageTyped
<1>2. n \in 0..last /\ n >= 1 /\ n <= MaxMessages /\ (n < MaxMessages => n = last)
  BY <1>1, BookAssumption
<1>3. Recent(c, last) = Window(last, n)
  BY <1>1 DEF Recent, Window
<1> HIDE DEF m, n
<1>4. PICK p \in [0..last -> Nat] : Sums(p, m, 1, last)
  <2>1. \A k \in 1..last : m[k] \in Nat
    BY <1>1
  <2>2. 1 \in Nat \ {0} /\ 1 - 1 <= last
    BY <1>1
  <2>3. \E p \in [(1 - 1)..last -> Nat] : Sums(p, m, 1, last)
    BY <1>1, <2>1, <2>2, SumsExist
  <2>4. 1 - 1 = 0
    OBVIOUS
  <2> QED  BY <2>3, <2>4
<1> DEFINE w == Window(last, n)
<1>5. /\ w \in Seq(Nat) /\ Len(w) = n /\ \A k \in 1..n : w[k] = last - n + k
  BY <1>1, <1>2, WindowTyped
<1>6. /\ \E f : Spends(f, m, w)
      /\ \A f : Spends(f, m, w) => \A k \in 1..(n + 1) : f[k] = p[last] - p[last - n + k - 1]
  BY <1>1, <1>2, <1>4, WindowCosts DEF m
<1> HIDE DEF w
<1>7. ASSUME NEW f, Spends(f, m, w)
      PROVE  /\ \E k \in 1..(n + 1) : Fits(f, n, k)
             /\ \A k \in 1..(n + 1) : f[k] \in Int
  <2>1. ASSUME NEW k \in 1..(n + 1) PROVE f[k] \in Int
    <3>1. last - n + k - 1 \in 0..last
      BY <1>1, <1>2
    <3>2. p[last] \in Nat /\ p[last - n + k - 1] \in Nat
      BY <1>1, <3>1
    <3> QED  BY <1>6, <1>7, <3>2
  <2>2. f[n + 1] = 0
    BY <1>2, <1>5, <1>7 DEF Spends
  <2>3. n \in Nat
    BY <1>1, <1>2
  <2> QED  BY <2>1, <2>2, <2>3, FirstExists
<1>8. PICK f : /\ Spends(f, m, w)
               /\ \E k \in 1..(n + 1) : Fits(f, n, k) /\ Selected(c, w) = SubSeq(w, k, n)
  <2>1. n \in Nat
    BY <1>1, <1>2
  <2>2. /\ \E g : Spends(g, book[c].messages, w)
        /\ \A g : Spends(g, book[c].messages, w) => \E k \in 1..(n + 1) : Fits(g, n, k)
    BY <1>6, <1>7 DEF m
  <2> QED  BY <2>1, <2>2, <1>5, SelectedIsRest DEF m
<1>9. PICK k \in 1..(n + 1) : Fits(f, n, k) /\ Selected(c, w) = SubSeq(w, k, n)
  BY <1>8
<1> DEFINE q == SubSeq(w, k, n)
           from == last - Len(q) + 1
<1>10. /\ q \in Seq(Nat) /\ Len(q) = n + 1 - k
       /\ \A i \in 1..Len(q) : q[i] = last - n + (k + i - 1)
  <2>1. /\ n \in Nat /\ k \in Nat /\ \A i \in k..n : w[i] \in Nat
    BY <1>1, <1>2, <1>5
  <2>2. /\ q \in Seq(Nat) /\ Len(q) = n + 1 - k
        /\ \A i \in 1..Len(q) : q[i] = w[k + i - 1]
    BY <2>1, <1>2, <1>5
  <2>3. \A i \in 1..Len(q) : k + i - 1 \in 1..n
    BY <2>1, <2>2
  <2> QED  BY <2>2, <2>3, <1>5
<1> HIDE DEF q
<1>11. ASSUME NEW i \in 1..(n + 1)
       PROVE  CostOf(c, last - n + i, last) = f[i]
  <2>1. PICK a \in Nat \ {0} : a = last - n + i
    BY <1>1, <1>2
  <2>2. a - 1 <= last /\ a - 1 \in 0..last /\ last - n + i - 1 = a - 1
    BY <1>1, <1>2, <2>1
  <2>3. PICK h \in [(a - 1)..last -> Nat] : Sums(h, m, a, last) /\ CostOf(c, a, last) = h[last]
    BY <1>1, <2>2, CostIsSum DEF m
  <2>4. p[last] = h[last] + p[a - 1]
    <3>1. last \in Nat /\ last \in (a - 1)..last /\ \A j \in 1..last : m[j] \in Nat
      BY <1>1, <2>2
    <3>2. \A j \in (a - 1)..last : p[j] = h[j] + p[a - 1]
      <4>1. /\ a \in Nat \ {0} /\ last \in Nat
            /\ h \in [(a - 1)..last -> Nat] /\ p \in [0..last -> Nat]
        BY <3>1
      <4>2. Sums(h, m, a, last) /\ Sums(p, m, 1, last) /\ \A j \in 1..last : m[j] \in Nat
        BY <1>4, <2>3, <3>1
      <4> QED  BY <4>1, <4>2, SumsShift, Zenon
    <3> QED  BY <3>1, <3>2
  <2>5. h[last] \in Nat /\ p[last] \in Nat /\ p[a - 1] \in Nat
    BY <1>1, <2>2, <2>3
  <2>6. f[i] = p[last] - p[a - 1]
    BY <1>6, <1>8, <2>2
  <2> QED  BY <2>1, <2>3, <2>4, <2>5, <2>6
<1>12. n \in Nat /\ k \in Nat /\ k >= 1 /\ k <= n + 1
  BY <1>1, <1>2
<1>13. from = last - n + k /\ Len(q) <= MaxMessages /\ Len(q) <= last
  BY <1>1, <1>2, <1>10, <1>12, BookAssumption
<1>14. \A i \in 1..Len(q) : q[i] = from + i - 1
  <2> SUFFICES ASSUME NEW i \in 1..Len(q) PROVE q[i] = from + i - 1
    OBVIOUS
  <2>1. last - n + (k + i - 1) = (last - n + k) + i - 1
    BY <1>1, <1>10, <1>12
  <2> QED  BY <1>10, <1>13, <2>1
<1>15. CostOf(c, from, last) <= MaxCost
  <2>1. CostOf(c, from, last) = f[k]
    BY <1>11, <1>13
  <2>2. k \in k..(n + 1)
    BY <1>12
  <2> QED  BY <1>9, <2>1, <2>2 DEF Fits
<1>16. ASSUME from > 1, Len(q) < MaxMessages
       PROVE  CostOf(c, from - 1, last) > MaxCost
  <2>1. CASE k = 1
    <3>1. n = last
      BY <1>2, <1>10, <1>12, <1>16, <2>1
    <3> QED  BY <1>1, <1>12, <1>13, <1>16, <2>1, <3>1
  <2>2. CASE k # 1
    <3>1. k - 1 \in 1..(n + 1) /\ from - 1 = last - n + (k - 1)
      BY <1>1, <1>12, <1>13, <2>2
    <3>2. CostOf(c, from - 1, last) = f[k - 1]
      BY <1>11, <3>1
    <3> QED  BY <1>9, <2>2, <3>2 DEF Fits
  <2> QED  BY <2>1, <2>2
<1>17. ContextOK(c, q, last)
  BY <1>13, <1>14, <1>15, <1>16 DEF ContextOK
<1> QED  BY <1>3, <1>9, <1>10, <1>17 DEF w, q

-----------------------------------------------------------------------------
(* The order of a list *)

LEMMA LineFields ==
  ASSUME NEW p \in Line
  PROVE  p.pinned \in BOOLEAN /\ p.updated \in Nat /\ p.id \in Nat /\ p.id \in Ids
BY BookAssumption DEF Line

LEMMA LineEqual ==
  ASSUME NEW p \in Line, NEW q \in Line, p.pinned = q.pinned, p.updated = q.updated, p.id = q.id
  PROVE  p = q
BY DEF Line

\* The order of a list is total and strict.
LEMMA BeforeIrreflexive ==
  ASSUME NEW p \in Line
  PROVE  ~Before(p, p)
BY LineFields DEF Before

LEMMA BeforeTransitive ==
  ASSUME NEW p \in Line, NEW q \in Line, NEW r \in Line, Before(p, q), Before(q, r)
  PROVE  Before(p, r)
<1>1. /\ p.pinned \in BOOLEAN /\ q.pinned \in BOOLEAN /\ r.pinned \in BOOLEAN
      /\ p.updated \in Nat /\ q.updated \in Nat /\ r.updated \in Nat
      /\ p.id \in Nat /\ q.id \in Nat /\ r.id \in Nat
  BY LineFields
<1> QED  BY <1>1 DEF Before

LEMMA BeforeTotal ==
  ASSUME NEW p \in Line, NEW q \in Line, p # q
  PROVE  Before(p, q) \/ Before(q, p)
<1>1. /\ p.pinned \in BOOLEAN /\ q.pinned \in BOOLEAN
      /\ p.updated \in Nat /\ q.updated \in Nat /\ p.id \in Nat /\ q.id \in Nat
  BY LineFields
<1>2. ~(p.pinned = q.pinned /\ p.updated = q.updated /\ p.id = q.id)
  BY LineEqual
<1> QED  BY <1>1, <1>2 DEF Before

Below(E, e) == {f \in E : Before(f, e)}

LEMMA RankGrows ==
  ASSUME NEW E \in SUBSET Line, IsFiniteSet(E), NEW d \in E, NEW e \in E, Before(d, e)
  PROVE  Cardinality(Below(E, d)) < Cardinality(Below(E, e))
<1>1. \A x \in E : Below(E, x) \in SUBSET E /\ IsFiniteSet(Below(E, x))
                   /\ Cardinality(Below(E, x)) \in Nat
  BY FS_Subset, FS_CardinalityType DEF Below
<1>2. Below(E, d) \in SUBSET Below(E, e)
  <2> SUFFICES ASSUME NEW f \in E, Before(f, d) PROVE Before(f, e)
    BY DEF Below
  <2>1. f \in Line /\ d \in Line /\ e \in Line
    OBVIOUS
  <2> QED  BY <2>1, BeforeTransitive
<1>3. d \in Below(E, e) /\ d \notin Below(E, d)
  <2>1. d \in Line
    OBVIOUS
  <2> QED  BY <2>1, BeforeIrreflexive DEF Below
<1>4. Below(E, d) # Below(E, e)
  BY <1>3
<1>5. /\ Cardinality(Below(E, d)) <= Cardinality(Below(E, e))
      /\ Cardinality(Below(E, d)) # Cardinality(Below(E, e))
  BY <1>1, <1>2, <1>4, FS_Subset
<1> QED  BY <1>1, <1>5

\* Every line has a place of its own.
LEMMA RankExists ==
  ASSUME NEW E \in SUBSET Line, IsFiniteSet(E), NEW k \in 1..Cardinality(E)
  PROVE  \E e \in E : Cardinality(Below(E, e)) = k - 1
<1> DEFINE n == Cardinality(E)
           rank == [e \in E |-> Cardinality(Below(E, e))]
<1>1. n \in Nat
  BY FS_CardinalityType
<1>2. ASSUME NEW e \in E
      PROVE  Cardinality(Below(E, e)) \in 0..(n - 1)
  <2>1. /\ IsFiniteSet(E \ {e}) /\ Cardinality(E \ {e}) = n - 1
    BY FS_RemoveElement
  <2>2. e \in Line
    OBVIOUS
  <2>3. Below(E, e) \in SUBSET (E \ {e})
    BY <2>2, BeforeIrreflexive DEF Below
  <2>4. /\ Cardinality(Below(E, e)) <= n - 1
        /\ IsFiniteSet(Below(E, e))
    BY <2>1, <2>3, FS_Subset
  <2>5. Cardinality(Below(E, e)) \in Nat
    BY <2>4, FS_CardinalityType
  <2> QED  BY <1>1, <2>4, <2>5
<1>3. \A d, e \in E : rank[d] = rank[e] => d = e
  <2> SUFFICES ASSUME NEW d \in E, NEW e \in E, rank[d] = rank[e], d # e PROVE FALSE
    OBVIOUS
  <2>1. d \in Line /\ e \in Line
    OBVIOUS
  <2>2. Before(d, e) \/ Before(e, d)
    BY <2>1, BeforeTotal
  <2>3. rank[d] < rank[e] \/ rank[e] < rank[d]
    BY <2>2, RankGrows
  <2>4. rank[d] \in 0..(n - 1) /\ rank[e] \in 0..(n - 1)
    BY <1>2
  <2>5. rank[d] \in Int /\ rank[e] \in Int
    BY <1>1, <2>4
  <2> QED  BY <2>3, <2>5
<1>4. rank \in Injection(E, 0..(n - 1))
  BY <1>2, <1>3 DEF Injection, IsInjective
<1>5. IsFiniteSet(0..(n - 1)) /\ Cardinality(0..(n - 1)) = n
  <2>1. 0 \in Int /\ n - 1 \in Int
    BY <1>1
  <2>2. /\ IsFiniteSet(0..(n - 1))
        /\ Cardinality(0..(n - 1)) = IF 0 > n - 1 THEN 0 ELSE (n - 1) - 0 + 1
    BY <2>1, FS_Interval
  <2> QED  BY <1>1, <2>2
<1>6. rank \in Surjection(E, 0..(n - 1))
  BY <1>4, <1>5, FS_Injection
<1>7. k - 1 \in 0..(n - 1)
  BY <1>1
<1>8. \E e \in E : rank[e] = k - 1
  BY <1>6, <1>7 DEF Surjection
<1> QED  BY <1>8

\* ORDER BY lists every line once, in order.
LEMMA OrderedLines ==
  ASSUME NEW E \in SUBSET Line, IsFiniteSet(E)
  PROVE  /\ Cardinality(E) \in Nat
         /\ Ordered(E) \in Seq(E)
         /\ Len(Ordered(E)) = Cardinality(E)
         /\ \A i, j \in 1..Cardinality(E) : i < j => Before(Ordered(E)[i], Ordered(E)[j])
         /\ \A e \in E : \E k \in 1..Cardinality(E) : Ordered(E)[k] = e
<1> DEFINE n == Cardinality(E)
           R == Ordered(E)
           place(k) == CHOOSE e \in E : Cardinality(Below(E, e)) = k - 1
<1>1. n \in Nat
  BY FS_CardinalityType
<1>2. ASSUME NEW k \in 1..n
      PROVE  R[k] \in E /\ Cardinality(Below(E, R[k])) = k - 1
  <2>1. \E e \in E : Cardinality(Below(E, e)) = k - 1
    BY RankExists
  <2>2. R[k] = CHOOSE e \in E : Cardinality(Below(E, e)) = k - 1
    BY Zenon DEF Ordered, Below
  <2> HIDE DEF R
  <2> QED  BY <2>1, <2>2, Zenon
<1>3. R = [k \in 1..n |-> place(k)]
  BY Zenon DEF Ordered, Below
<1> HIDE DEF R, n, place
<1>4. R \in Seq(E) /\ Len(R) = n
  <2>1. R \in [1..n -> E]
    BY <1>2, <1>3
  <2> QED  BY <1>1, <2>1
<1>5. ASSUME NEW i \in 1..n, NEW j \in 1..n, i < j
      PROVE  Before(R[i], R[j])
  <2>1. /\ R[i] \in E /\ R[j] \in E /\ R[i] \in Line /\ R[j] \in Line
        /\ Cardinality(Below(E, R[i])) = i - 1 /\ Cardinality(Below(E, R[j])) = j - 1
    BY <1>2
  <2>2. i - 1 < j - 1 /\ i - 1 \in Int /\ j - 1 \in Int
    BY <1>1, <1>5
  <2>3. R[i] # R[j]
    BY <2>1, <2>2
  <2>4. ASSUME Before(R[j], R[i]) PROVE FALSE
    <3>1. Cardinality(Below(E, R[j])) < Cardinality(Below(E, R[i]))
      BY <2>1, <2>4, RankGrows
    <3> QED  BY <2>1, <2>2, <3>1
  <2> QED  BY <2>1, <2>3, <2>4, BeforeTotal
<1>6. ASSUME NEW e \in E
      PROVE  \E k \in 1..n : R[k] = e
  <2>1. e \in Line
    OBVIOUS
  <2>2. \E k \in 1..n : Cardinality(Below(E, e)) = k - 1
    <3>1. /\ IsFiniteSet(E \ {e}) /\ Cardinality(E \ {e}) = n - 1
      BY FS_RemoveElement DEF n
    <3>2. Below(E, e) \in SUBSET (E \ {e})
      BY <2>1, BeforeIrreflexive DEF Below
    <3>3. /\ Cardinality(Below(E, e)) <= n - 1
          /\ IsFiniteSet(Below(E, e))
      BY <3>1, <3>2, FS_Subset
    <3>4. Cardinality(Below(E, e)) \in Nat
      BY <3>3, FS_CardinalityType
    <3>5. Cardinality(Below(E, e)) + 1 \in 1..n
      BY <1>1, <3>3, <3>4
    <3> QED  BY <3>4, <3>5
  <2>3. PICK k \in 1..n : Cardinality(Below(E, e)) = k - 1
    BY <2>2
  <2>4. R[k] \in E /\ R[k] \in Line /\ Cardinality(Below(E, R[k])) = k - 1
    BY <1>2
  <2>5. ASSUME R[k] # e PROVE FALSE
    <3>1. Before(R[k], e) \/ Before(e, R[k])
      BY <2>1, <2>4, <2>5, BeforeTotal
    <3>2. k - 1 < k - 1
      BY <2>3, <2>4, <3>1, RankGrows
    <3> QED  BY <1>1, <3>2
  <2> QED  BY <2>5
<1> QED  BY <1>1, <1>4, <1>5, <1>6 DEF R, n

-----------------------------------------------------------------------------
(* Sessions that do not move *)

LEMMA IdleSession ==
  Idle \in Session /\ Idle.at = "idle" /\ Idle.job = "idle" /\ Idle.cursor = <<>>
    /\ Idle.seen = <<>> /\ Idle.mark = 0
<1>1. /\ (CHOOSE o \in Owners : TRUE) \in Owners
      /\ (CHOOSE i \in Ids : TRUE) \in Ids
  BY BookAssumption
<1>2. /\ "idle" \in Step /\ FALSE \in BOOLEAN /\ 0 \in Nat
      /\ <<>> \in Seq(Line) /\ <<>> \in Seq(Nat)
  BY DEF Step
<1>3. PICK e \in Seq(Line), d \in Seq(Nat) : e = <<>> /\ d = <<>>
  BY <1>2
<1>4. Idle = [at |-> "idle", job |-> "idle", who |-> CHOOSE o \in Owners : TRUE,
              id |-> CHOOSE i \in Ids : TRUE, flag |-> FALSE, mark |-> 0, cursor |-> e,
              base |-> 0, seen |-> d]
  BY <1>3 DEF Idle
<1> QED  BY <1>1, <1>2, <1>3, <1>4 DEF Session

\* Session s becomes v.
Becomes(s, v) ==
  /\ ses' \in [Sessions -> Session]
  /\ ses'[s] = v
  /\ \A t \in Sessions \ {s} : ses'[t] = ses[t]

LEMMA BecomesTyped ==
  ASSUME ses \in [Sessions -> Session], NEW s \in Sessions, NEW v \in Session,
         ses' = [ses EXCEPT ![s] = v]
  PROVE  Becomes(s, v)
BY DEF Becomes

\* A session that goes to x keeps everything else.
LEMMA GotoTyped ==
  ASSUME ses \in [Sessions -> Session], NEW s \in Sessions, NEW x \in Step, Goto(s, x)
  PROVE  \E v \in Session :
           /\ Becomes(s, v) /\ v.at = x
           /\ v.job = ses[s].job /\ v.who = ses[s].who /\ v.id = ses[s].id
           /\ v.cursor = ses[s].cursor /\ v.seen = ses[s].seen /\ v.mark = ses[s].mark
           /\ v.base = ses[s].base
<1>1. ses[s] \in Session
  OBVIOUS
<1>2. PICK v : v = [ses[s] EXCEPT !.at = x]
  OBVIOUS
<1>3. v \in Session /\ v.at = x
      /\ v.job = ses[s].job /\ v.who = ses[s].who /\ v.id = ses[s].id
      /\ v.cursor = ses[s].cursor /\ v.seen = ses[s].seen /\ v.mark = ses[s].mark
      /\ v.base = ses[s].base
  BY <1>1, <1>2 DEF Session
<1>4. ses' = [ses EXCEPT ![s] = v]
  BY <1>2 DEF Goto
<1> QED  BY <1>3, <1>4, BecomesTyped

Extends(m, n) == Len(m) <= Len(n) /\ \A k \in 1..Len(m) : n[k] = m[k]

\* What a step may do to the tables under a session that reads.
BookStep ==
  /\ book' \in [Ids -> Conversation]
  /\ touched' \in [Sessions -> SUBSET Ids]
  /\ \A t \in Sessions : touched[t] \subseteq touched'[t]
  /\ \A c \in Ids : book'[c] # book[c] =>
       \A t \in Sessions : ses[t].job = "list" => c \in touched'[t]
  /\ \A c \in Ids : book[c].row # "unborn" =>
       /\ book'[c].row # "unborn"
       /\ book'[c].row = "stored" => Stored(c) /\ Extends(book[c].messages, book'[c].messages)

LEMMA MessagesTyped ==
  ASSUME book \in [Ids -> Conversation], NEW c \in Ids
  PROVE  /\ MessagesOK(book[c].messages)
         /\ Len(book[c].messages) \in Nat
<1>1. book[c] \in Conversation
  OBVIOUS
<1> QED  BY <1>1 DEF Conversation, MessagesOK

LEMMA SameBook ==
  ASSUME TypeOK, UNCHANGED <<book, touched>>
  PROVE  BookStep
<1>1. \A c \in Ids : Len(book[c].messages) \in Nat
  BY MessagesTyped DEF TypeOK
<1>2. \A c \in Ids : Extends(book[c].messages, book'[c].messages)
  BY <1>1 DEF Extends
<1> QED  BY <1>2 DEF BookStep, TypeOK, Stored

LEMMA WriteBook ==
  ASSUME TypeOK, NEW c \in Ids, NEW v \in Conversation, Write(c, v), v.row # "unborn",
         book[c].row # "unborn" /\ v.row = "stored"
           => Stored(c) /\ Extends(book[c].messages, v.messages)
  PROVE  BookStep
<1>1. /\ book' \in [Ids -> Conversation] /\ book'[c] = v
      /\ \A d \in Ids : d # c => book'[d] = book[d]
  BY DEF Write, TypeOK
<1>2. /\ touched' \in [Sessions -> SUBSET Ids]
      /\ \A t \in Sessions : touched[t] \subseteq touched'[t]
      /\ \A t \in Sessions : ses[t].job = "list" => c \in touched'[t]
  BY DEF Write, TypeOK
<1>3. ASSUME NEW d \in Ids, book[d].row # "unborn"
      PROVE  /\ book'[d].row # "unborn"
             /\ book'[d].row = "stored"
                  => Stored(d) /\ Extends(book[d].messages, book'[d].messages)
  <2>1. CASE d = c
    BY <1>1, <1>3, <2>1
  <2>2. CASE d # c
    <3>1. Len(book[d].messages) \in Nat
      BY MessagesTyped DEF TypeOK
    <3>2. book'[d] = book[d]
      BY <1>1, <2>2
    <3> QED  BY <1>3, <3>1, <3>2 DEF Extends, Stored
  <2> QED  BY <2>1, <2>2
<1> QED  BY <1>1, <1>2, <1>3 DEF BookStep

\* What is still owed to a listing session has not changed.
LEMMA StillKept ==
  ASSUME TypeOK, BookStep, NEW t \in Sessions, ses[t].job = "list", ses'[t].who = ses[t].who
  PROVE  \A c \in Still(t)' : /\ c \in Ids /\ c \in Still(t) /\ book'[c] = book[c]
                              /\ LineOf(c)' = LineOf(c)
<1> SUFFICES ASSUME NEW c \in Still(t)'
             PROVE  c \in Ids /\ c \in Still(t) /\ book'[c] = book[c] /\ LineOf(c)' = LineOf(c)
  OBVIOUS
<1>1. c \in Ids /\ Owned(ses[t].who, c)' /\ c \notin touched'[t]
  BY DEF Still, Owned, Stored
<1>2. book'[c] = book[c]
  BY <1>1 DEF BookStep
<1>3. c \notin touched[t]
  BY <1>1 DEF BookStep
<1>4. Owned(ses[t].who, c)
  BY <1>1, <1>2 DEF Owned, Stored
<1> QED  BY <1>1, <1>2, <1>3, <1>4 DEF Still, LineOf

\* Session t keeps what it has read.
Keeps(t) ==
  /\ ses'[t].at \in {ses[t].at, "dead"}
  /\ ses'[t].job = ses[t].job /\ ses'[t].who = ses[t].who /\ ses'[t].id = ses[t].id
  /\ ses'[t].cursor = ses[t].cursor /\ ses'[t].seen = ses[t].seen
  /\ ses'[t].mark = ses[t].mark /\ ses'[t].base = ses[t].base

LEMMA ListingKept ==
  ASSUME TypeOK, BookStep, NEW t \in Sessions, Keeps(t), Listing(t)
  PROVE  Listing(t)'
<1> SUFFICES ASSUME ses[t].job = "list" PROVE Listing(t)'
  BY DEF Listing, Keeps
<1>1. \A c \in Still(t)' : c \in Still(t) /\ LineOf(c)' = LineOf(c)
  BY StillKept DEF Keeps
<1>2. /\ ses[t].at \in {"list", "done", "dead"}
      /\ DOMAIN ses[t].cursor \subseteq {1}
      /\ ses[t].at = "list" => \A c \in Still(t) : Seen(t, c) <=> Passed(t, c)
      /\ ses[t].at = "done" => \A c \in Still(t) : Seen(t, c)
      /\ \A i, k \in DOMAIN ses[t].seen :
           i < k /\ {ses[t].seen[i], ses[t].seen[k]} \subseteq Still(t)
           => Before(LineOf(ses[t].seen[i]), LineOf(ses[t].seen[k]))
  BY DEF Listing
<1>3. /\ ses'[t].at \in {"list", "done", "dead"}
      /\ DOMAIN ses'[t].cursor \subseteq {1}
  BY <1>2 DEF Keeps
<1>4. ASSUME ses'[t].at = "list", NEW c \in Still(t)'
      PROVE  Seen(t, c)' <=> Passed(t, c)'
  <2>1. Seen(t, c) <=> Passed(t, c)
    BY <1>1, <1>2, <1>4 DEF Keeps
  <2>2. Seen(t, c)' <=> Seen(t, c)
    BY DEF Seen, Keeps
  <2>3. Passed(t, c)' <=> Passed(t, c)
    BY <1>1, <1>4 DEF Passed, Keeps
  <2> QED  BY <2>1, <2>2, <2>3
<1>5. ASSUME ses'[t].at = "done", NEW c \in Still(t)'
      PROVE  Seen(t, c)'
  <2>1. Seen(t, c)
    BY <1>1, <1>2, <1>5 DEF Keeps
  <2> QED  BY <2>1 DEF Seen, Keeps
<1>6. ASSUME NEW i \in DOMAIN ses'[t].seen, NEW k \in DOMAIN ses'[t].seen, i < k,
             {ses'[t].seen[i], ses'[t].seen[k]} \subseteq Still(t)'
      PROVE  Before(LineOf(ses[t].seen[i]), LineOf(ses[t].seen[k]))'
  <2>1. PICK c, d : c = ses[t].seen[i] /\ d = ses[t].seen[k]
    OBVIOUS
  <2>2. c \in Still(t)' /\ d \in Still(t)' /\ ses'[t].seen = ses[t].seen
    BY <1>6, <2>1 DEF Keeps
  <2>3. Before(LineOf(c), LineOf(d))
    BY <1>1, <1>2, <1>6, <2>1, <2>2
  <2>4. LineOf(c)' = LineOf(c) /\ LineOf(d)' = LineOf(d)
    BY <1>1, <2>2
  <2>5. Before(LineOf(c)', LineOf(d)')
    BY <2>3, <2>4
  <2>6. c = ses'[t].seen[i] /\ d = ses'[t].seen[k]
    BY <2>1, <2>2
  <2> QED  BY <2>5, <2>6
<1> QED  BY <1>3, <1>4, <1>5, <1>6 DEF Listing

\* The context q of a turn stays the longest while messages are appended.
LEMMA ContextKept ==
  ASSUME TypeOK, BookStep, NEW c \in Ids, Stored(c)', book[c].row # "unborn",
         NEW q \in Seq(Nat), NEW m \in 0..Len(book[c].messages), ContextOK(c, q, m)
  PROVE  ContextOK(c, q, m)'
<1>1. /\ Extends(book[c].messages, book'[c].messages)
      /\ MessagesOK(book[c].messages) /\ Len(book[c].messages) \in Nat
  BY MessagesTyped DEF TypeOK, BookStep, Stored
<1>2. MessagesOK(book'[c].messages)
  <2>1. book'[c] \in Conversation
    BY DEF BookStep
  <2> QED  BY <2>1 DEF Conversation, MessagesOK
<1>3. m \in Nat /\ Len(q) \in Nat /\ Len(q) <= m
  BY <1>1 DEF ContextOK
<1>4. ASSUME NEW a \in Nat \ {0}, a - 1 <= m
      PROVE  CostOf(c, a, m)' = CostOf(c, a, m)
  <2>1. /\ a \in Nat \ {0} /\ m \in 0..Len(book[c].messages) /\ a - 1 <= m
        /\ Len(book[c].messages) <= Len(book'[c].messages)
        /\ \A k \in 1..Len(book[c].messages) : book'[c].messages[k] = book[c].messages[k]
    BY <1>1, <1>4 DEF Extends
  <2> QED  BY <1>1, <1>2, <2>1, CostKept
<1> DEFINE from == m - Len(q) + 1
<1>5. from \in Nat \ {0} /\ from - 1 <= m
  BY <1>3
<1>6. CostOf(c, from, m)' = CostOf(c, from, m)
  BY <1>4, <1>5
<1>7. from > 1 => CostOf(c, from - 1, m)' = CostOf(c, from - 1, m)
  <2> SUFFICES ASSUME from > 1 PROVE CostOf(c, from - 1, m)' = CostOf(c, from - 1, m)
    OBVIOUS
  <2>1. from - 1 \in Nat \ {0} /\ (from - 1) - 1 <= m
    BY <1>3
  <2> QED  BY <1>4, <2>1
<1> QED  BY <1>6, <1>7 DEF ContextOK

LEMMA PagingKept ==
  ASSUME TypeOK, BookStep, NEW t \in Sessions, Keeps(t), Paging(t)
  PROVE  Paging(t)'
<1> SUFFICES ASSUME ses[t].job = "history" PROVE Paging(t)'
  BY DEF Paging, Keeps
<1>1. PICK c \in Ids : c = ses[t].id
  BY DEF TypeOK, Session
<1>2. /\ ses[t].base \in Nat /\ ses[t].mark \in Nat /\ Len(book[c].messages) \in Nat
  BY MessagesTyped DEF TypeOK, Session
<1>3. ses'[t].at \in {"history", "done", "dead"} /\ book'[c].row # "unborn"
  BY <1>1 DEF Paging, Keeps, BookStep
<1>4. ASSUME Stored(c)'
      PROVE  /\ ses[t].base <= Len(book'[c].messages)
             /\ \A k \in DOMAIN ses[t].seen : ses[t].seen[k] = k
             /\ ses'[t].at = "history" => /\ ses[t].mark = Len(ses[t].seen)
                                          /\ ses[t].mark <= Len(book'[c].messages)
             /\ ses'[t].at = "done" => Len(ses[t].seen) >= ses[t].base
  <2>1. Stored(c) /\ Len(book[c].messages) <= Len(book'[c].messages)
    BY <1>1, <1>4 DEF Paging, BookStep, Stored, Extends
  <2>2. Len(book'[c].messages) \in Nat
    <3>1. book'[c] \in Conversation
      BY DEF BookStep
    <3> QED  BY <3>1 DEF Conversation
  <2>3. /\ ses[t].base <= Len(book[c].messages)
        /\ \A k \in DOMAIN ses[t].seen : ses[t].seen[k] = k
        /\ ses'[t].at = "history" => /\ ses[t].mark = Len(ses[t].seen)
                                     /\ ses[t].mark <= Len(book[c].messages)
        /\ ses'[t].at = "done" => Len(ses[t].seen) >= ses[t].base
    BY <1>1, <2>1 DEF Paging, Keeps
  <2>4. /\ ses[t].base <= Len(book'[c].messages)
        /\ ses[t].mark <= Len(book[c].messages) => ses[t].mark <= Len(book'[c].messages)
    <3>1. PICK x \in Nat, y \in Nat, l \in Nat, m \in Nat :
            x = ses[t].base /\ y = ses[t].mark /\ l = Len(book[c].messages)
            /\ m = Len(book'[c].messages)
      BY <1>2, <2>2
    <3>2. x <= l /\ l <= m
      BY <2>1, <2>3, <3>1
    <3>3. x <= m /\ (y <= l => y <= m)
      BY <3>2
    <3> QED  BY <3>1, <3>3
  <2> QED  BY <2>3, <2>4
<1> QED  BY <1>1, <1>3, <1>4 DEF Paging, Keeps

LEMMA TurningKept ==
  ASSUME TypeOK, BookStep, NEW t \in Sessions, Keeps(t), Turning(t)
  PROVE  Turning(t)'
<1> SUFFICES ASSUME ses[t].job = "append" PROVE Turning(t)'
  BY DEF Turning, Keeps
<1>1. PICK c \in Ids : c = ses[t].id
  BY DEF TypeOK, Session
<1>2. ses[t].mark \in Nat /\ Len(book[c].messages) \in Nat /\ ses[t].seen \in Seq(Nat)
  BY MessagesTyped DEF TypeOK, Session
<1>3. ses'[t].at \in {"append", "title", "context", "done", "dead"} /\ book'[c].row # "unborn"
  BY <1>1 DEF Turning, Keeps, BookStep
<1>4. ASSUME Stored(c)'
      PROVE  /\ ses[t].mark <= Len(book'[c].messages)
             /\ ses'[t].at \in {"title", "context"} => ses[t].mark > 0
             /\ ses'[t].at = "done" /\ ses[t].mark > 0
                  => ContextOK(c, ses[t].seen, ses[t].mark)'
  <2>1. Stored(c) /\ Len(book[c].messages) <= Len(book'[c].messages) /\ book[c].row # "unborn"
    BY <1>1, <1>4 DEF Turning, BookStep, Stored, Extends
  <2>2. Len(book'[c].messages) \in Nat
    <3>1. book'[c] \in Conversation
      BY DEF BookStep
    <3> QED  BY <3>1 DEF Conversation
  <2>3. ses[t].mark <= Len(book[c].messages) /\ ses[t].mark \in 0..Len(book[c].messages)
    BY <1>1, <1>2, <2>1 DEF Turning
  <2>4. ses'[t].at \in {"title", "context"} => ses[t].mark > 0
    BY <1>1, <2>1 DEF Turning, Keeps
  <2>5. ASSUME ses'[t].at = "done", ses[t].mark > 0
        PROVE  ContextOK(c, ses[t].seen, ses[t].mark)'
    <3>1. ContextOK(c, ses[t].seen, ses[t].mark)
      BY <1>1, <2>1, <2>5 DEF Turning, Keeps
    <3>2. PICK q \in Seq(Nat), m \in 0..Len(book[c].messages) : q = ses[t].seen /\ m = ses[t].mark
      BY <1>2, <2>3
    <3>3. ContextOK(c, q, m)'
      BY <1>4, <2>1, <3>1, <3>2, ContextKept
    <3> QED  BY <3>2, <3>3 DEF Keeps
  <2> QED  BY <1>2, <2>1, <2>2, <2>3, <2>4, <2>5
<1> QED  BY <1>1, <1>3, <1>4 DEF Turning, Keeps

-----------------------------------------------------------------------------
(* The steps *)

Dated == \A c \in Ids : book[c].updated <= clock

LEMMA ReadsStep ==
  ASSUME IInv', ReadsInv, BookStep, Dated', NEW s \in Sessions, NEW v, Becomes(s, v),
         Along(s)', Listing(s)', Paging(s)', Turning(s)'
  PROVE  ReadsInv'
<1>1. TypeOK'
  BY DEF IInv, TablesOK, BookStep, Becomes, Dated, TypeOK
<1>2. ASSUME NEW t \in Sessions
      PROVE  Along(t)' /\ Listing(t)' /\ Paging(t)' /\ Turning(t)'
  <2>1. CASE t = s
    BY <2>1
  <2>2. CASE t # s
    <3>1. Keeps(t)
      BY <2>2 DEF Becomes, Keeps
    <3>2. TypeOK /\ Along(t) /\ Listing(t) /\ Paging(t) /\ Turning(t)
      BY DEF ReadsInv
    <3>3. Along(t)'
      BY <3>1, <3>2 DEF Along, Keeps
    <3> QED  BY <3>1, <3>2, <3>3, ListingKept, PagingKept, TurningKept
  <2> QED  BY <2>1, <2>2
<1> QED  BY <1>1, <1>2 DEF ReadsInv

Reading == {"list", "history", "append"}

\* A step of a request that reads nothing.
LEMMA PlainStep ==
  ASSUME IInv', ReadsInv, BookStep, Dated', NEW s \in Sessions, NEW v, Becomes(s, v),
         v.job \notin Reading, v.at \notin {"list", "history", "append", "title", "context"}
  PROVE  ReadsInv'
<1>1. Along(s)' /\ Listing(s)' /\ Paging(s)' /\ Turning(s)'
  BY DEF Along, Listing, Paging, Turning, Becomes, Reading
<1> QED  BY <1>1, ReadsStep

\* The request of a session at one of the other steps reads nothing.
LEMMA JobOfStep ==
  ASSUME ReadsInv, NEW s \in Sessions,
         ses[s].at \in {"idle", "lock_owner", "lock_row", "pin", "rename", "delete"}
  PROVE  ses[s].job \notin Reading
BY DEF ReadsInv, Listing, Paging, Turning, Reading

LEMMA PlainGoto ==
  ASSUME IInv', ReadsInv, BookStep, Dated', NEW s \in Sessions,
         NEW x \in {"lock_row", "pin", "done"}, Goto(s, x),
         ses[s].at \in {"idle", "lock_owner", "lock_row", "pin", "rename", "delete"}
  PROVE  ReadsInv'
<1>1. x \in Step /\ x \notin {"list", "history", "append", "title", "context"}
  BY DEF Step
<1>2. PICK v \in Session : Becomes(s, v) /\ v.job = ses[s].job /\ v.at = x
  BY <1>1, GotoTyped DEF ReadsInv, TypeOK
<1>3. v.job \notin Reading
  BY <1>2, JobOfStep
<1> QED  BY <1>1, <1>2, <1>3, PlainStep

LEMMA StillDated ==
  ASSUME TypeOK, UNCHANGED book, clock' \in Nat, clock <= clock'
  PROVE  Dated'
<1>1. \A c \in Ids : book[c].updated \in Nat /\ book[c].updated <= clock /\ clock \in Nat
  BY DEF TypeOK, Conversation
<1> QED  BY <1>1 DEF Dated

LEMMA WriteDated ==
  ASSUME TypeOK, NEW c \in Ids, NEW v, Write(c, v), v.updated <= clock, UNCHANGED clock
  PROVE  Dated'
BY DEF TypeOK, Write, Dated

LEMMA SameTables ==
  ASSUME ReadsInv, UNCHANGED <<book, touched, clock>>
  PROVE  BookStep /\ Dated'
<1>1. TypeOK /\ clock' \in Nat /\ clock <= clock'
  BY DEF ReadsInv, TypeOK
<1> QED  BY <1>1, SameBook, StillDated

\* Writing back a row with other fields than its messages.
LEMMA ReplaceRow ==
  ASSUME ReadsInv, NEW c \in Ids, NEW v \in Conversation, Write(c, v), Stored(c),
         v.row = "stored", v.messages = book[c].messages, v.updated <= clock, UNCHANGED clock
  PROVE  BookStep /\ Dated'
<1>1. TypeOK
  BY DEF ReadsInv
<1>2. Len(book[c].messages) \in Nat
  BY <1>1, MessagesTyped DEF TypeOK
<1>3. Extends(book[c].messages, v.messages)
  BY <1>2 DEF Extends
<1> QED  BY <1>1, <1>3, WriteBook, WriteDated

LEMMA RowTyped ==
  ASSUME ReadsInv, NEW c \in Ids
  PROVE  /\ book[c] \in Conversation
         /\ book[c].updated \in Nat /\ book[c].updated <= clock
         /\ clock \in Nat
BY DEF ReadsInv, TypeOK, Conversation

LEMMA CreateReads ==
  ASSUME IInv', ReadsInv, NEW s \in Sessions, NEW who \in Owners, Create(s, who)
  PROVE  ReadsInv'
<1> DEFINE new == [row |-> "stored", owner |-> who, summary |-> "none",
                   pinned |-> FALSE, updated |-> clock, messages |-> <<>>]
<1>1. PICK c \in Ids : book[c].row = "unborn" /\ Write(c, new)
  BY DEF Create
<1>2. new \in Conversation /\ new.row = "stored" /\ new.updated <= clock
  BY DEF ReadsInv, TypeOK, Conversation, Summary
<1> HIDE DEF new
<1>3. TypeOK /\ UNCHANGED clock /\ Goto(s, "done") /\ ses[s].at = "idle" /\ "done" \in Step
  BY DEF ReadsInv, Create, Step
<1>4. BookStep
  BY <1>1, <1>2, <1>3, WriteBook
<1>5. Dated'
  BY <1>1, <1>2, <1>3, WriteDated
<1> QED  BY <1>3, <1>4, <1>5, PlainGoto

LEMMA ResolveReads ==
  ASSUME IInv', ReadsInv, NEW s \in Sessions, NEW who \in Owners, NEW c \in Ids,
         NEW first \in {"lock_owner", "rename", "delete", "append", "history"},
         NEW flag \in BOOLEAN, Resolve(s, who, c, first, flag)
  PROVE  ReadsInv'
<1>1. UNCHANGED <<book, touched, clock>> /\ TypeOK
  BY DEF Resolve, ReadsInv
<1>2. BookStep /\ Dated'
  BY <1>1, SameTables
<1>3. Len(book[c].messages) \in Nat
  BY <1>1, MessagesTyped DEF TypeOK
<1>4. first \in Step /\ "done" \in Step
  BY DEF Step
<1>5. CASE Owned(who, c)
  <2> DEFINE b == IF first = "history" THEN Len(book[c].messages) ELSE 0
  <2>1. PICK v : v = [Idle EXCEPT !.at = first, !.job = first, !.who = who, !.id = c,
                                  !.flag = flag, !.base = b]
    OBVIOUS
  <2>2. b \in Nat
    BY <1>3
  <2>3. ses' = [ses EXCEPT ![s] = v]
    BY <1>5, <2>1 DEF Resolve
  <2>4. first = "history" => b = Len(book[c].messages)
    OBVIOUS
  <2> HIDE DEF b
  <2>5. /\ v \in Session /\ v.at = first /\ v.job = first /\ v.id = c /\ v.base = b
        /\ v.mark = 0 /\ v.seen = <<>> /\ v.cursor = <<>>
    BY <1>4, <2>1, <2>2, IdleSession DEF Session
  <2>6. Becomes(s, v)
    BY <1>1, <2>3, <2>5, BecomesTyped DEF TypeOK
  <2>7. Listing(s)'
    BY <2>5, <2>6 DEF Listing, Becomes
  <2>8. book[c].row = "stored" /\ book' = book
    BY <1>1, <1>5 DEF Owned, Stored
  <2>9. Paging(s)'
    BY <1>3, <2>4, <2>5, <2>6, <2>8 DEF Paging, Becomes
  <2>10. Turning(s)'
    BY <1>3, <2>5, <2>6, <2>8 DEF Turning, Becomes
  <2>11. Along(s)'
    BY <2>5, <2>6 DEF Along, Becomes
  <2> QED  BY <1>2, <2>6, <2>7, <2>9, <2>10, <2>11, ReadsStep
<1>6. CASE ~Owned(who, c)
  <2>1. PICK v : v = [Idle EXCEPT !.at = "done"]
    OBVIOUS
  <2>2. ses' = [ses EXCEPT ![s] = v]
    BY <1>6, <2>1 DEF Resolve
  <2>3. v \in Session /\ v.job = "idle" /\ v.at = "done"
    BY <1>4, <2>1, IdleSession DEF Session
  <2>4. Becomes(s, v)
    BY <1>1, <2>2, <2>3, BecomesTyped DEF TypeOK
  <2> QED  BY <1>2, <2>3, <2>4, PlainStep DEF Reading
<1> QED  BY <1>5, <1>6

LEMMA ListBeginReads ==
  ASSUME IInv', ReadsInv, NEW s \in Sessions, NEW who \in Owners, ListBegin(s, who)
  PROVE  ReadsInv'
<1>1. UNCHANGED <<book, touched, clock>> /\ TypeOK
  BY DEF ListBegin, ReadsInv
<1>2. BookStep /\ Dated'
  BY <1>1, SameTables
<1>3. PICK v : v = [Idle EXCEPT !.at = "list", !.job = "list", !.who = who]
  OBVIOUS
<1>4. /\ v \in Session /\ v.at = "list" /\ v.job = "list" /\ v.seen = <<>> /\ v.cursor = <<>>
  BY <1>3, IdleSession DEF Session, Step
<1>5. ses' = [ses EXCEPT ![s] = v]
  BY <1>3 DEF ListBegin
<1>6. Becomes(s, v)
  BY <1>1, <1>4, <1>5, BecomesTyped DEF TypeOK
<1>7. Listing(s)'
  BY <1>4, <1>6 DEF Listing, Becomes, Seen, Passed
<1>8. Along(s)' /\ Paging(s)' /\ Turning(s)'
  BY <1>4, <1>6 DEF Along, Paging, Turning, Becomes
<1> QED  BY <1>2, <1>6, <1>7, <1>8, ReadsStep

LEMMA LocksReads ==
  ASSUME IInv', ReadsInv, NEW s \in Sessions, LockOwner(s) \/ LockRow(s)
  PROVE  ReadsInv'
<1>1. UNCHANGED <<book, touched, clock>> /\ ses[s].at \in {"lock_owner", "lock_row"}
  BY DEF LockOwner, LockRow
<1>2. BookStep /\ Dated'
  BY <1>1, SameTables
<1>3. PICK x \in {"lock_row", "done", "pin"} : Goto(s, x)
  BY DEF LockOwner, LockRow
<1> QED  BY <1>1, <1>2, <1>3, PlainGoto

LEMMA PinReads ==
  ASSUME IInv, IInv', ReadsInv, NEW s \in Sessions, Pin(s)
  PROVE  ReadsInv'
<1>1. PICK c \in Ids : c = ses[s].id
  BY DEF IInv, SessionsOK
<1>2. /\ Stored(c) /\ ses[s].flag \in BOOLEAN /\ ses[s].at = "pin" /\ UNCHANGED clock
      /\ Goto(s, "done") /\ "done" \in Step
  BY <1>1 DEF IInv, Holder, SessionsOK, Pin, Stored, Step
<1>3. PICK v : v = [book[c] EXCEPT !.pinned = ses[s].flag]
  OBVIOUS
<1>4. Write(c, v)
  BY <1>1, <1>3 DEF Pin
<1>5. /\ v \in Conversation /\ v.row = "stored" /\ v.messages = book[c].messages
      /\ v.updated <= clock
  BY <1>2, <1>3, RowTyped DEF Conversation, Stored
<1>6. BookStep /\ Dated'
  BY <1>2, <1>4, <1>5, ReplaceRow
<1> QED  BY <1>2, <1>6, PlainGoto

LEMMA RenameReads ==
  ASSUME IInv', ReadsInv, NEW s \in Sessions, Rename(s)
  PROVE  ReadsInv'
<1>1. PICK c \in Ids : c = ses[s].id
  BY DEF ReadsInv, TypeOK, Session
<1>2. ses[s].at = "rename" /\ Goto(s, "done") /\ UNCHANGED clock /\ "done" \in Step
  BY DEF Rename, Writes, Step
<1>3. CASE Stored(c)
  <2>1. PICK y \in Summary : y = IF ses[s].flag THEN "given" ELSE "none"
    BY DEF Summary
  <2>2. PICK v : v = [book[c] EXCEPT !.summary = y, !.updated = clock]
    OBVIOUS
  <2>3. Write(c, v)
    BY <1>1, <1>3, <2>1, <2>2 DEF Rename, Writes
  <2>4. book[c] \in Conversation /\ clock \in Nat /\ clock <= clock
    BY RowTyped
  <2>5. /\ v \in Conversation /\ v.row = "stored" /\ v.messages = book[c].messages
        /\ v.updated <= clock
    BY <1>3, <2>2, <2>4 DEF Conversation, Stored
  <2>6. BookStep /\ Dated'
    BY <1>2, <1>3, <2>3, <2>5, ReplaceRow
  <2> QED  BY <1>2, <2>6, PlainGoto
<1>4. CASE ~Stored(c)
  <2>1. UNCHANGED <<book, touched, clock>>
    BY <1>1, <1>2, <1>4 DEF Rename, Writes
  <2> QED  BY <1>2, <2>1, SameTables, PlainGoto
<1> QED  BY <1>3, <1>4

LEMMA DeleteReads ==
  ASSUME IInv', ReadsInv, NEW s \in Sessions, Delete(s)
  PROVE  ReadsInv'
<1>1. PICK c \in Ids : c = ses[s].id
  BY DEF ReadsInv, TypeOK, Session
<1>2. ses[s].at = "delete" /\ Goto(s, "done") /\ UNCHANGED clock /\ "done" \in Step
  BY DEF Delete, Writes, Step
<1>3. CASE Stored(c)
  <2>1. PICK e \in Seq(Costs) : e = <<>>
    <3>1. <<>> \in Seq(Costs)
      OBVIOUS
    <3> QED  BY <3>1
  <2>2. PICK v : v = [book[c] EXCEPT !.row = "deleted", !.messages = e]
    OBVIOUS
  <2>3. Write(c, v)
    BY <1>1, <1>3, <2>1, <2>2 DEF Delete, Writes
  <2>4. v \in Conversation /\ v.row = "deleted" /\ v.updated <= clock
    BY <2>1, <2>2, RowTyped DEF Conversation
  <2>5. TypeOK
    BY DEF ReadsInv
  <2>6. BookStep
    BY <2>3, <2>4, <2>5, WriteBook
  <2>7. Dated'
    BY <1>2, <2>3, <2>4, <2>5, WriteDated
  <2> QED  BY <1>2, <2>6, <2>7, PlainGoto
<1>4. CASE ~Stored(c)
  <2>1. UNCHANGED <<book, touched, clock>>
    BY <1>1, <1>2, <1>4 DEF Delete, Writes
  <2> QED  BY <1>2, <2>1, SameTables, PlainGoto
<1> QED  BY <1>3, <1>4

\* A step of a turn: what its session reads afterwards is all there is to show.
LEMMA TurnStep ==
  ASSUME IInv', ReadsInv, BookStep, Dated', NEW s \in Sessions, NEW v \in Session,
         Becomes(s, v), v.job = ses[s].job, v.id = ses[s].id,
         ses[s].at \in {"append", "title", "context"},
         v.at \in {"title", "context", "done"},
         v.job = "append" /\ Stored(v.id)' =>
           /\ v.mark <= Len(book'[v.id].messages)
           /\ v.at \in {"title", "context"} => v.mark > 0
           /\ v.at = "done" /\ v.mark > 0 => ContextOK(v.id, v.seen, v.mark)'
  PROVE  ReadsInv'
<1>1. v.job = "append" /\ v.id \in Ids
  BY DEF ReadsInv, Along, Session
<1>2. Along(s)' /\ Listing(s)' /\ Paging(s)'
  BY <1>1 DEF Along, Listing, Paging, Becomes
<1>3. v.job = "append" => book'[v.id].row # "unborn"
  BY <1>1 DEF ReadsInv, Turning, BookStep
<1>4. ses'[s] = v
  BY DEF Becomes
<1>5. Turning(s)'
  BY <1>3, <1>4 DEF Turning
<1> QED  BY <1>2, <1>5, ReadsStep

LEMMA AppendReads ==
  ASSUME IInv', ReadsInv, NEW s \in Sessions, NEW cost \in Costs, AppendMessage(s, cost)
  PROVE  ReadsInv'
<1>1. PICK c \in Ids : c = ses[s].id
  BY DEF ReadsInv, TypeOK, Session
<1>2. ses[s].at = "append" /\ UNCHANGED clock /\ TypeOK /\ ses[s] \in Session
  BY DEF AppendMessage, ReadsInv, TypeOK
<1>3. CASE Stored(c)
  <2> DEFINE m == book[c].messages
             x == IF Len(m) + 1 = 1 THEN "title" ELSE "context"
  <2>1. MessagesOK(m) /\ Len(m) \in Nat
    BY <1>2, MessagesTyped DEF TypeOK
  <2>2. PICK n \in Seq(Costs) : n = Append(m, cost) /\ Len(n) = Len(m) + 1 /\ Extends(m, n)
    <3>1. /\ Append(m, cost) \in Seq(Costs) /\ Len(Append(m, cost)) = Len(m) + 1
          /\ \A k \in 1..Len(m) : Append(m, cost)[k] = m[k]
      BY <2>1 DEF MessagesOK
    <3>2. Len(m) <= Len(m) + 1
      BY <2>1
    <3> HIDE DEF m
    <3> QED  BY <3>1, <3>2 DEF Extends
  <2>3. PICK r : r = [book[c] EXCEPT !.messages = n, !.updated = clock]
    OBVIOUS
  <2>4. Write(c, r)
    BY <1>1, <1>3, <2>2, <2>3 DEF AppendMessage
  <2>5. r \in Conversation /\ r.row = "stored" /\ r.messages = n /\ r.updated <= clock
    <3>1. book[c] \in Conversation /\ clock \in Nat /\ clock <= clock
      BY RowTyped
    <3> QED  BY <1>3, <2>3, <3>1 DEF Conversation, Stored
  <2>6. BookStep
    BY <1>2, <1>3, <2>2, <2>4, <2>5, WriteBook
  <2>7. Dated'
    BY <1>2, <2>4, <2>5, WriteDated
  <2>8. PICK y \in {"title", "context"} : y = x
    OBVIOUS
  <2>9. ses' = [ses EXCEPT ![s].at = y, ![s].mark = Len(m) + 1]
    BY <1>1, <1>3, <2>8 DEF AppendMessage
  <2>10. PICK v : v = [ses[s] EXCEPT !.at = y, !.mark = Len(m) + 1]
    OBVIOUS
  <2>11. /\ v \in Session /\ v.at = y /\ v.mark = Len(m) + 1 /\ v.job = ses[s].job
         /\ v.id = c
    <3>1. PICK l \in Nat : l = Len(m) + 1
      BY <2>1
    <3>2. y \in Step
      BY DEF Step
    <3>3. v = [ses[s] EXCEPT !.at = y, !.mark = l]
      BY <2>10, <3>1
    <3> HIDE DEF m, x
    <3> QED  BY <1>1, <1>2, <3>1, <3>2, <3>3 DEF Session
  <2>12. ses' = [ses EXCEPT ![s] = v]
    BY <2>9, <2>10
  <2>13. Becomes(s, v)
    BY <1>2, <2>11, <2>12, BecomesTyped DEF TypeOK
  <2>14. book'[c] = r
    BY <1>2, <2>4 DEF Write, TypeOK
  <2>15. v.mark <= Len(book'[c].messages) /\ v.mark > 0
    BY <2>1, <2>2, <2>5, <2>11, <2>14
  <2>16. v.at \in {"title", "context"} /\ v.at # "done"
    BY <2>8, <2>11
  <2> HIDE DEF m, x
  <2> QED  BY <1>1, <1>2, <2>6, <2>7, <2>11, <2>13, <2>15, <2>16, TurnStep
<1>4. CASE ~Stored(c)
  <2>1. UNCHANGED <<book, touched, clock>> /\ Goto(s, "done") /\ "done" \in Step
    BY <1>1, <1>2, <1>4 DEF AppendMessage, Step
  <2>2. PICK v \in Session : /\ Becomes(s, v) /\ v.at = "done" /\ v.job = ses[s].job
                             /\ v.id = ses[s].id
    BY <1>2, <2>1, GotoTyped DEF TypeOK
  <2>3. ~Stored(v.id)'
    BY <1>1, <1>4, <2>1, <2>2 DEF Stored
  <2> QED  BY <1>2, <2>1, <2>2, <2>3, SameTables, TurnStep
<1> QED  BY <1>3, <1>4

LEMMA TitleReads ==
  ASSUME IInv', ReadsInv, NEW s \in Sessions, Title(s)
  PROVE  ReadsInv'
<1>1. PICK c \in Ids : c = ses[s].id
  BY DEF ReadsInv, TypeOK, Session
<1>2. ses[s].at = "title" /\ UNCHANGED clock /\ TypeOK /\ Goto(s, "context") /\ "context" \in Step
  BY DEF Title, ReadsInv, Step
<1>3. PICK v \in Session : /\ Becomes(s, v) /\ v.at = "context" /\ v.job = ses[s].job
                           /\ v.id = c /\ v.mark = ses[s].mark
  BY <1>1, <1>2, GotoTyped DEF TypeOK
<1>4. BookStep /\ Dated'
  <2>1. CASE NameIfEmpty(c)
    <3>1. PICK r : r = [book[c] EXCEPT !.summary = "generated", !.updated = clock]
      OBVIOUS
    <3>2. Write(c, r) /\ Stored(c)
      BY <2>1, <3>1 DEF NameIfEmpty
    <3>3. /\ r \in Conversation /\ r.row = "stored" /\ r.messages = book[c].messages
          /\ r.updated <= clock
      <4>1. book[c] \in Conversation /\ clock \in Nat /\ clock <= clock /\ "generated" \in Summary
        BY RowTyped DEF Summary
      <4> QED  BY <3>1, <3>2, <4>1 DEF Conversation, Stored
    <3> QED  BY <1>2, <3>2, <3>3, ReplaceRow
  <2>2. CASE UNCHANGED <<book, touched>>
    BY <1>2, <2>2, SameTables
  <2> QED  BY <1>1, <2>1, <2>2 DEF Title
<1>5. ASSUME v.job = "append", Stored(c)'
      PROVE  v.mark <= Len(book'[c].messages) /\ v.mark > 0
  <2>1. Stored(c) /\ Len(book[c].messages) <= Len(book'[c].messages)
    BY <1>1, <1>3, <1>4, <1>5 DEF ReadsInv, Turning, BookStep, Stored, Extends
  <2>2. ses[s].mark <= Len(book[c].messages) /\ ses[s].mark > 0
    BY <1>1, <1>2, <1>3, <1>5, <2>1 DEF ReadsInv, Turning
  <2>3. Len(book[c].messages) \in Nat /\ v.mark \in Nat
    BY <1>2, MessagesTyped DEF TypeOK, Session
  <2>4. Len(book'[c].messages) \in Nat
    <3>1. book'[c] \in Conversation
      BY <1>4 DEF BookStep
    <3> QED  BY <3>1 DEF Conversation
  <2> QED  BY <1>3, <2>1, <2>2, <2>3, <2>4
<1> QED  BY <1>1, <1>2, <1>3, <1>4, <1>5, TurnStep

LEMMA ContextReads ==
  ASSUME IInv', ReadsInv, NEW s \in Sessions, BuildContext(s)
  PROVE  ReadsInv'
<1>1. PICK c \in Ids : c = ses[s].id
  BY DEF ReadsInv, TypeOK, Session
<1>2. /\ ses[s].at = "context" /\ UNCHANGED <<book, touched, clock>> /\ TypeOK
      /\ ses[s] \in Session /\ ses[s].job = "append"
  BY DEF BuildContext, ReadsInv, TypeOK, Along
<1>3. PICK m \in Nat : m = ses[s].mark
  BY <1>2 DEF Session
<1>4. PICK q \in Seq(Nat) :
        /\ q = IF Stored(c) THEN Selected(c, Recent(c, m)) ELSE <<>>
        /\ Stored(c) => m <= Len(book[c].messages) /\ ContextOK(c, q, m)
  <2>1. CASE Stored(c)
    <3>1. MessagesOK(book[c].messages) /\ Len(book[c].messages) \in Nat
      BY <1>2, MessagesTyped DEF TypeOK
    <3>2. m <= Len(book[c].messages) /\ m > 0
      BY <1>1, <1>2, <1>3, <2>1 DEF ReadsInv, Turning
    <3>3. m \in 1..Len(book[c].messages)
      BY <3>1, <3>2
    <3> QED  BY <2>1, <3>1, <3>2, <3>3, SelectedIsLongest
  <2>2. CASE ~Stored(c)
    <3>1. <<>> \in Seq(Nat)
      OBVIOUS
    <3> QED  BY <2>2, <3>1
  <2> QED  BY <2>1, <2>2
<1>5. PICK v : v = [ses[s] EXCEPT !.at = "done", !.seen = q]
  OBVIOUS
<1>6. /\ v \in Session /\ v.at = "done" /\ v.seen = q /\ v.mark = m /\ v.job = ses[s].job
      /\ v.id = c
  BY <1>1, <1>2, <1>3, <1>5 DEF Session, Step
<1>7. Becomes(s, v)
  <2>1. ses' = [ses EXCEPT ![s].at = "done", ![s].seen = q]
    BY <1>1, <1>3, <1>4 DEF BuildContext
  <2>2. ses' = [ses EXCEPT ![s] = v]
    BY <1>5, <2>1
  <2> QED  BY <1>2, <1>6, <2>2, BecomesTyped DEF TypeOK
<1>8. Stored(c)' => /\ v.mark <= Len(book'[c].messages)
                    /\ ContextOK(c, v.seen, v.mark)'
  <2> SUFFICES ASSUME Stored(c)'
               PROVE  v.mark <= Len(book'[c].messages) /\ ContextOK(c, v.seen, v.mark)'
    OBVIOUS
  <2>1. Stored(c) /\ book' = book
    BY <1>2 DEF Stored
  <2>2. ContextOK(c, q, m) /\ m <= Len(book[c].messages)
    BY <1>4, <2>1
  <2>3. ASSUME NEW a PROVE CostOf(c, a, m)' = CostOf(c, a, m)
    BY <2>1 DEF CostOf
  <2>4. ContextOK(c, q, m)'
    BY <2>2, <2>3 DEF ContextOK
  <2> QED  BY <1>6, <2>1, <2>2, <2>4
<1>9. BookStep /\ Dated'
  BY <1>2, SameTables
<1> QED  BY <1>1, <1>2, <1>6, <1>7, <1>8, <1>9, TurnStep

LEMMA HistoryReads ==
  ASSUME IInv', ReadsInv, NEW s \in Sessions, ReadHistory(s)
  PROVE  ReadsInv'
<1>1. PICK c \in Ids : c = ses[s].id
  BY DEF ReadsInv, TypeOK, Session
<1>2. /\ ses[s].at = "history" /\ UNCHANGED <<book, touched, clock>> /\ TypeOK
      /\ ses[s] \in Session /\ ses[s].job = "history"
  BY DEF ReadHistory, ReadsInv, TypeOK, Along
<1>3. book[c].row # "unborn" /\ BookStep /\ Dated'
  BY <1>1, <1>2, SameTables DEF ReadsInv, Paging
<1>4. CASE ~Stored(c)
  <2>1. PICK q \in Seq(Nat) : q = ses[s].seen
    BY <1>2 DEF Session
  <2>2. q \o <<>> = q
    OBVIOUS
  <2>3. ses' = [ses EXCEPT ![s].seen = q, ![s].mark = ses[s].mark, ![s].at = "done"]
    BY <1>1, <1>4, <2>1, <2>2 DEF ReadHistory
  <2>4. PICK v : v = [ses[s] EXCEPT !.seen = q, !.mark = ses[s].mark, !.at = "done"]
    OBVIOUS
  <2>5. v \in Session /\ v.at = "done" /\ v.job = "history" /\ v.id = c
    BY <1>1, <1>2, <2>4 DEF Session, Step
  <2>6. Becomes(s, v)
    <3>1. ses' = [ses EXCEPT ![s] = v]
      BY <2>3, <2>4
    <3> QED  BY <1>2, <2>5, <3>1, BecomesTyped DEF TypeOK
  <2>7. Along(s)' /\ Listing(s)' /\ Turning(s)'
    BY <2>5, <2>6 DEF Along, Listing, Turning, Becomes
  <2>8. Paging(s)'
    BY <1>2, <1>3, <1>4, <2>5, <2>6 DEF Paging, Becomes, Stored
  <2> QED  BY <1>3, <2>6, <2>7, <2>8, ReadsStep
<1>5. CASE Stored(c)
  <2> DEFINE n == Len(book[c].messages)
             m == ses[s].mark
             page == HistoryPage(c, m)
             more == n > m + PageSize
             seen == ses[s].seen
  <2>1. /\ n \in Nat /\ m \in Nat /\ seen \in Seq(Nat) /\ PageSize \in Nat \ {0}
        /\ ses[s].base \in Nat /\ ses[s].base <= n
        /\ m = Len(seen) /\ m <= n /\ \A k \in DOMAIN seen : seen[k] = k
    BY <1>1, <1>2, <1>5, MessagesTyped, BookAssumption DEF TypeOK, Session, ReadsInv, Paging
  <2>2. PICK to \in Nat : /\ to = IF m + PageSize < n THEN m + PageSize ELSE n
                          /\ m <= to /\ to <= n
                          /\ more => to = m + PageSize /\ to > m
                          /\ ~more => to = n
    <3>1. m + PageSize \in Nat /\ m + PageSize > m
      BY <2>1
    <3> HIDE DEF n, m
    <3> QED  BY <2>1, <3>1
  <2>3. page = [k \in 1..(to - m) |-> m + k]
    BY <2>2 DEF HistoryPage
  <2>4. ses' = [ses EXCEPT ![s].seen = seen \o page,
                           ![s].mark = IF more THEN page[Len(page)] ELSE @,
                           ![s].at = IF more THEN "history" ELSE "done"]
    BY <1>1, <1>5 DEF ReadHistory
  <2> HIDE DEF page, n, m, seen
  <2>5. page \in Seq(Nat) /\ Len(page) = to - m /\ \A k \in 1..(to - m) : page[k] = m + k
    <3>1. to - m \in Nat
      BY <2>1, <2>2
    <3> QED  BY <2>1, <2>3, <3>1
  <2>6. /\ seen \o page \in Seq(Nat) /\ Len(seen \o page) = to
        /\ \A k \in DOMAIN (seen \o page) : (seen \o page)[k] = k
    <3>1. /\ seen \o page \in Seq(Nat) /\ Len(seen \o page) = to
          /\ DOMAIN (seen \o page) = 1..to
      BY <2>1, <2>2, <2>5
    <3>2. ASSUME NEW k \in 1..to PROVE (seen \o page)[k] = k
      <4>1. CASE k <= m
        <5>1. (seen \o page)[k] = seen[k] /\ k \in DOMAIN seen
          BY <2>1, <2>2, <2>5, <4>1
        <5> QED  BY <2>1, <5>1
      <4>2. CASE ~(k <= m)
        <5>1. (seen \o page)[k] = page[k - m] /\ k - m \in 1..(to - m)
          BY <2>1, <2>2, <2>5, <4>2
        <5>2. page[k - m] = m + (k - m)
          BY <2>5, <5>1
        <5> QED  BY <2>1, <5>1, <5>2
      <4> QED  BY <4>1, <4>2
    <3> QED  BY <3>1, <3>2
  <2>7. PICK q \in Seq(Nat) : /\ q = seen \o page /\ Len(q) = to
                              /\ \A k \in DOMAIN q : q[k] = k
    BY <2>6
  <2>8. PICK l \in Nat : /\ l = IF more THEN page[Len(page)] ELSE m
                         /\ more => l = to
    <3>1. more => page[Len(page)] = to
      <4> SUFFICES ASSUME more PROVE page[to - m] = to
        BY <2>5
      <4>1. to - m \in 1..(to - m)
        BY <2>1, <2>2
      <4>2. page[to - m] = m + (to - m)
        BY <2>5, <4>1
      <4> QED  BY <2>1, <2>2, <4>2
    <3> QED  BY <2>1, <2>2, <3>1
  <2>9. PICK x \in {"history", "done"} : x = IF more THEN "history" ELSE "done"
    OBVIOUS
  <2>10. ses' = [ses EXCEPT ![s].seen = q, ![s].mark = l, ![s].at = x]
    BY <2>4, <2>7, <2>8, <2>9 DEF m
  <2>11. PICK v : v = [ses[s] EXCEPT !.seen = q, !.mark = l, !.at = x]
    OBVIOUS
  <2>12. /\ v \in Session /\ v.at = x /\ v.job = "history" /\ v.id = c /\ v.seen = q
         /\ v.mark = l /\ v.base = ses[s].base
    <3>1. x \in Step
      BY DEF Step
    <3> QED  BY <1>1, <1>2, <2>11, <3>1 DEF Session
  <2>13. Becomes(s, v)
    <3>1. ses' = [ses EXCEPT ![s] = v]
      BY <2>10, <2>11
    <3> QED  BY <1>2, <2>12, <3>1, BecomesTyped DEF TypeOK
  <2>14. Along(s)' /\ Listing(s)' /\ Turning(s)'
    BY <2>9, <2>12, <2>13 DEF Along, Listing, Turning, Becomes
  <2>15. /\ v.base <= n /\ \A k \in DOMAIN v.seen : v.seen[k] = k
         /\ x = "history" => v.mark = Len(v.seen) /\ v.mark <= n
         /\ x = "done" => Len(v.seen) >= v.base
    BY <2>1, <2>2, <2>7, <2>8, <2>9, <2>12
  <2>16. ses'[s] = v /\ book' = book
    BY <1>2, <2>13 DEF Becomes
  <2>17. Paging(s)'
    BY <1>3, <2>9, <2>12, <2>15, <2>16 DEF Paging, n
  <2> QED  BY <1>3, <2>13, <2>14, <2>17, ReadsStep
<1> QED  BY <1>4, <1>5

LEMMA LineTyped ==
  ASSUME ReadsInv, NEW c \in Ids
  PROVE  LineOf(c) \in Line /\ LineOf(c).id = c
BY RowTyped DEF LineOf, Line, Conversation

\* Lines of different conversations differ, so there are finitely many.
LEMMA LinesFinite ==
  ASSUME ReadsInv, NEW E, \A e \in E : \E c \in Ids : e = LineOf(c)
  PROVE  /\ E \in SUBSET Line
         /\ IsFiniteSet(E)
         /\ \A e \in E : e.id \in Ids /\ e = LineOf(e.id)
<1>1. \A e \in E : e \in Line /\ e.id \in Ids /\ e = LineOf(e.id)
  BY LineTyped
<1> DEFINE f == [e \in E |-> e.id]
<1>2. f \in Injection(E, Ids)
  BY <1>1 DEF Injection, IsInjective
<1>3. IsFiniteSet(E)
  BY <1>2, FS_Injection, BookAssumption
<1> QED  BY <1>1, <1>3

LEMMA Joined ==
  ASSUME NEW a \in Seq(Nat), NEW b \in Seq(Nat)
  PROVE  /\ a \o b \in Seq(Nat) /\ Len(a \o b) = Len(a) + Len(b)
         /\ DOMAIN (a \o b) = 1..(Len(a) + Len(b))
         /\ \A k \in 1..Len(a) : (a \o b)[k] = a[k]
         /\ \A k \in (Len(a) + 1)..(Len(a) + Len(b)) : (a \o b)[k] = b[k - Len(a)]
OBVIOUS

\* What a page adds to a list: the first p of the lines R after the cursor.
LEMMA PageReads ==
  ASSUME IInv', ReadsInv, NEW s \in Sessions, ListPage(s)
  PROVE  ReadsInv'
<1>1. /\ ses[s].at = "list" /\ UNCHANGED <<book, touched, clock>> /\ TypeOK
      /\ ses[s] \in Session /\ ses[s].job = "list"
  BY DEF ListPage, ReadsInv, TypeOK, Along
<1>2. BookStep /\ Dated'
  BY <1>1, SameTables
<1> DEFINE cursor == ses[s].cursor
           seen == ses[s].seen
           U == {LineOf(c) : c \in {d \in Ids : Owned(ses[s].who, d)}}
           E == {e \in U : \A k \in DOMAIN cursor : Past(cursor[k], e)}
           R == Ordered(E)
           n == Cardinality(E)
           more == Len(R) > PageSize
           page == IF more THEN SubSeq(R, 1, PageSize) ELSE R
<1>3. /\ cursor \in Seq(Line) /\ seen \in Seq(Nat) /\ Len(seen) \in Nat
      /\ DOMAIN seen = 1..Len(seen) /\ \A k \in DOMAIN cursor : cursor[k] \in Line
  BY <1>1 DEF Session
<1>4. /\ E \in SUBSET Line /\ IsFiniteSet(E)
      /\ \A e \in E : e.id \in Ids /\ e = LineOf(e.id)
  <2>1. \A e \in E : \E c \in Ids : e = LineOf(c)
    OBVIOUS
  <2> HIDE DEF E
  <2> QED  BY <2>1, LinesFinite
<1>5. \A c \in Still(s) : c \in Ids /\ LineOf(c) \in Line /\ (LineOf(c) \in E <=> ~Passed(s, c))
  <2> SUFFICES ASSUME NEW c \in Still(s)
               PROVE  c \in Ids /\ LineOf(c) \in Line /\ (LineOf(c) \in E <=> ~Passed(s, c))
    OBVIOUS
  <2>1. c \in Ids /\ Owned(ses[s].who, c)
    BY DEF Still
  <2>2. LineOf(c) \in U
    BY <2>1
  <2> QED  BY <2>1, <2>2, LineTyped DEF Passed, Past
<1>6. \A e \in E, k \in DOMAIN cursor : Before(cursor[k], e)
  BY DEF Past
<1>7. ses' = [ses EXCEPT ![s].seen = seen \o [k \in DOMAIN page |-> page[k].id],
                         ![s].cursor = IF more THEN <<page[PageSize]>> ELSE <<>>,
                         ![s].at = IF more THEN "list" ELSE "done"]
  BY DEF ListPage
<1> HIDE DEF E
<1>8. /\ n \in Nat /\ R \in Seq(E) /\ Len(R) = n
      /\ \A i, j \in 1..n : i < j => Before(R[i], R[j])
      /\ \A e \in E : \E k \in 1..n : R[k] = e
  BY <1>4, OrderedLines
<1> HIDE DEF R, n
<1>9. \A k \in 1..n : R[k] \in E /\ R[k] \in Line /\ R[k].id \in Ids /\ R[k] = LineOf(R[k].id)
  BY <1>4, <1>8
<1>10. PICK p \in Nat : /\ p = IF more THEN PageSize ELSE n
                        /\ p <= n /\ (~more => p = n) /\ (more => p > 0)
  <2>1. PageSize \in Nat \ {0}
    BY BookAssumption
  <2> QED  BY <1>8, <2>1
<1>11. Len(page) = p /\ DOMAIN page = 1..p /\ \A k \in 1..p : page[k] = R[k]
  <2>1. CASE more
    <3>1. p = PageSize /\ p \in 1..n
      BY <1>10, <2>1
    <3>2. page = SubSeq(R, 1, p)
      BY <2>1, <3>1
    <3> HIDE DEF page, more
    <3> QED  BY <1>8, <3>1, <3>2
  <2>2. CASE ~more
    <3>1. p = n /\ page = R
      BY <1>10, <2>2
    <3>2. Len(R) = n /\ DOMAIN R = 1..n
      BY <1>8
    <3> HIDE DEF page, more
    <3> QED  BY <3>1, <3>2
  <2> QED  BY <2>1, <2>2
<1>12. more => page[PageSize] = R[p] /\ p \in 1..n
  BY <1>10, <1>11
<1> HIDE DEF page
<1>13. PICK q \in Seq(Nat) :
         /\ q = seen \o [k \in DOMAIN page |-> page[k].id]
         /\ Len(q) = Len(seen) + p /\ DOMAIN q = 1..(Len(seen) + p)
         /\ \A k \in 1..Len(seen) : q[k] = seen[k]
         /\ \A k \in (Len(seen) + 1)..(Len(seen) + p) : q[k] = R[k - Len(seen)].id
  <2> DEFINE a == [k \in DOMAIN page |-> page[k].id]
  <2>1. a = [k \in 1..p |-> R[k].id]
    BY <1>11
  <2>2. \A k \in 1..p : R[k].id \in Nat
    <3>1. \A k \in 1..p : k \in 1..n
      BY <1>8, <1>10
    <3> QED  BY <1>9, <3>1, BookAssumption
  <2> HIDE DEF a
  <2>3. a \in Seq(Nat) /\ Len(a) = p /\ \A k \in 1..p : a[k] = R[k].id
    BY <2>1, <2>2, <1>10
  <2> HIDE DEF seen
  <2>4. /\ seen \o a \in Seq(Nat) /\ Len(seen \o a) = Len(seen) + p
        /\ DOMAIN (seen \o a) = 1..(Len(seen) + p)
        /\ \A k \in 1..Len(seen) : (seen \o a)[k] = seen[k]
        /\ \A k \in (Len(seen) + 1)..(Len(seen) + p) : (seen \o a)[k] = a[k - Len(seen)]
    BY <1>3, <2>3, Joined
  <2>5. \A k \in (Len(seen) + 1)..(Len(seen) + p) : k - Len(seen) \in 1..p
    BY <1>3, <1>10
  <2>6. \A k \in (Len(seen) + 1)..(Len(seen) + p) : (seen \o a)[k] = R[k - Len(seen)].id
    BY <2>3, <2>4, <2>5
  <2>7. PICK g \in Seq(Nat) : g = seen \o a
    BY <2>4
  <2>8. g = seen \o [k \in DOMAIN page |-> page[k].id]
    BY <2>7 DEF a
  <2> QED  BY <2>4, <2>6, <2>7, <2>8
<1>14. PICK d \in Seq(Line) : /\ d = IF more THEN <<page[PageSize]>> ELSE <<>>
                              /\ DOMAIN d \subseteq {1}
                              /\ more => 1 \in DOMAIN d /\ d[1] = R[p]
  <2>1. CASE more
    <3>1. R[p] \in Line /\ page[PageSize] = R[p]
      BY <1>9, <1>12, <2>1
    <3>2. <<R[p]>> \in Seq(Line) /\ DOMAIN <<R[p]>> = {1} /\ <<R[p]>>[1] = R[p]
      BY <3>1
    <3> QED  BY <2>1, <3>1, <3>2
  <2>2. CASE ~more
    <3>1. <<>> \in Seq(Line) /\ DOMAIN <<>> = {}
      OBVIOUS
    <3> QED  BY <2>2, <3>1
  <2> QED  BY <2>1, <2>2
<1>15. PICK x \in {"list", "done"} : x = IF more THEN "list" ELSE "done"
  OBVIOUS
<1>16. PICK v : v = [ses[s] EXCEPT !.seen = q, !.cursor = d, !.at = x]
  OBVIOUS
<1>17. /\ v \in Session /\ v.at = x /\ v.job = "list" /\ v.seen = q /\ v.cursor = d
       /\ v.who = ses[s].who
  <2>1. x \in Step
    BY DEF Step
  <2> QED  BY <1>1, <1>16, <2>1 DEF Session
<1>18. Becomes(s, v)
  <2>1. ses' = [ses EXCEPT ![s].seen = q, ![s].cursor = d, ![s].at = x]
    BY <1>7, <1>13, <1>14, <1>15
  <2>2. ses' = [ses EXCEPT ![s] = v]
    BY <1>16, <2>1
  <2> QED  BY <1>1, <1>17, <2>2, BecomesTyped DEF TypeOK
<1>19. Along(s)' /\ Paging(s)' /\ Turning(s)'
  BY <1>15, <1>17, <1>18 DEF Along, Paging, Turning, Becomes
<1>20. /\ Still(s)' = Still(s) /\ \A c : LineOf(c)' = LineOf(c)
       /\ \A c : Seen(s, c)' <=> \E k \in DOMAIN q : q[k] = c
       /\ \A c : Passed(s, c)' <=> \E k \in DOMAIN d : ~Before(d[k], LineOf(c))
  <2>1. ses'[s] = v
    BY <1>18 DEF Becomes
  <2>2. \A c : Owned(v.who, c)' <=> Owned(v.who, c)
    BY <1>1 DEF Owned, Stored
  <2>3. Still(s)' = Still(s)
    BY <1>1, <1>17, <2>1, <2>2 DEF Still
  <2>4. \A c : LineOf(c)' = LineOf(c)
    BY <1>1 DEF LineOf
  <2>5. \A c : Seen(s, c)' <=> \E k \in DOMAIN q : q[k] = c
    BY <1>17, <2>1 DEF Seen
  <2>6. \A c : Passed(s, c)' <=> \E k \in DOMAIN d : ~Before(d[k], LineOf(c))
    BY <1>17, <2>1, <2>4 DEF Passed
  <2> QED  BY <2>3, <2>4, <2>5, <2>6
<1>21. /\ \A c \in Still(s) : Seen(s, c) <=> Passed(s, c)
       /\ \A i, k \in 1..Len(seen) :
            i < k /\ {seen[i], seen[k]} \subseteq Still(s)
            => Before(LineOf(seen[i]), LineOf(seen[k]))
  BY <1>1, <1>3 DEF ReadsInv, Listing
<1>22. \A c \in Still(s) : \A j \in 1..n : R[j].id = c <=> R[j] = LineOf(c)
  BY <1>5, <1>9, LineTyped
<1>23. \A c \in Still(s) : Seen(s, c)' <=> Seen(s, c) \/ \E j \in 1..p : R[j] = LineOf(c)
  <2> SUFFICES ASSUME NEW c \in Still(s)
               PROVE  (\E k \in DOMAIN q : q[k] = c)
                      <=> Seen(s, c) \/ \E j \in 1..p : R[j] = LineOf(c)
    BY <1>20
  <2>1. Seen(s, c) <=> \E k \in 1..Len(seen) : seen[k] = c
    BY <1>3 DEF Seen
  <2> HIDE DEF seen
  <2>2. ASSUME NEW k \in DOMAIN q, q[k] = c
        PROVE  Seen(s, c) \/ \E j \in 1..p : R[j] = LineOf(c)
    <3>1. k \in 1..Len(seen) \/ (k - Len(seen) \in 1..p /\ k \in (Len(seen) + 1)..(Len(seen) + p))
      <4>1. PICK l \in Nat : l = Len(seen)
        BY <1>3
      <4>2. k \in 1..(l + p)
        BY <1>13, <2>2, <4>1
      <4>3. k \in 1..l \/ (k - l \in 1..p /\ k \in (l + 1)..(l + p))
        BY <4>2
      <4> QED  BY <4>1, <4>3
    <3>2. CASE k \in 1..Len(seen)
      BY <1>13, <2>1, <2>2, <3>2
    <3>3. CASE k - Len(seen) \in 1..p /\ k \in (Len(seen) + 1)..(Len(seen) + p)
      <4>1. R[k - Len(seen)].id = c
        BY <1>13, <2>2, <3>3
      <4>2. \A g \in 1..p : g \in 1..n
        BY <1>8, <1>10
      <4> QED  BY <1>22, <3>3, <4>1, <4>2
    <3> QED  BY <3>1, <3>2, <3>3
  <2>3. ASSUME NEW k \in 1..Len(seen), seen[k] = c
        PROVE  \E i \in DOMAIN q : q[i] = c
    <3>1. k \in DOMAIN q /\ q[k] = c
      BY <1>3, <1>13, <2>3
    <3> QED  BY <3>1
  <2>4. ASSUME NEW j \in 1..p, R[j] = LineOf(c)
        PROVE  \E i \in DOMAIN q : q[i] = c
    <3>1. PICK i : i = Len(seen) + j
      OBVIOUS
    <3>2. i \in (Len(seen) + 1)..(Len(seen) + p) /\ i - Len(seen) = j /\ i \in DOMAIN q
          /\ j \in 1..n
      BY <1>3, <1>8, <1>10, <1>13, <3>1
    <3>3. q[i] = R[j].id
      BY <1>13, <3>2
    <3> QED  BY <1>22, <2>4, <3>2, <3>3
  <2> QED  BY <2>1, <2>2, <2>3, <2>4
<1>24. ASSUME x = "done", NEW c \in Still(s)
       PROVE  Seen(s, c)'
  <2>1. p = n
    BY <1>10, <1>15, <1>24
  <2>2. LineOf(c) \in E => \E j \in 1..n : R[j] = LineOf(c)
    BY <1>8
  <2> QED  BY <1>5, <1>21, <1>23, <2>1, <2>2
<1>25. ASSUME x = "list", NEW c \in Still(s)
       PROVE  Seen(s, c)' <=> Passed(s, c)'
  <2>1. more /\ p \in 1..n /\ DOMAIN d = {1} /\ d[1] = R[p]
    BY <1>12, <1>14, <1>15, <1>25
  <2>2. /\ R[p] \in E /\ R[p] \in Line /\ LineOf(c) \in Line
    BY <1>5, <1>9, <2>1
  <2>3. Passed(s, c)' <=> ~Before(R[p], LineOf(c))
    BY <1>20, <2>1
  <2>4. CASE Passed(s, c)
    <3>1. PICK k \in DOMAIN cursor : ~Before(cursor[k], LineOf(c))
      BY <2>4 DEF Passed
    <3>2. cursor[k] \in Line /\ Before(cursor[k], R[p])
      BY <1>3, <1>6, <2>2
    <3>3. ~Before(R[p], LineOf(c))
      <4> SUFFICES ASSUME Before(R[p], LineOf(c)) PROVE FALSE
        OBVIOUS
      <4>1. Before(cursor[k], LineOf(c))
        BY <2>2, <3>2, BeforeTransitive
      <4> QED  BY <3>1, <4>1
    <3> QED  BY <1>21, <1>23, <2>3, <2>4, <3>3
  <2>5. CASE ~Passed(s, c)
    <3>1. PICK j \in 1..n : R[j] = LineOf(c)
      BY <1>5, <1>8, <2>5
    <3>2. p \in Int /\ j \in Int
      BY <1>8, <2>1
    <3>3. CASE j <= p
      <4>1. ~Before(R[p], R[j])
        <5>1. CASE j = p
          BY <2>2, <5>1, BeforeIrreflexive
        <5>2. CASE j < p
          <6>1. Before(R[j], R[p])
            BY <1>8, <2>1, <5>2
          <6> SUFFICES ASSUME Before(R[p], R[j]) PROVE FALSE
            OBVIOUS
          <6>2. R[j] \in Line
            BY <1>9
          <6>3. Before(R[p], R[p])
            BY <2>2, <6>1, <6>2, BeforeTransitive
          <6> QED  BY <2>2, <6>3, BeforeIrreflexive
        <5> QED  BY <3>2, <3>3, <5>1, <5>2
      <4>2. j \in 1..p
        BY <3>2, <3>3
      <4> QED  BY <1>23, <2>3, <3>1, <4>1, <4>2
    <3>4. CASE p < j
      <4>1. Before(R[p], R[j])
        BY <1>8, <2>1, <3>4
      <4>2. ASSUME NEW i \in 1..p, R[i] = LineOf(c) PROVE FALSE
        <5>1. i \in 1..n /\ i < j
          BY <1>8, <2>1, <3>2, <3>4
        <5>2. Before(R[i], R[j]) /\ R[j] \in Line
          BY <1>8, <1>9, <5>1
        <5>3. Before(R[j], R[j])
          BY <3>1, <4>2, <5>2
        <5> QED  BY <5>2, <5>3, BeforeIrreflexive
      <4>3. ~Seen(s, c)
        BY <1>21, <2>5
      <4> QED  BY <1>23, <2>3, <3>1, <4>1, <4>2, <4>3
    <3> QED  BY <3>2, <3>3, <3>4
  <2> QED  BY <2>4, <2>5
<1>26. ASSUME NEW i \in DOMAIN q, NEW k \in DOMAIN q, i < k, q[i] \in Still(s), q[k] \in Still(s)
       PROVE  Before(LineOf(q[i]), LineOf(q[k]))
  <2>1. PICK a \in Still(s), b \in Still(s) : a = q[i] /\ b = q[k]
    BY <1>26
  <2>2. LineOf(a) \in Line /\ LineOf(b) \in Line
    BY <1>5
  <2> HIDE DEF seen
  <2>3. PICK l \in Nat : l = Len(seen)
    BY <1>3
  <2>4. \/ i \in 1..l /\ k \in 1..l
        \/ i \in 1..l /\ k - l \in 1..p /\ k \in (l + 1)..(l + p)
        \/ /\ i - l \in 1..p /\ i \in (l + 1)..(l + p)
           /\ k - l \in 1..p /\ k \in (l + 1)..(l + p)
           /\ i - l < k - l
    <3>1. i \in 1..(l + p) /\ k \in 1..(l + p)
      BY <1>13, <2>3
    <3>2. /\ i \in 1..l \/ (i - l \in 1..p /\ i \in (l + 1)..(l + p))
          /\ k \in 1..l \/ (k - l \in 1..p /\ k \in (l + 1)..(l + p))
      BY <3>1
    <3>3. i - l < k - l
      BY <1>26, <3>1
    <3>4. i \notin 1..l => k \notin 1..l
      BY <1>26, <3>1
    <3> QED  BY <3>2, <3>3, <3>4
  <2>5. \A g \in 1..p : g \in 1..n
    BY <1>8, <1>10
  <2>6. CASE i \in 1..l /\ k \in 1..l
    <3>1. seen[i] = a /\ seen[k] = b
      BY <1>13, <2>1, <2>3, <2>6
    <3> QED  BY <1>21, <1>26, <2>1, <2>3, <2>6, <3>1
  <2>7. CASE i \in 1..l /\ k - l \in 1..p /\ k \in (l + 1)..(l + p)
    <3>1. seen[i] = a /\ R[k - l].id = b
      BY <1>13, <2>1, <2>3, <2>7
    <3>2. R[k - l] = LineOf(b) /\ R[k - l] \in E
      BY <1>9, <1>22, <2>5, <2>7, <3>1
    <3>3. Seen(s, a)
      <4>1. i \in DOMAIN ses[s].seen /\ ses[s].seen[i] = a
        BY <1>3, <2>3, <2>7, <3>1 DEF seen
      <4> QED  BY <4>1 DEF Seen
    <3>4. Passed(s, a)
      BY <1>21, <3>3
    <3>5. PICK g \in DOMAIN cursor : ~Before(cursor[g], LineOf(a))
      BY <3>4 DEF Passed
    <3>6. cursor[g] \in Line /\ Before(cursor[g], LineOf(b))
      BY <1>3, <1>6, <3>2
    <3>7. CASE cursor[g] = LineOf(a)
      BY <2>1, <3>6, <3>7
    <3>8. CASE cursor[g] # LineOf(a)
      <4>1. Before(LineOf(a), cursor[g])
        BY <2>2, <3>5, <3>6, <3>8, BeforeTotal
      <4> QED  BY <2>1, <2>2, <3>6, <4>1, BeforeTransitive
    <3> QED  BY <3>7, <3>8
  <2>8. CASE /\ i - l \in 1..p /\ i \in (l + 1)..(l + p)
             /\ k - l \in 1..p /\ k \in (l + 1)..(l + p)
             /\ i - l < k - l
    <3>1. R[i - l].id = a /\ R[k - l].id = b
      BY <1>13, <2>1, <2>3, <2>8
    <3>2. R[i - l] = LineOf(a) /\ R[k - l] = LineOf(b)
      BY <1>22, <2>5, <2>8, <3>1
    <3>3. Before(R[i - l], R[k - l])
      BY <1>8, <2>5, <2>8
    <3> QED  BY <2>1, <3>2, <3>3
  <2> QED  BY <2>4, <2>6, <2>7, <2>8
<1>27. Listing(s)'
  <2>1. ses'[s] = v
    BY <1>18 DEF Becomes
  <2>2. x \in {"list", "done", "dead"} /\ DOMAIN d \subseteq {1}
    BY <1>14, <1>15
  <2>3. \A i, k \in DOMAIN q :
          i < k /\ {q[i], q[k]} \subseteq Still(s)' => Before(LineOf(q[i])', LineOf(q[k])')
    BY <1>20, <1>26
  <2>4. \A c \in Still(s)' : x = "done" => Seen(s, c)'
    BY <1>20, <1>24
  <2>5. \A c \in Still(s)' : x = "list" => (Seen(s, c)' <=> Passed(s, c)')
    BY <1>20, <1>25
  <2> QED  BY <1>17, <2>1, <2>2, <2>3, <2>4, <2>5 DEF Listing
<1> QED  BY <1>2, <1>18, <1>19, <1>27, ReadsStep

LEMMA DieReads ==
  ASSUME IInv', ReadsInv, NEW s \in Sessions, Die(s)
  PROVE  ReadsInv'
<1>1. UNCHANGED <<book, touched, clock>> /\ TypeOK /\ Goto(s, "dead") /\ "dead" \in Step
  BY DEF Die, ReadsInv, Step
<1>2. BookStep /\ Dated'
  BY <1>1, SameTables
<1>3. PICK v \in Session :
        /\ Becomes(s, v) /\ v.at = "dead"
        /\ v.job = ses[s].job /\ v.who = ses[s].who /\ v.id = ses[s].id
        /\ v.cursor = ses[s].cursor /\ v.seen = ses[s].seen /\ v.mark = ses[s].mark
        /\ v.base = ses[s].base
  BY <1>1, GotoTyped DEF TypeOK
<1>4. Keeps(s)
  BY <1>3 DEF Keeps, Becomes
<1>5. Listing(s)' /\ Paging(s)' /\ Turning(s)'
  BY <1>1, <1>2, <1>4, ListingKept, PagingKept, TurningKept DEF ReadsInv
<1>6. Along(s)'
  BY <1>3 DEF Along, Becomes
<1> QED  BY <1>2, <1>3, <1>5, <1>6, ReadsStep

\* Nobody moves: time passes, or the step is one of another module.
LEMMA QuietReads ==
  ASSUME IInv', ReadsInv, Tick \/ UNCHANGED vars
  PROVE  ReadsInv'
<1>1. UNCHANGED <<book, touched, ses>> /\ clock' \in Nat /\ clock <= clock' /\ TypeOK
  BY DEF ReadsInv, TypeOK, Tick, vars
<1>2. BookStep /\ Dated'
  BY <1>1, SameBook, StillDated
<1>3. TypeOK'
  BY <1>1, <1>2 DEF IInv, TablesOK, TypeOK, Dated
<1>4. ASSUME NEW t \in Sessions
      PROVE  Along(t)' /\ Listing(t)' /\ Paging(t)' /\ Turning(t)'
  <2>1. Keeps(t)
    BY <1>1 DEF Keeps
  <2>2. Along(t)'
    BY <1>1 DEF ReadsInv, Along
  <2> QED  BY <1>1, <1>2, <2>1, <2>2, ListingKept, PagingKept, TurningKept DEF ReadsInv
<1> QED  BY <1>3, <1>4 DEF ReadsInv

LEMMA InitReads == Init => ReadsInv
<1> SUFFICES ASSUME Init PROVE ReadsInv
  OBVIOUS
<1>1. IInv
  BY InitIInv
<1>2. /\ ses \in [Sessions -> Session]
      /\ \A s \in Sessions : ses[s].at = "idle" /\ ses[s].job = "idle"
  BY IdleSession DEF Init
<1>3. book \in [Ids -> Conversation] /\ \A c \in Ids : book[c].updated <= clock
  BY BooksAssumption DEF Init
<1>4. TypeOK
  BY <1>1, <1>2, <1>3 DEF IInv, TablesOK, TypeOK, Init
<1>5. \A s \in Sessions : Along(s) /\ Listing(s) /\ Paging(s) /\ Turning(s)
  BY <1>2 DEF Along, Listing, Paging, Turning
<1> QED  BY <1>4, <1>5 DEF ReadsInv

LEMMA StepKeepsReads ==
  ASSUME IInv, ReadsInv, [Next]_vars
  PROVE  ReadsInv'
<1>1. IInv'
  BY StepKeepsIInv
<1>2. ASSUME NEW s \in Sessions, Request(s)
      PROVE  ReadsInv'
  <2>1. PICK who \in Owners :
          \/ Create(s, who) \/ ListBegin(s, who)
          \/ \E c \in Ids :
               \/ \E first \in {"lock_owner", "rename"}, flag \in BOOLEAN :
                    Resolve(s, who, c, first, flag)
               \/ \E first \in {"delete", "append", "history"} : Resolve(s, who, c, first, FALSE)
    BY <1>2 DEF Request
  <2>2. CASE Create(s, who)
    BY <1>1, <2>2, CreateReads
  <2>3. CASE ListBegin(s, who)
    BY <1>1, <2>3, ListBeginReads
  <2>4. ASSUME NEW c \in Ids, NEW flag \in BOOLEAN,
               NEW first \in {"lock_owner", "rename", "delete", "append", "history"},
               Resolve(s, who, c, first, flag)
        PROVE  ReadsInv'
    BY <1>1, <2>4, ResolveReads
  <2> QED  BY <2>1, <2>2, <2>3, <2>4
<1>3. ASSUME NEW s \in Sessions, Statement(s)
      PROVE  ReadsInv'
  BY <1>1, <1>3, LocksReads, PinReads, RenameReads, DeleteReads, AppendReads, TitleReads,
     ContextReads, HistoryReads, PageReads DEF Statement
<1> QED
  BY <1>1, <1>2, <1>3, DieReads, QuietReads DEF Next

\* What every session has read so far agrees with what the tables hold of it,
\* as long as it has not been changed or deleted meanwhile.
THEOREM ReadsInvariant == Spec => []ReadsInv
<1>1. Init => ReadsInv
  BY InitReads
<1>2. IInv /\ ReadsInv /\ [Next]_vars => ReadsInv'
  BY StepKeepsReads
<1> QED  BY <1>1, <1>2, BookInvariant, PTL DEF Spec

\* A client that follows the cursors of a list, or the pages of a history, to
\* the end has seen everything that was there and did not change, once and in
\* order; the context of a turn is the longest run of messages within both
\* limits.  For any book, any number of sessions and any limits.
THEOREM ReadsStaySound == Spec => []ReadsSound
<1>1. ReadsInv => ReadsSound
  <2> SUFFICES ASSUME ReadsInv PROVE ReadsSound
    OBVIOUS
  <2>1. ListIsComplete
    <3> SUFFICES ASSUME NEW s \in Sessions, ses[s].job = "list", ses[s].at = "done"
                 PROVE  /\ \A c \in Still(s) : Seen(s, c)
                        /\ \A i, k \in DOMAIN ses[s].seen :
                             i < k /\ {ses[s].seen[i], ses[s].seen[k]} \subseteq Still(s)
                             => Before(LineOf(ses[s].seen[i]), LineOf(ses[s].seen[k]))
      BY DEF ListIsComplete, Still, Seen
    <3> QED  BY DEF ReadsInv, Listing
  <2>2. HistoryIsComplete
    BY DEF ReadsInv, Paging, HistoryIsComplete
  <2>3. ContextIsLongest
    BY DEF ReadsInv, Turning, ContextOK, ContextIsLongest
  <2>4. TypeOK
    BY DEF ReadsInv
  <2> QED  BY <2>1, <2>2, <2>3, <2>4 DEF ReadsSound
<1> QED  BY <1>1, ReadsInvariant, PTL

-----------------------------------------------------------------------------
(* The lock that the turns of a conversation run under: TurnCoordinator,   *)
(* for any finite set of turns and any set of conversations.  The          *)
(* inductive invariant adds to the properties that a lock object belongs   *)
(* to one conversation, that its owner is the turn that runs, and that an  *)
(* object nobody has created yet is not referred to.                       *)

Engaged(t) == phase[t] \in {"waiting", "holding"}

\* What a turn that waits or runs refers to.
TurnInv ==
  \A t \in Turns :
     /\ Engaged(t) => /\ target[t] \in Conversations
                      /\ state[t] \in Turns
                      /\ registry[target[t]] = state[t]
     /\ phase[t] = "holding" => owner[state[t]] = t
     /\ \A s \in Turns : Engaged(s) /\ Engaged(t) /\ state[s] = state[t]
                            => target[s] = target[t]

\* An object that is locked is locked by a running turn; one that was not
\* created yet is not known to anyone.
ObjectInv ==
  \A o \in Turns :
     /\ owner[o] # NoTurn => phase[owner[o]] = "holding" /\ state[owner[o]] = o
     /\ phase[o] = "idle" => \A t \in Turns : state[t] # o
     /\ references[o] = Cardinality(Users(o))

RegistryInv ==
  \A c \in Conversations :
     registry[c] # NoTurn => \E t \in Turns : Engaged(t) /\ target[t] = c

CoordinatorIInv == CoordinatorTypeOK /\ TurnInv /\ ObjectInv /\ RegistryInv

-----------------------------------------------------------------------------

\* The users of an object are finitely many.
LEMMA UsersFinite ==
  ASSUME NEW o
  PROVE  IsFiniteSet(Users(o))
BY CoordinatorAssumption, FS_Subset DEF Users

\* Initially nobody uses anything.
LEMMA InitCoordinator == CoordinatorInit => CoordinatorIInv
<1> SUFFICES ASSUME CoordinatorInit PROVE CoordinatorIInv
  OBVIOUS
<1>1. CoordinatorTypeOK
  BY DEF CoordinatorInit, CoordinatorTypeOK, Phase
<1>2. TurnInv /\ RegistryInv
  BY DEF CoordinatorInit, TurnInv, RegistryInv, Engaged
<1>3. ASSUME NEW o \in Turns PROVE Users(o) = {}
  BY DEF CoordinatorInit, Users
<1>4. ObjectInv
  BY <1>3, FS_EmptySet, CoordinatorAssumption DEF CoordinatorInit, ObjectInv
<1> QED
  BY <1>1, <1>2, <1>4 DEF CoordinatorIInv

\* acquire adds the turn to the users of the object it finds or creates.
LEMMA AcquireKeeps ==
  ASSUME NEW t \in Turns, NEW c \in Conversations, CoordinatorIInv, Acquire(t, c)
  PROVE  CoordinatorIInv'
<1> DEFINE o == IF registry[c] = NoTurn THEN t ELSE registry[c]
<1> USE DEF CoordinatorIInv
<1>1. /\ o \in Turns
      /\ phase[t] = "idle"
      /\ phase' = [phase EXCEPT ![t] = IF Unlocked(o) THEN "holding"
                                       ELSE "waiting"]
      /\ owner' = [owner EXCEPT ![o] = IF Unlocked(o) THEN t ELSE @]
      /\ queue' = [queue EXCEPT ![o] = IF Unlocked(o) THEN @
                                       ELSE Append(@, t)]
      /\ target' = [target EXCEPT ![t] = c]
      /\ state' = [state EXCEPT ![t] = o]
      /\ registry' = [registry EXCEPT ![c] = o]
      /\ references' = [references EXCEPT ![o] = @ + 1]
  BY DEF Acquire, CoordinatorTypeOK
<1> HIDE DEF o
<1>2. CoordinatorTypeOK'
  BY <1>1 DEF CoordinatorTypeOK, Phase
<1>3. \A s \in Turns : s # t => /\ phase'[s] = phase[s]
                                /\ target'[s] = target[s]
                                /\ state'[s] = state[s]
  BY <1>1 DEF CoordinatorTypeOK
<1>4. /\ phase'[t] \in {"waiting", "holding"}
      /\ phase'[t] = "holding" <=> Unlocked(o)
      /\ target'[t] = c /\ state'[t] = o /\ registry'[c] = o
  BY <1>1 DEF CoordinatorTypeOK
<1>5. ASSUME NEW s \in Turns, s # t, Engaged(s), state[s] = o
      PROVE  target[s] = c /\ registry[c] = o
  <2>1. CASE registry[c] = NoTurn
    BY <2>1, <1>1, <1>5 DEF o, ObjectInv
  <2>2. CASE registry[c] # NoTurn
    <3>1. PICK u \in Turns : Engaged(u) /\ target[u] = c
      BY <2>2 DEF RegistryInv
    <3>2. registry[c] = o /\ state[u] = o
      BY <3>1, <2>2 DEF TurnInv, o
    <3> QED
      BY <3>1, <3>2, <1>5 DEF TurnInv
  <2> QED
    BY <2>1, <2>2
<1>6. ASSUME NEW s \in Turns, s # t, Engaged(s), target[s] = c
      PROVE  state[s] = o
  BY <1>6, CoordinatorAssumption DEF TurnInv, o
<1>7. TurnInv'
  <2>1. ASSUME NEW s \in Turns, Engaged(s)'
        PROVE  /\ target'[s] \in Conversations
               /\ state'[s] \in Turns
               /\ registry'[target'[s]] = state'[s]
    <3>1. CASE s = t
      BY <3>1, <1>1, <1>4
    <3>2. CASE s # t
      BY <3>2, <2>1, <1>1, <1>3, <1>6 DEF TurnInv, Engaged, CoordinatorTypeOK
    <3> QED
      BY <3>1, <3>2
  <2>2. ASSUME NEW s \in Turns, phase'[s] = "holding"
        PROVE  owner'[state'[s]] = s
    <3>1. CASE s = t
      BY <3>1, <2>2, <1>1, <1>4 DEF CoordinatorTypeOK
    <3>2. CASE s # t
      <4>1. phase[s] = "holding" /\ state'[s] = state[s] /\ state[s] \in Turns
            /\ owner[state[s]] = s
        BY <3>2, <2>2, <1>3 DEF TurnInv, Engaged
      <4>2. state[s] = o => ~Unlocked(o)
        BY <4>1, CoordinatorAssumption DEF Unlocked
      <4> QED
        BY <4>1, <4>2, <1>1 DEF CoordinatorTypeOK
    <3> QED
      BY <3>1, <3>2
  <2>3. ASSUME NEW s \in Turns, NEW u \in Turns, Engaged(s)', Engaged(u)',
               state'[s] = state'[u]
        PROVE  target'[s] = target'[u]
    <3>1. CASE s = t /\ u = t
      BY <3>1
    <3>2. CASE s = t /\ u # t
      BY <3>2, <2>3, <1>3, <1>4, <1>5 DEF Engaged
    <3>3. CASE s # t /\ u = t
      BY <3>3, <2>3, <1>3, <1>4, <1>5 DEF Engaged
    <3>4. CASE s # t /\ u # t
      BY <3>4, <2>3, <1>3 DEF Engaged, TurnInv
    <3> QED
      BY <3>1, <3>2, <3>3, <3>4
  <2> QED
    BY <2>1, <2>2, <2>3 DEF TurnInv
<1>8. ObjectInv'
  <2>1. ASSUME NEW p \in Turns, owner'[p] # NoTurn
        PROVE  phase'[owner'[p]] = "holding" /\ state'[owner'[p]] = p
    <3>1. CASE p = o /\ Unlocked(o)
      BY <3>1, <1>1, <1>4 DEF CoordinatorTypeOK
    <3>2. CASE ~(p = o /\ Unlocked(o))
      <4>1. owner'[p] = owner[p]
        BY <3>2, <1>1 DEF CoordinatorTypeOK
      <4> QED
        BY <4>1, <2>1, <1>1, <1>3 DEF ObjectInv, CoordinatorTypeOK
    <3> QED
      BY <3>1, <3>2
  <2>2. ASSUME NEW p \in Turns, phase'[p] = "idle", NEW s \in Turns
        PROVE  state'[s] # p
    <3>1. p # t /\ phase[p] = "idle"
      BY <2>2, <1>3, <1>4
    <3>2. CASE s # t
      BY <3>1, <3>2, <1>3 DEF ObjectInv
    <3>3. CASE s = t /\ registry[c] = NoTurn
      BY <3>1, <3>3, <1>4 DEF o
    <3>4. CASE s = t /\ registry[c] # NoTurn
      <4>1. PICK u \in Turns : Engaged(u) /\ target[u] = c
        BY <3>4 DEF RegistryInv
      <4>2. state[u] = o
        BY <4>1, <3>4 DEF TurnInv, o
      <4> QED
        BY <4>2, <3>1, <3>4, <1>4 DEF ObjectInv
    <3> QED
      BY <3>2, <3>3, <3>4
  <2>3. ASSUME NEW p \in Turns PROVE references'[p] = Cardinality(Users(p)')
    <3>1. t \notin Users(p)
      BY <1>1 DEF Users
    <3>2. CASE p = o
      <4>1. Users(p)' = Users(p) \cup {t}
        BY <3>2, <1>3, <1>4 DEF Users
      <4>2. Cardinality(Users(p)') = Cardinality(Users(p)) + 1
        BY <4>1, <3>1, UsersFinite, FS_AddElement
      <4>3. references'[p] = references[p] + 1
        BY <3>2, <1>1 DEF CoordinatorTypeOK
      <4> QED
        BY <4>2, <4>3 DEF ObjectInv
    <3>3. CASE p # o
      <4>1. Users(p)' = Users(p)
        BY <3>1, <3>3, <1>3, <1>4 DEF Users
      <4> QED
        BY <4>1, <3>3, <1>1 DEF ObjectInv, CoordinatorTypeOK
    <3> QED
      BY <3>2, <3>3
  <2> QED
    BY <2>1, <2>2, <2>3 DEF ObjectInv
<1>9. RegistryInv'
  <2> SUFFICES ASSUME NEW d \in Conversations, registry'[d] # NoTurn
               PROVE  \E s \in Turns : Engaged(s)' /\ target'[s] = d
    BY DEF RegistryInv
  <2>1. CASE d = c
    BY <2>1, <1>4 DEF Engaged
  <2>2. CASE d # c
    <3>1. PICK s \in Turns : Engaged(s) /\ target[s] = d
      BY <2>2, <1>1 DEF RegistryInv, CoordinatorTypeOK
    <3>2. s # t
      BY <3>1, <1>1 DEF Engaged
    <3> QED
      BY <3>1, <3>2, <1>3 DEF Engaged
  <2> QED
    BY <2>1, <2>2
<1> QED
  BY <1>2, <1>7, <1>8, <1>9

\* A waiter that takes the free lock stays a user of the object.
LEMMA ResumeKeeps ==
  ASSUME NEW t \in Turns, CoordinatorIInv, Resume(t)
  PROVE  CoordinatorIInv'
<1> USE DEF CoordinatorIInv
<1>1. /\ phase[t] = "waiting"
      /\ owner[state[t]] = NoTurn
      /\ owner' = [owner EXCEPT ![state[t]] = t]
      /\ queue' = [queue EXCEPT ![state[t]] = Tail(@)]
      /\ phase' = [phase EXCEPT ![t] = "holding"]
      /\ UNCHANGED <<registry, references, target, state>>
      /\ state[t] \in Turns
  BY DEF Resume, TurnInv, Engaged
<1>2. queue[state[t]] # <<>>
  BY DEF Resume
<1>3. CoordinatorTypeOK'
  BY <1>1, <1>2 DEF CoordinatorTypeOK, Phase
<1>4. \A s \in Turns : Engaged(s)' <=> Engaged(s)
  BY <1>1 DEF Engaged, CoordinatorTypeOK
<1>5. TurnInv'
  <2>1. ASSUME NEW s \in Turns, phase'[s] = "holding"
        PROVE  owner'[state'[s]] = s
    BY <2>1, <1>1, CoordinatorAssumption DEF TurnInv, CoordinatorTypeOK, Engaged
  <2> QED
    BY <2>1, <1>1, <1>4 DEF TurnInv
<1>6. ObjectInv'
  <2>1. ASSUME NEW o \in Turns PROVE Users(o)' = Users(o)
    BY <1>1, <1>4 DEF Users, Engaged
  <2>2. ASSUME NEW o \in Turns, owner'[o] # NoTurn
        PROVE  phase'[owner'[o]] = "holding" /\ state'[owner'[o]] = o
    BY <2>2, <1>1 DEF ObjectInv, CoordinatorTypeOK
  <2>3. ASSUME NEW o \in Turns, phase'[o] = "idle"
        PROVE  \A s \in Turns : state'[s] # o
    BY <2>3, <1>1 DEF ObjectInv, CoordinatorTypeOK
  <2> QED
    BY <2>1, <2>2, <2>3, <1>1 DEF ObjectInv
<1>7. RegistryInv'
  BY <1>1, <1>4 DEF RegistryInv
<1> QED
  BY <1>3, <1>5, <1>6, <1>7

\* A turn that goes away, from the queue or from the lock, gives back its
\* reference; the registry entry goes with the last one.
LEMMA LeaveKeeps ==
  ASSUME NEW t \in Turns, CoordinatorIInv, Engaged(t),
         ReleaseReference(t, state[t]),
         phase' = [phase EXCEPT ![t] = "done"],
         UNCHANGED <<target, state>>,
         queue' \in [Turns -> Seq(Turns)],
         owner' = [owner EXCEPT ![state[t]] =
                     IF phase[t] = "holding" THEN NoTurn ELSE @]
  PROVE  CoordinatorIInv'
<1> DEFINE o == state[t]
<1> USE DEF CoordinatorIInv
<1>1. /\ o \in Turns
      /\ target[t] \in Conversations
      /\ registry[target[t]] = o
      /\ references' = [references EXCEPT ![o] = @ - 1]
      /\ registry' = [registry EXCEPT ![target[t]] =
                        IF references[o] = 1 THEN NoTurn ELSE @]
      /\ phase[t] \in {"waiting", "holding"}
      /\ owner' = [owner EXCEPT ![o] =
                     IF phase[t] = "holding" THEN NoTurn ELSE @]
  BY DEF TurnInv, ReleaseReference, Engaged
<1> HIDE DEF o
<1>o. o = state[t]
  BY DEF o
<1>2. t \in Users(o) /\ IsFiniteSet(Users(o))
  BY <1>1, UsersFinite DEF Users, o
<1>3. references[o] = Cardinality(Users(o)) /\ references[o] \in Nat \ {0}
  BY <1>1, <1>2, FS_EmptySet DEF ObjectInv, CoordinatorTypeOK
<1>4. CoordinatorTypeOK'
  <2>1. registry' \in [Conversations -> Turns \cup {NoTurn}]
    BY <1>1 DEF CoordinatorTypeOK
  <2>2. references' \in [Turns -> Nat]
    BY <1>1, <1>3 DEF CoordinatorTypeOK
  <2>3. owner' \in [Turns -> Turns \cup {NoTurn}]
    BY <1>1 DEF CoordinatorTypeOK
  <2>4. phase' \in [Turns -> Phase]
    BY DEF CoordinatorTypeOK, Phase
  <2> QED
    BY <2>1, <2>2, <2>3, <2>4 DEF CoordinatorTypeOK
<1>5. /\ phase'[t] = "done"
      /\ \A s \in Turns : s # t => phase'[s] = phase[s]
  BY DEF CoordinatorTypeOK
<1>6. ASSUME NEW s \in Turns, s # t, Engaged(s), references[o] = 1
      PROVE  target[s] # target[t]
  <2>1. PICK x : Users(o) = {x}
    BY <1>2, <1>3, <1>6, FS_Singleton
  <2>2. state[s] # o
    BY <2>1, <1>2, <1>6 DEF Users, Engaged
  <2> QED
    BY <2>2, <1>1, <1>6 DEF TurnInv
<1>7. TurnInv'
  <2>1. ASSUME NEW s \in Turns, Engaged(s)'
        PROVE  s # t /\ Engaged(s)
    BY <2>1, <1>5 DEF Engaged
  <2>2. ASSUME NEW s \in Turns, Engaged(s)'
        PROVE  /\ target'[s] \in Conversations
               /\ state'[s] \in Turns
               /\ registry'[target'[s]] = state'[s]
    BY <2>1, <2>2, <1>1, <1>6 DEF TurnInv, CoordinatorTypeOK
  <2>3. ASSUME NEW s \in Turns, phase'[s] = "holding"
        PROVE  owner'[state'[s]] = s
    <3>1. s # t /\ phase[s] = "holding" /\ owner[state[s]] = s
          /\ state[s] \in Turns
      BY <2>3, <1>5 DEF TurnInv, Engaged
    <3>2. phase[t] = "holding" => state[s] # o
      BY <3>1, <1>o DEF TurnInv
    <3> QED
      BY <3>1, <3>2, <1>1 DEF CoordinatorTypeOK
  <2>4. ASSUME NEW s \in Turns, NEW u \in Turns, Engaged(s)', Engaged(u)',
               state'[s] = state'[u]
        PROVE  target'[s] = target'[u]
    BY <2>1, <2>4 DEF TurnInv
  <2> QED
    BY <2>2, <2>3, <2>4 DEF TurnInv
<1>8. ObjectInv'
  <2>1. ASSUME NEW p \in Turns, owner'[p] # NoTurn
        PROVE  phase'[owner'[p]] = "holding" /\ state'[owner'[p]] = p
    <3>1. owner'[p] = owner[p]
      BY <2>1, <1>1 DEF CoordinatorTypeOK
    <3>2. phase[owner[p]] = "holding" /\ state[owner[p]] = p
          /\ owner[p] \in Turns
      BY <2>1, <3>1 DEF ObjectInv, CoordinatorTypeOK
    <3>3. owner[p] # t
      BY <3>1, <3>2, <2>1, <1>1, <1>o DEF CoordinatorTypeOK
    <3> QED
      BY <3>1, <3>2, <3>3, <1>5
  <2>2. ASSUME NEW p \in Turns, phase'[p] = "idle"
        PROVE  \A s \in Turns : state'[s] # p
    BY <2>2, <1>5 DEF ObjectInv
  <2>3. ASSUME NEW p \in Turns PROVE references'[p] = Cardinality(Users(p)')
    <3>1. CASE p = o
      <4>1. Users(p)' = Users(p) \ {t}
        BY <3>1, <1>5 DEF Users
      <4>2. Cardinality(Users(o) \ {t}) = Cardinality(Users(o)) - 1
        BY <1>2, FS_RemoveElement
      <4>3. references'[o] = references[o] - 1
        BY <1>1 DEF CoordinatorTypeOK
      <4> QED
        BY <4>1, <4>2, <4>3, <3>1, <1>3
    <3>2. CASE p # o
      <4>1. Users(p)' = Users(p)
        BY <3>2, <1>5, <1>o DEF Users
      <4> QED
        BY <4>1, <3>2, <1>1 DEF ObjectInv, CoordinatorTypeOK
    <3> QED
      BY <3>1, <3>2
  <2> QED
    BY <2>1, <2>2, <2>3 DEF ObjectInv
<1>9. RegistryInv'
  <2> SUFFICES ASSUME NEW d \in Conversations, registry'[d] # NoTurn
               PROVE  \E s \in Turns : Engaged(s)' /\ target'[s] = d
    BY DEF RegistryInv
  <2>1. CASE d = target[t]
    <3>1. references[o] # 1
      BY <2>1, <1>1 DEF CoordinatorTypeOK
    <3>2. PICK s \in Users(o) : s # t
      <4>1. Users(o) # {t}
        BY <3>1, <1>3, FS_Singleton
      <4> QED
        BY <4>1, <1>2
    <3>3. s \in Turns /\ Engaged(s) /\ state[s] = state[t]
      BY <3>2, <1>o DEF Users, Engaged
    <3>4. target[s] = d
      BY <3>3, <2>1 DEF TurnInv
    <3> QED
      BY <3>2, <3>3, <3>4, <1>5 DEF Engaged
  <2>2. CASE d # target[t]
    <3>1. PICK s \in Turns : Engaged(s) /\ target[s] = d
      BY <2>2, <1>1 DEF RegistryInv, CoordinatorTypeOK
    <3> QED
      BY <3>1, <2>2, <1>5 DEF Engaged
  <2> QED
    BY <2>1, <2>2
<1> QED
  BY <1>4, <1>7, <1>8, <1>9

\* A waiter that is cancelled leaves from the queue.
LEMMA CancelWaitingKeeps ==
  ASSUME NEW t \in Turns, CoordinatorIInv, CancelWaiting(t)
  PROVE  CoordinatorIInv'
<1>1. /\ phase[t] = "waiting" /\ Engaged(t) /\ state[t] \in Turns
      /\ phase' = [phase EXCEPT ![t] = "done"]
      /\ ReleaseReference(t, state[t])
      /\ UNCHANGED <<owner, target, state>>
  BY DEF CancelWaiting, Engaged, CoordinatorIInv, TurnInv
<1>2. PICK i \in DOMAIN queue[state[t]] :
         queue' = [queue EXCEPT ![state[t]] = RemoveAt(@, i)]
  BY DEF CancelWaiting
<1>3. queue[state[t]] \in Seq(Turns)
  BY <1>1 DEF CoordinatorIInv, CoordinatorTypeOK
<1>4. RemoveAt(queue[state[t]], i) \in Seq(Turns)
  BY <1>2, <1>3 DEF RemoveAt
<1>5. queue' \in [Turns -> Seq(Turns)]
  BY <1>1, <1>2, <1>4 DEF CoordinatorIInv, CoordinatorTypeOK
<1>6. owner' = [owner EXCEPT ![state[t]] =
                  IF phase[t] = "holding" THEN NoTurn ELSE @]
  BY <1>1 DEF CoordinatorIInv, CoordinatorTypeOK
<1> QED
  BY <1>1, <1>5, <1>6, LeaveKeeps

\* A turn that ends unlocks the object it owns.
LEMMA ReleaseKeeps ==
  ASSUME NEW t \in Turns, CoordinatorIInv, ReleaseTurn(t)
  PROVE  CoordinatorIInv'
<1>1. /\ phase[t] = "holding" /\ Engaged(t)
      /\ phase' = [phase EXCEPT ![t] = "done"]
      /\ ReleaseReference(t, state[t])
      /\ UNCHANGED <<queue, target, state>>
      /\ owner' = [owner EXCEPT ![state[t]] =
                     IF phase[t] = "holding" THEN NoTurn ELSE @]
  BY DEF ReleaseTurn, Engaged
<1>2. queue' \in [Turns -> Seq(Turns)]
  BY <1>1 DEF CoordinatorIInv, CoordinatorTypeOK
<1> QED
  BY <1>1, <1>2, LeaveKeeps

\* Every step keeps the invariant.
LEMMA NextCoordinator == CoordinatorIInv /\ [CoordinatorNext]_coordinatorVars => CoordinatorIInv'
<1> SUFFICES ASSUME CoordinatorIInv, [CoordinatorNext]_coordinatorVars PROVE CoordinatorIInv'
  OBVIOUS
<1>1. ASSUME NEW t \in Turns, NEW c \in Conversations, Acquire(t, c)
      PROVE  CoordinatorIInv'
  BY <1>1, AcquireKeeps
<1>2. ASSUME NEW t \in Turns, Resume(t) PROVE CoordinatorIInv'
  BY <1>2, ResumeKeeps
<1>3. ASSUME NEW t \in Turns, CancelWaiting(t) PROVE CoordinatorIInv'
  BY <1>3, CancelWaitingKeeps
<1>4. ASSUME NEW t \in Turns, ReleaseTurn(t) PROVE CoordinatorIInv'
  BY <1>4, ReleaseKeeps
<1>5. CASE UNCHANGED coordinatorVars
  <2>1. CoordinatorTypeOK' /\ RegistryInv'
    BY <1>5 DEF coordinatorVars, CoordinatorIInv, CoordinatorTypeOK, RegistryInv, Engaged
  <2>2. TurnInv'
    BY <1>5 DEF coordinatorVars, CoordinatorIInv, TurnInv, Engaged
  <2>3. \A o \in Turns : Users(o)' = Users(o)
    BY <1>5 DEF coordinatorVars, Users
  <2>4. ObjectInv'
    BY <1>5, <2>3 DEF coordinatorVars, CoordinatorIInv, ObjectInv
  <2> QED
    BY <2>1, <2>2, <2>4 DEF CoordinatorIInv
<1> QED
  BY <1>1, <1>2, <1>3, <1>4, <1>5 DEF CoordinatorNext

\* The invariant holds in every state.
THEOREM CoordinatorInvariant == CoordinatorSpec => []CoordinatorIInv
<1> QED
  BY InitCoordinator, NextCoordinator, PTL DEF CoordinatorSpec

\* Two turns that run in one conversation refer to the same object, which has
\* one owner.
LEMMA CoordinatorExcludes == CoordinatorIInv => MutualExclusion
BY DEF CoordinatorIInv, TurnInv, MutualExclusion, Engaged

\* An active turn and a registry entry imply each other.
LEMMA CoordinatorRegistry == CoordinatorIInv => RegistryIsExact
<1> SUFFICES ASSUME CoordinatorIInv PROVE RegistryIsExact
  OBVIOUS
<1>1. \A o \in Turns : references[o] = Cardinality(Users(o))
  BY DEF CoordinatorIInv, ObjectInv
<1>2. \A t \in Turns : phase[t] \in {"waiting", "holding"}
        => registry[target[t]] = state[t] /\ state[t] \in Turns
  BY DEF CoordinatorIInv, TurnInv, Engaged
<1>3. \A c \in Conversations :
        registry[c] # NoTurn <=>
           \E t \in Turns : target[t] = c /\ phase[t] \in {"waiting", "holding"}
  BY <1>2, CoordinatorAssumption DEF CoordinatorIInv, RegistryInv, Engaged
<1> QED
  BY <1>1, <1>2, <1>3 DEF RegistryIsExact

\* Type correctness; no reference count is ever negative, so the RuntimeError
\* of _release_reference is unreachable.
THEOREM CoordinatorTyped == CoordinatorSpec => []CoordinatorTypeOK
<1> QED
  BY CoordinatorInvariant, PTL DEF CoordinatorIInv

\* Turns of one conversation exclude each other, for any number of turns and
\* conversations.
THEOREM TurnsExclude == CoordinatorSpec => []MutualExclusion
<1> QED
  BY CoordinatorInvariant, CoordinatorExcludes, PTL

\* The registry holds an entry exactly while a conversation is in use.
THEOREM RegistryExact == CoordinatorSpec => []RegistryIsExact
<1> QED
  BY CoordinatorInvariant, CoordinatorRegistry, PTL

\* Turns exclude each other, and registry, counts and turns agree, however
\* lock objects come and go (_acquire, _release, _release_reference).
THEOREM CoordinatorStaysConsistent == CoordinatorSpec => []CoordinatorConsistent
<1>1. CoordinatorTypeOK /\ MutualExclusion /\ RegistryIsExact => CoordinatorConsistent
  BY DEF CoordinatorConsistent
<1> QED
  BY <1>1, CoordinatorTyped, TurnsExclude, RegistryExact, PTL

-----------------------------------------------------------------------------
(* The coordinator implements TurnLock *)

\* What TurnLock sees of the coordinator.
WaitingView == [t \in Turns |-> IF phase[t] = "waiting" THEN target[t]
                                ELSE NoConversation]

HoldingView == [t \in Turns |-> IF phase[t] = "holding" THEN target[t]
                                ELSE NoConversation]

\* Nobody waits or runs at first.
LEMMA InitLock == CoordinatorInit => Lock!Init
BY DEF CoordinatorInit, Lock!Init, Lock!None

\* A lock object that is free has no running turn in its conversation.
LEMMA FreeConversation ==
  ASSUME CoordinatorIInv, NEW c \in Conversations, NEW t \in Turns,
         \/ registry[c] = NoTurn
         \/ registry[c] # NoTurn /\ owner[registry[c]] = NoTurn
  PROVE  Lock!Free(c)
<1> SUFFICES ASSUME NEW s \in Turns, phase[s] = "holding", target[s] = c
             PROVE  FALSE
  BY CoordinatorAssumption DEF Lock!Free
<1>1. registry[c] = state[s] /\ state[s] \in Turns /\ owner[state[s]] = s
  BY DEF CoordinatorIInv, TurnInv, Engaged
<1> QED
  BY <1>1, CoordinatorAssumption

\* Each action is an action of TurnLock.
LEMMA AcquireLock ==
  ASSUME CoordinatorIInv, NEW t \in Turns, NEW c \in Conversations, Acquire(t, c)
  PROVE  Lock!Request(t, c) \/ Lock!Enter(t, c)
<1> DEFINE o == IF registry[c] = NoTurn THEN t ELSE registry[c]
<1>1. /\ phase[t] = "idle" /\ target' = [target EXCEPT ![t] = c]
      /\ phase \in [Turns -> Phase]
      /\ target \in [Turns -> Conversations \cup {NoConversation}]
  BY DEF Acquire, CoordinatorIInv, CoordinatorTypeOK
<1>2. CASE Unlocked(o)
  <2>1. phase' = [phase EXCEPT ![t] = "holding"]
    BY <1>2 DEF Acquire
  <2>2. Lock!Free(c)
    BY <1>2, FreeConversation DEF Unlocked
  <2>3. WaitingView' = [WaitingView EXCEPT ![t] = NoConversation]
    BY <1>1, <2>1 DEF WaitingView
  <2>4. HoldingView' = [HoldingView EXCEPT ![t] = c]
    BY <1>1, <2>1 DEF HoldingView
  <2> QED
    BY <1>1, <2>2, <2>3, <2>4 DEF Lock!Enter, WaitingView, HoldingView
<1>3. CASE ~Unlocked(o)
  <2>1. phase' = [phase EXCEPT ![t] = "waiting"]
    BY <1>3 DEF Acquire
  <2>2. WaitingView' = [WaitingView EXCEPT ![t] = c]
    BY <1>1, <2>1 DEF WaitingView
  <2>3. HoldingView' = HoldingView
    BY <1>1, <2>1 DEF HoldingView
  <2> QED
    BY <1>1, <2>2, <2>3 DEF Lock!Request, WaitingView, HoldingView
<1> QED
  BY <1>2, <1>3

\* A waiter that resumes enters the lock.
LEMMA ResumeLock ==
  ASSUME CoordinatorIInv, NEW t \in Turns, NEW c \in Conversations, c = target[t],
         Resume(t)
  PROVE  Lock!Enter(t, c)
<1>1. /\ phase[t] = "waiting" /\ phase' = [phase EXCEPT ![t] = "holding"]
      /\ target' = target /\ target[t] \in Conversations
      /\ phase \in [Turns -> Phase] /\ owner[state[t]] = NoTurn
      /\ registry[target[t]] = state[t]
  BY DEF Resume, CoordinatorIInv, CoordinatorTypeOK, TurnInv, Engaged
<1>2. Lock!Free(c)
  BY <1>1, FreeConversation
<1>3. WaitingView' = [WaitingView EXCEPT ![t] = NoConversation]
  BY <1>1 DEF WaitingView
<1>4. HoldingView' = [HoldingView EXCEPT ![t] = c]
  BY <1>1 DEF HoldingView
<1> QED
  BY <1>1, <1>2, <1>3, <1>4 DEF Lock!Enter, WaitingView, HoldingView

\* A cancelled waiter withdraws.
LEMMA CancelWaitingLock ==
  ASSUME CoordinatorIInv, NEW t \in Turns, CancelWaiting(t)
  PROVE  Lock!Withdraw(t)
<1>1. /\ phase[t] = "waiting" /\ phase' = [phase EXCEPT ![t] = "done"]
      /\ target' = target /\ target[t] \in Conversations
      /\ phase \in [Turns -> Phase]
  BY DEF CancelWaiting, CoordinatorIInv, CoordinatorTypeOK, TurnInv, Engaged
<1>2. WaitingView' = [WaitingView EXCEPT ![t] = NoConversation]
  BY <1>1 DEF WaitingView
<1>3. HoldingView' = HoldingView
  BY <1>1 DEF HoldingView
<1> QED
  BY <1>1, <1>2, <1>3, CoordinatorAssumption
  DEF Lock!Withdraw, WaitingView, HoldingView

\* A released lease leaves the lock.
LEMMA ReleaseLock ==
  ASSUME CoordinatorIInv, NEW t \in Turns, ReleaseTurn(t)
  PROVE  Lock!Leave(t)
<1>1. /\ phase[t] = "holding" /\ phase' = [phase EXCEPT ![t] = "done"]
      /\ target' = target /\ target[t] \in Conversations
      /\ phase \in [Turns -> Phase]
  BY DEF ReleaseTurn, CoordinatorIInv, CoordinatorTypeOK, TurnInv, Engaged
<1>2. WaitingView' = WaitingView
  BY <1>1 DEF WaitingView
<1>3. HoldingView' = [HoldingView EXCEPT ![t] = NoConversation]
  BY <1>1 DEF HoldingView
<1> QED
  BY <1>1, <1>2, <1>3, CoordinatorAssumption
  DEF Lock!Leave, WaitingView, HoldingView

\* Every step is a step of TurnLock or none.
LEMMA NextLock == CoordinatorIInv /\ [CoordinatorNext]_coordinatorVars => [Lock!Next]_(Lock!vars)
<1> SUFFICES ASSUME CoordinatorIInv, [CoordinatorNext]_coordinatorVars PROVE [Lock!Next]_(Lock!vars)
  OBVIOUS
<1>1. ASSUME NEW t \in Turns, NEW c \in Conversations, Acquire(t, c)
      PROVE  Lock!Next
  BY <1>1, AcquireLock DEF Lock!Next
<1>2. ASSUME NEW t \in Turns, Resume(t) PROVE Lock!Next
  <2>1. target[t] \in Conversations
    BY <1>2 DEF Resume, CoordinatorIInv, TurnInv, Engaged
  <2>2. PICK c \in Conversations : c = target[t]
    BY <2>1
  <2> QED
    BY <2>2, <1>2, ResumeLock DEF Lock!Next
<1>3. ASSUME NEW t \in Turns, CancelWaiting(t) PROVE Lock!Next
  BY <1>3, CancelWaitingLock DEF Lock!Next
<1>4. ASSUME NEW t \in Turns, ReleaseTurn(t) PROVE Lock!Next
  BY <1>4, ReleaseLock DEF Lock!Next
<1>5. CASE UNCHANGED coordinatorVars
  BY <1>5 DEF coordinatorVars, Lock!vars
<1> QED
  BY <1>1, <1>2, <1>3, <1>4, <1>5 DEF CoordinatorNext

\* Reference counting and wake-ups implement a lock per conversation.
THEOREM CoordinatorImplementsLock == CoordinatorSpec => LockKept
<1> QED
  BY CoordinatorInvariant, InitLock, NextLock, PTL DEF CoordinatorSpec, LockKept, Lock!Spec
=============================================================================
