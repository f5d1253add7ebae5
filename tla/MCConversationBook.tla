------------------------- MODULE MCConversationBook -------------------------
(***************************************************************************)
(* TLC instance of ConversationBook: three conversations of one owner, one *)
(* of them perhaps still to be created; somebody else asks for them too.   *)
(***************************************************************************)
EXTENDS ConversationBook

CONSTANTS ann, bob

Stocked(owner, pinned, updated, messages) ==
  [row |-> "stored", owner |-> owner, summary |-> IF messages = <<>> THEN "none" ELSE "generated",
   pinned |-> pinned, updated |-> updated, messages |-> messages]

\* Rows with the same date, with and without a pinned one, with a history
\* longer than a page and than the budget.
Starts ==
  { <<Stocked(ann, p1, 1, <<1, 1, 3>>), Stocked(ann, p2, 0, <<1, 1>>),
      [Stocked(ann, FALSE, 0, <<>>) EXCEPT !.row = third]>> :
        p1, p2 \in BOOLEAN, third \in {"unborn", "stored"} }
=============================================================================
