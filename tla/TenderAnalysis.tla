--------------------------- MODULE TenderAnalysis ---------------------------
(***************************************************************************)
(* The tender agent: it reads a tender document, has the model find the    *)
(* forms a bidder must fill in, and copies them from the source into one   *)
(* file per volume.                                                        *)
(*                                                                         *)
(* Source: business/agents/tender/application (service.py, chunking.py)    *)
(* and infrastructure/documents/tender_docx.py.                            *)
(*                                                                         *)
(* Every thread of LlmAccess runs one job.  A document is the sequence of  *)
(* the body's elements; a text is a sequence of characters, of which "s"   *)
(* is a space, "p" another separator and "|" what joins the rows of a      *)
(* table.  A row has one cell.  Element n has the id n, None stands for an *)
(* id that is missing.                                                     *)
(***************************************************************************)
EXTENDS LlmAccess, SequencesExt

CONSTANTS Documents,        \* names to documents: [body, large, archive]
          Crowded,          \* documents during whose analysis others call as well
          Answers(_),       \* analyses the model may return for a document
          Verdicts(_),      \* what it may return when asked to verify
          Extracts(_),      \* ranges a user asks for
          ResultSizes,      \* sizes of the model's results
          ChunkChars, MaxChunks, MergeChars, MaxOutput, MaxMergeItems,
          MaxCalls, MaxRetries, MaxGap,
          None

(* What the reader makes of a file, and the schemas of the model's answers. *)
ASSUME TenderAssumption ==
  /\ MaxCalls \in Nat /\ MaxRetries \in Nat /\ MaxGap \in Nat
  /\ \A doc \in DOMAIN Documents :
       /\ Documents[doc].large \in BOOLEAN
       /\ DOMAIN Documents[doc].body = 1..Len(Documents[doc].body)
       /\ Len(Documents[doc].body) \in Nat
       /\ \A a \in Answers(doc) :
            /\ DOMAIN a = {"status", "package", "start", "end", "outputs", "evidence"}
            /\ a.status \in {"completed", "needs_review"}
            /\ a.package \in {"single", "multi", "uncertain"}
            /\ a.outputs = [i \in 1..Len(a.outputs) |-> a.outputs[i]] /\ Len(a.outputs) \in Nat
            /\ \A i \in DOMAIN a.outputs :
                 DOMAIN a.outputs[i] = {"name", "slug", "start", "end", "refs"}

VARIABLE job

tenderVars == <<job, llmVars>>

-----------------------------------------------------------------------------
(* Reading.                                                                *)

Strip(s) ==
  LET inner == {i \in DOMAIN s : s[i] # "s"}
  IN  IF inner = {} THEN <<>> ELSE SubSeq(s, Min(inner), Max(inner))

(* Rows that are not blank, joined. *)
TableText(rows) ==
  LET bar == <<"s", "|", "s">>
      put(text, row) == IF Strip(row) = <<>> THEN text
                        ELSE IF text = <<>> THEN row ELSE text \o bar \o row
  IN  FoldLeft(put, <<>>, rows)

TextOf(element) ==
  IF element.kind = "table" THEN Strip(TableText(element.rows)) ELSE Strip(element.text)

(* The titles above an element, a heading's own included. *)
HeadingPath(body, n) ==
  LET push(stack, e) ==
        IF e.kind = "paragraph" /\ e.level > 0 /\ Strip(e.text) # <<>>
        THEN Append(SubSeq(stack, 1, Least(e.level - 1, Len(stack))), Strip(e.text)) ELSE stack
  IN  FoldLeft(push, <<>>, SubSeq(body, 1, n))

Names == DOMAIN Documents
Body(doc) == Documents[doc].body
Large(doc) == Documents[doc].large

(* _iter_document_blocks: elements without text are no blocks. *)
Ids == [doc \in Names |->
  {n \in DOMAIN Body(doc) : Body(doc)[n].kind # "section" /\ TextOf(Body(doc)[n]) # <<>>}]

Blocks == [doc \in Names |->
  LET shown == SelectSeq([n \in DOMAIN Body(doc) |-> n], LAMBDA n : n \in Ids[doc])
  IN  [i \in DOMAIN shown |-> [id |-> shown[i], path |-> HeadingPath(Body(doc), shown[i])]]]

(* _validate_input and _inspect_archive refuse files that are too large,   *)
(* packed or unpacked, have too many entries or are no archive.            *)
Accepted(doc) == Documents[doc].archive = "ok"

(* Where a block is in the sequence of blocks. *)
Position(doc, id) == Cardinality({i \in Ids[doc] : i <= id})

-----------------------------------------------------------------------------
(* Planning chunks.                                                        *)

(* A long text is cut at its last separator, or at the limit if that one   *)
(* comes too early.                                                        *)
Cut(s) ==
  LET separators == {i \in 1..ChunkChars : s[i] \in {"s", "p"}}
      cut == IF separators = {} THEN -1 ELSE Max(separators) - 1
  IN  IF cut < ChunkChars \div 2 THEN ChunkChars ELSE cut

SplitText[text \in Seq(STRING)] ==
  LET s == Strip(text)
  IN  IF s = <<>> THEN <<>>
      ELSE IF Len(s) <= ChunkChars THEN <<s>>
      ELSE <<Strip(SubSeq(s, 1, Cut(s)))>> \o SplitText[SubSeq(s, Cut(s) + 1, Len(s))]

(* Rows are added to a piece while it has room; a row that fits nowhere is *)
(* cut like a text.                                                        *)
AddRow(header, acc, row) ==
  LET size == Len(row) + 3
      full == acc.rows # <<>> /\ acc.size + size > ChunkChars
      next == IF full THEN [pieces |-> Append(acc.pieces, TableText(<<header>> \o acc.rows)),
                            rows |-> <<>>, size |-> Len(header)] ELSE acc
  IN  IF next.rows = <<>> /\ next.size + size > ChunkChars
      THEN [next EXCEPT !.pieces = @ \o SplitText[TableText(<<header, row>>)],
                        !.size = Len(header)]
      ELSE [next EXCEPT !.rows = Append(@, row), !.size = @ + size]

(* Every piece of a table starts with its header. *)
Pieces(element) ==
  IF element.kind # "table" THEN SplitText[element.text]
  ELSE LET header == element.rows[1]
           rows == IF Len(element.rows) > 1 THEN Tail(element.rows) ELSE element.rows
           end == FoldLeft(LAMBDA acc, row : AddRow(header, acc, row),
                           [pieces |-> <<>>, rows |-> <<>>, size |-> Len(header)], rows)
       IN  IF end.rows = <<>> THEN end.pieces
           ELSE Append(end.pieces, TableText(<<header>> \o end.rows))

(* Mutation: the piece that starts a chunk is not counted. *)
AddPieceForgetsSize(doc, acc, item) ==
  LET element == Body(doc)[item.block.id]
      section == /\ element.kind = "paragraph" /\ element.level > 0
                 /\ item.block.path # Last(acc.current).block.path
      flush == acc.current # <<>> /\ (section \/ acc.size + Len(item.piece) + 1 > ChunkChars)
  IN  IF flush
      THEN [chunks |-> Append(acc.chunks, acc.current), current |-> <<item>>, size |-> 0]
      ELSE [acc EXCEPT !.current = Append(@, item), !.size = @ + Len(item.piece) + 1]

(* A piece starts a new chunk when it does not fit, or begins a section. *)
AddPiece(doc, acc, item) ==
  LET element == Body(doc)[item.block.id]
      section == /\ element.kind = "paragraph" /\ element.level > 0
                 /\ item.block.path # Last(acc.current).block.path
      flush == acc.current # <<>> /\ (section \/ acc.size + Len(item.piece) + 1 > ChunkChars)
  IN  IF flush
      THEN [chunks |-> Append(acc.chunks, acc.current), current |-> <<item>>,
            size |-> Len(item.piece) + 1]
      ELSE [acc EXCEPT !.current = Append(@, item), !.size = @ + Len(item.piece) + 1]

(* TenderChunkPlanner.plan; a plan with more than MaxChunks is refused. *)
Plan == [doc \in Names |->
  LET blocks == Blocks[doc]
      itemsOf(b) == LET pieces == Pieces(Body(doc)[b.id])
                    IN  [i \in DOMAIN pieces |-> [block |-> b, piece |-> pieces[i]]]
      items == FlattenSeq([i \in DOMAIN blocks |-> itemsOf(blocks[i])])
      end == FoldLeft(LAMBDA acc, item : AddPiece(doc, acc, item),
                      [chunks |-> <<>>, current |-> <<>>, size |-> 0], items)
  IN  IF end.current = <<>> THEN end.chunks ELSE Append(end.chunks, end.current)]

-----------------------------------------------------------------------------
(* Validating an analysis: [status, package, start, end, outputs,          *)
(* evidence], an output: [name, slug, start, end, refs].  The references   *)
(* of the key requirements are checked like the evidence.                  *)

OutputRefs(output) == (output.refs \cup {output.start, output.end}) \ {None}

References(a) ==
  a.evidence \cup ({a.start, a.end} \ {None})
    \cup UNION {OutputRefs(a.outputs[i]) : i \in DOMAIN a.outputs}

(* _validated_analysis *)
ValidAnalysis(doc, a) ==
  /\ a.package = "single" => Len(a.outputs) = 1
  /\ a.package = "multi" => Len(a.outputs) >= 2
  /\ a.package = "uncertain" => a.status = "needs_review"
  /\ a.status = "completed" => a.outputs # <<>>
  /\ References(a) \subseteq Ids[doc]
  /\ a.evidence # {}

(* An output lies inside the format region and its evidence inside it. *)
InRegion(a, output) ==
  /\ None \notin {output.start, output.end} /\ output.start <= output.end
  /\ a.start <= output.start /\ output.end <= a.end
  /\ \A ref \in output.refs : ref \in output.start..output.end

DistinctOutputs(outputs) ==
  \A i, j \in DOMAIN outputs :
    i # j => outputs[i].name # outputs[j].name /\ outputs[i].slug # outputs[j].slug

(* ranges.sort(); volumes that start at the same block overlap anyway. *)
Earlier(outputs, i, k) ==
  \/ outputs[i].start < outputs[k].start
  \/ outputs[i].start = outputs[k].start /\ i < k

(* Sorted volumes do not overlap and leave few blocks out, except at the   *)
(* start of the region.                                                    *)
NoOverlap(doc, a) ==
  LET volumes == DOMAIN a.outputs
      Follows(i, k) == /\ Earlier(a.outputs, i, k)
                       /\ ~\E l \in volumes : Earlier(a.outputs, i, l) /\ Earlier(a.outputs, l, k)
      Gap(id, i) == Position(doc, id) - Position(doc, a.outputs[i].end)
  IN  /\ \A i, k \in volumes :
           Follows(i, k) => Gap(a.outputs[k].start, i) - 1 \in 0..MaxGap
      /\ \A i \in volumes :
           ~(\E k \in volumes : Earlier(a.outputs, i, k)) => Gap(a.end, i) <= MaxGap

(* _validate_explicit_boundaries, for ids that ValidAnalysis knows. *)
ExplicitBoundaries(doc, a, complete) ==
  /\ None \notin {a.start, a.end} /\ a.start <= a.end
  /\ \A i \in DOMAIN a.outputs : InRegion(a, a.outputs[i])
  /\ DistinctOutputs(a.outputs)
  /\ IF a.package = "single"
     THEN complete => a.outputs[1].start = a.start /\ a.outputs[1].end = a.end
     ELSE NoOverlap(doc, a)

-----------------------------------------------------------------------------
(* Rendering.                                                              *)

(* _render_output copies every element between the boundaries, those       *)
(* without text too, but no section properties.  Titles added for the      *)
(* bidder are left out.                                                    *)
Copied(doc, output) ==
  {n \in output.start..output.end : Body(doc)[n].kind # "section"}

Renderable(outputs) ==
  /\ outputs # <<>>
  /\ \A i \in DOMAIN outputs : None \notin {outputs[i].start, outputs[i].end}
                               /\ outputs[i].start <= outputs[i].end

(* A job ends with its files, or fails as a whole. *)
Failed(j) == [j EXCEPT !.pc = "ended", !.outcome = "failed"]

Rendered(j, a) ==
  IF Renderable(a.outputs)
  THEN [j EXCEPT !.pc = "ended", !.outcome = a.status, !.analysis = <<a>>,
                 !.files = [i \in DOMAIN a.outputs |-> Copied(j.doc, a.outputs[i])]]
  ELSE Failed(j)

-----------------------------------------------------------------------------
(* The job.                                                                *)

NewJob(doc) ==
  [doc |-> doc, pc |-> "new", stage |-> "none", calls |-> 0, tries |-> 0,
   todo |-> <<>>, results |-> <<>>, gaps |-> FALSE, analysis |-> <<>>, files |-> <<>>,
   outcome |-> "none"]

TenderInit ==
  /\ LlmInit
  /\ \E doc \in Names : job = [t \in Threads |-> NewJob(doc)]

Ask(j, stage) == [j EXCEPT !.pc = "ask", !.stage = stage, !.tries = 0]

(* What fits together into one request. *)
Batches(items) ==
  LET add(acc, size) ==
        LET sum == FoldLeft(LAMBDA x, y : x + y, 0, acc.current)
            full == acc.current # <<>> /\ (Len(acc.current) >= MaxMergeItems \/ sum + size > MergeChars)
        IN  IF full THEN [batches |-> Append(acc.batches, acc.current), current |-> <<size>>]
            ELSE [acc EXCEPT !.current = Append(@, size)]
      end == FoldLeft(add, [batches |-> <<>>, current |-> <<>>], items)
  IN  Append(end.batches, end.current)

(* Mutation: every level of merging has a budget of its own. *)
MergeLevelAnew(j, items) ==
  IF \E i \in DOMAIN items : items[i] > MergeChars THEN Failed(j)
  ELSE Ask([j EXCEPT !.todo = Batches(items), !.results = <<>>, !.calls = 0], "merge")

(* _merge_batches: the next level merges what fits together. *)
MergeLevel(j, items) ==
  IF \E i \in DOMAIN items : items[i] > MergeChars THEN Failed(j)
  ELSE Ask([j EXCEPT !.todo = Batches(items), !.results = <<>>], "merge")

(* execute: a document of many bytes is analysed in chunks, any other with *)
(* one request for all its text.                                           *)
Read(t) ==
  /\ job[t].pc = "new"
  /\ LET j == job[t]
         plan == Plan[j.doc]
     IN  job' = [job EXCEPT ![t] =
           IF ~Accepted(j.doc) \/ Blocks[j.doc] = <<>> THEN Failed(j)
           ELSE IF ~Large(j.doc) THEN Ask(j, "boundary")
           ELSE IF Len(plan) \notin 1..MaxChunks THEN Failed(j)
           ELSE Ask([j EXCEPT !.todo = plan], "chunk")]
  /\ UNCHANGED llmVars

(* extract_bid_format_section: a range the user has confirmed is copied    *)
(* without the model.                                                      *)
Extract(t) ==
  /\ job[t].pc = "new"
  /\ \E range \in Extracts(job[t].doc) :
       LET j == job[t]
           output == [start |-> range[1], end |-> range[2]]
           known == Accepted(j.doc) /\ {range[1], range[2]} \subseteq Ids[j.doc] /\ range[1] <= range[2]
       IN  job' = [job EXCEPT ![t] = IF known
                     THEN [j EXCEPT !.pc = "ended", !.outcome = "extracted",
                                    !.files = <<Copied(j.doc, output)>>]
                     ELSE Failed(j)]
  /\ UNCHANGED llmVars

(* The requests of a chunked analysis are counted. *)
CallModel(t) ==
  /\ job[t].pc = "ask"
  /\ LET j == job[t] IN
     IF j.stage \in {"boundary", "verify"} \/ j.calls < MaxCalls
     THEN /\ Invoke(t)
          /\ job' = [job EXCEPT ![t].pc = "wait", ![t].calls = IF Large(j.doc) THEN @ + 1 ELSE @]
     ELSE /\ job' = [job EXCEPT ![t] = Failed(j)]
          /\ UNCHANGED llmVars

(* They also have a time; it may be over before any of them. *)
TimeIsUp(t) ==
  /\ job[t].pc = "ask" /\ job[t].stage \in {"chunk", "merge"} /\ job[t].calls > 0
  /\ job' = [job EXCEPT ![t] = Failed(@)]
  /\ UNCHANGED llmVars

(* _invoke_bounded: an unusable result is asked for once more. *)
Again(j) == IF j.tries < MaxRetries THEN [j EXCEPT !.pc = "ask", !.tries = @ + 1] ELSE Failed(j)

Answered(t) == job[t].pc = "wait" /\ At(t, "ended")

(* The call failed for good or its reply was no object of the schema. *)
NoAnswer(t) ==
  /\ Answered(t) /\ call[t].result # "answer"
  /\ job' = [job EXCEPT ![t] = IF @.stage \in {"chunk", "merge"} THEN Again(@) ELSE Failed(@)]
  /\ UNCHANGED llmVars

Got(t, stage) == Answered(t) /\ call[t].result = "answer" /\ job[t].stage = stage

(* _execute_boundary_driven: a single volume is verified. *)
BoundaryAnswer(t) ==
  /\ Got(t, "boundary")
  /\ \E a \in Answers(job[t].doc) :
       job' = [job EXCEPT ![t] =
         IF ~(ValidAnalysis(@.doc, a) /\ ExplicitBoundaries(@.doc, a, FALSE)) THEN Failed(@)
         ELSE IF a.package = "single" THEN Ask([@ EXCEPT !.analysis = <<a>>], "verify")
         ELSE Rendered(@, a)]
  /\ UNCHANGED llmVars

Adjusted(a, v) ==
  [a EXCEPT !.start = v.start, !.end = v.end,
            !.outputs = <<[@[1] EXCEPT !.start = v.start, !.end = v.end]>>]

(* _verify_single_volume_boundary *)
VerifyAnswer(t) ==
  /\ Got(t, "verify")
  /\ \E v \in Verdicts(job[t].doc) :
       LET a == job[t].analysis[1]
           b == Adjusted(a, v)
       IN  job' = [job EXCEPT ![t] =
             IF ~v.adjust THEN Rendered(@, a)
             ELSE IF None \notin {v.start, v.end} /\ ValidAnalysis(@.doc, b)
                     /\ ExplicitBoundaries(@.doc, b, TRUE) THEN Rendered(@, b)
             ELSE Failed(@)]
  /\ UNCHANGED llmVars

(* One result of _execute_chunked; the last one starts the merging. *)
ChunkAnswer(t) ==
  /\ Got(t, "chunk")
  /\ \E size \in ResultSizes, ownEvidence, complete \in BOOLEAN :
       LET j == job[t]
           k == [j EXCEPT !.todo = Tail(@), !.results = Append(@, size), !.gaps = @ \/ ~complete]
       IN  job' = [job EXCEPT ![t] =
             IF size > MaxOutput \/ ~ownEvidence THEN Again(j)
             ELSE IF k.todo = <<>> THEN MergeLevel(k, k.results)
             ELSE Ask(k, "chunk")]
  /\ UNCHANGED llmVars

(* Mutation: only the merged result tells whether it is complete. *)
ReviewedByModel(j, a) == a

(* _mark_needs_review, if a chunk was not covered. *)
Reviewed(j, a) == IF j.gaps THEN [a EXCEPT !.status = "needs_review"] ELSE a

(* One merged result; a level with a single one is the analysis.  Its      *)
(* boundaries are not looked at.                                           *)
MergeAnswer(t) ==
  /\ Got(t, "merge")
  /\ \E size \in ResultSizes :
       LET j == job[t]
           k == [j EXCEPT !.todo = Tail(@), !.results = Append(@, size)]
       IN  \/ /\ size > MaxOutput
              /\ job' = [job EXCEPT ![t] = Again(j)]
           \/ /\ size <= MaxOutput /\ k.todo # <<>>
              /\ job' = [job EXCEPT ![t] = Ask(k, "merge")]
           \/ /\ size <= MaxOutput /\ k.todo = <<>> /\ Len(k.results) > 1
              /\ job' = [job EXCEPT ![t] = MergeLevel(k, k.results)]
           \/ /\ size <= MaxOutput /\ k.todo = <<>> /\ Len(k.results) = 1
              /\ \E a \in Answers(j.doc) :
                   job' = [job EXCEPT ![t] = IF ValidAnalysis(j.doc, Reviewed(k, a))
                                             THEN Rendered(k, Reviewed(k, a)) ELSE Failed(k)]
  /\ UNCHANGED llmVars

Work(t) ==
  \/ Read(t) \/ CallModel(t) \/ NoAnswer(t) \/ BoundaryAnswer(t) \/ VerifyAnswer(t)
  \/ ChunkAnswer(t) \/ MergeAnswer(t)

-----------------------------------------------------------------------------
Others(p) == (Start(p) \/ Step(p) \/ Cancel(p)) /\ UNCHANGED job

Next ==
  \/ \E t \in Threads : Work(t) \/ Extract(t) \/ TimeIsUp(t) \/ (Step(t) /\ UNCHANGED job)
  \/ (\E t \in Threads : job[t].doc \in Crowded) /\ \E p \in Streams \cup Asks : Others(p)
  \/ Tick /\ UNCHANGED job

(* Threads and the loop are scheduled, requests have timeouts and time     *)
(* passes.                                                                 *)
Fairness ==
  /\ \A t \in Threads : WF_tenderVars(Work(t))
  /\ \A p \in Callers : WF_tenderVars(Step(p) /\ UNCHANGED job)
  /\ WF_tenderVars(Tick /\ UNCHANGED job)

Spec == TenderInit /\ [][Next]_tenderVars /\ Fairness

-----------------------------------------------------------------------------
(* Properties.                                                             *)

TypeOK ==
  /\ CallType
  /\ \A t \in Threads :
       /\ job[t].pc \in {"new", "ask", "wait", "ended"}
       /\ job[t].calls \in 0..MaxCalls /\ job[t].tries \in 0..MaxRetries
       /\ job[t].outcome \in {"none", "failed", "extracted", "completed", "needs_review"}
       /\ (job[t].outcome \in {"none", "failed"}) = (job[t].files = <<>>)

Letters(text) == SelectSeq(text, LAMBDA c : c \notin {"s", "|"})
Occurrences(c, s) == Cardinality({i \in DOMAIN s : s[i] = c})
Total(sizes) == FoldLeft(LAMBDA x, y : x + y, 0, sizes)

\* The plan of TenderChunkPlanner keeps the order of the document and loses
\* nothing: the pieces of a paragraph are its text, every cell of a table is in a
\* piece, and no chunk holds more text than a request may.
PlanCovers ==
  \A t \in Threads : job[t].stage = "chunk" /\ job[t].results = <<>> =>
    LET doc == job[t].doc
        chunks == job[t].todo
        items == FlattenSeq(chunks)
        piecesOf(id) == FlattenSeq([i \in DOMAIN items |->
                          IF items[i].block.id = id THEN items[i].piece ELSE <<>>])
    IN  /\ \A i, k \in DOMAIN items : i < k => items[i].block.id <= items[k].block.id
        /\ \A id \in Ids[doc] :
             LET text == Letters(TextOf(Body(doc)[id]))
                 planned == Letters(piecesOf(id))
             IN  IF Body(doc)[id].kind = "table"
                 THEN \A c \in ToSet(text) : Occurrences(c, planned) >= Occurrences(c, text)
                 ELSE planned = text
        /\ \A i \in DOMAIN chunks :
             Total([k \in DOMAIN chunks[i] |-> Len(chunks[i][k].piece) + 1]) <= ChunkChars + 1

(* Files have no element of the source in common, and between two          *)
(* neighbours at most MaxGap blocks with text are in none.                 *)
Disjoint(doc, files) ==
  LET left == {id \in Ids[doc] : \A i \in DOMAIN files : id \notin files[i]}
      between(i, k) == {id \in left : Max(files[i]) < id /\ id < Min(files[k])}
      next(i, k) == /\ Max(files[i]) < Min(files[k])
                    /\ \A l \in DOMAIN files : ~(Max(files[i]) < Min(files[l]) /\ Max(files[l]) < Min(files[k]))
  IN  \A i, k \in DOMAIN files : i # k =>
        files[i] \cap files[k] = {} /\ (next(i, k) => Cardinality(between(i, k)) <= MaxGap)

(* The files of a document that was analysed in one piece, with explicit   *)
(* boundaries, are disjoint; those of a chunked one are not checked.       *)
VolumesDisjoint ==
  \A t \in Threads : ~Large(job[t].doc) => Disjoint(job[t].doc, job[t].files)

(* A chunked analysis that calls itself completed saw all of every chunk,  *)
(* whatever the merged result says.                                        *)
CompletedSawAll ==
  \A t \in Threads : job[t].outcome = "completed" /\ job[t].stage = "merge" => ~job[t].gaps

(* Every analysis ends, also one whose results are too long to be merged,  *)
(* unless the event loop hangs as in EveryCallEnds.                        *)
JobEnds == \A t \in Threads : job[t].pc = "ask" ~> (job[t].pc = "ended" \/ LoopStuck)

\* Calls and retries of a job stay within their limits, the volumes of a document
\* that is not chunked are disjoint, and an analysis that calls itself completed
\* has seen every chunk.
AnalysisSound ==
  /\ TypeOK
  /\ VolumesDisjoint
  /\ CompletedSawAll

\* Every call and every job ends, unless a blocking request hangs the loop.
CallsAndJobsEnd ==
  /\ EveryCallEnds
  /\ JobEnds
=============================================================================
