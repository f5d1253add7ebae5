----------------------------- MODULE PolicyText -----------------------------
(***************************************************************************)
(* The ingestion pipeline: one request takes a file through the stages of  *)
(* PolicyPipelineService._run, from intake to the chunks that are indexed. *)
(*                                                                         *)
(* Source: platform/ingestion/pipeline/pipeline.py and its steps (parser,  *)
(* text assembler, cleaner, section splitter, chunking), platform/         *)
(* ingestion/domain/policies.py and infrastructure/ocr/tencent_ocr.py.     *)
(*                                                                         *)
(* A text is a sequence of symbols; a symbol is a character that some rule *)
(* of the code looks at: the parts of a heading number, a digit, a letter, *)
(* punctuation, the end of a line, or the placeholder of an inline image.  *)
(* The lengths the code compares with are parameters.                      *)
(***************************************************************************)
EXTENDS Integers, Sequences, FiniteSets, SequencesExt, TLC

CONSTANTS Files,         \* the files that are ingested or previewed
          Readings,      \* texts the OCR service can recognise in an image
          TargetChars,   \* chunk_target_chars
          OverlapChars,  \* chunk_overlap_chars
          NoiseLength,   \* 30: a longer line is never a header or footer
          TitleLength,   \* 18: a longer rest of an article line is its body
          HeadingMax,    \* 40: a longer rest with punctuation is no title
          CoverLength,   \* 24: a longer preface is kept
          ScannedBelow   \* 80: a PDF with less text is taken for a scan

ASSUME ChunkAssumption ==
  TargetChars \in Nat /\ OverlapChars \in Nat /\ TargetChars > OverlapChars

VARIABLES file,      \* the file of the request
          mode,      \* "preview" or "ingest"
          stage,     \* the stage that runs next, or how the run ended
          blocks,    \* the ordered blocks of the parsed document
          ocr,       \* OCR: next block, blocks read and failed, resulting method
          lines,     \* assembled, later cleaned lines: text, page and block
          sections,  \* the sections of the cleaned text
          chunks     \* the chunks of the sections

textVars == <<file, mode, stage, blocks, ocr, lines, sections, chunks>>

NL == "nl"
Digits == {"1", "2"}
Levels == [c |-> 1, s |-> 2, a |-> 3]
Punctuation == {".", ","}
Token(n) == "T" \o ToString(n)

(* Every symbol is a character, NL the only one that strip() removes. *)
Strip(text) ==
  LET solid == {k \in DOMAIN text : text[k] # NL} IN
  IF solid = {} THEN <<>>
  ELSE SubSeq(text, CHOOSE k \in solid : \A j \in solid : k <= j,
                    CHOOSE k \in solid : \A j \in solid : k >= j)

(* The lines of a text that are not blank. *)
LinesOf(text) ==
  LET Add(acc, s) == IF s = NL THEN Append(acc, <<>>)
                     ELSE [acc EXCEPT ![Len(acc)] = Append(@, s)]
  IN  SelectSeq(FoldLeft(Add, << <<>> >>, text), LAMBDA l : l # <<>>)

Joined(texts) ==
  FoldLeft(LAMBDA acc, t : IF acc = <<>> THEN t ELSE acc \o <<NL>> \o t, <<>>, texts)

TextInit ==
  /\ file \in Files /\ mode \in {"preview", "ingest"}
  /\ stage = "register" /\ blocks = <<>>
  /\ ocr = [next |-> 1, read |-> 0, failed |-> 0, method |-> "direct"]
  /\ lines = <<>> /\ sections = <<>> /\ chunks = <<>>

Proceed(s) == stage' = s

-----------------------------------------------------------------------------
(* Intake.                                                                 *)

(* The size, the suffix and the words of the file name. *)
Allowed(f) == f.kind # "other" /\ f.filled /\ ~f.excluded

RegisterFile ==
  /\ stage = "register" /\ Proceed("validate")
  /\ UNCHANGED <<file, mode, blocks, ocr, lines, sections, chunks>>

ValidateIntake ==
  /\ stage = "validate"
  /\ Proceed(IF Allowed(file) THEN "normalize" ELSE "stopped")
  /\ UNCHANGED <<file, mode, blocks, ocr, lines, sections, chunks>>

(* An old Word file becomes a .docx, or the conversion fails. *)
Normalize ==
  /\ stage = "normalize"
  /\ \/ Proceed("route")
     \/ file.kind = "doc" /\ Proceed("stopped")
  /\ UNCHANGED <<file, mode, blocks, ocr, lines, sections, chunks>>

(* Every kind that passed the intake has a parser. *)
RouteParser ==
  /\ stage = "route" /\ Proceed("parse")
  /\ UNCHANGED <<file, mode, blocks, ocr, lines, sections, chunks>>

-----------------------------------------------------------------------------
(* Parsing.  A file is a sequence of items (paragraphs, tables or pages),  *)
(* an item a sequence of runs, each followed by at most one image: "none", *)
(* "image", or "lost" when its relation does not exist.                    *)

RunsOf(item) == FlattenSeq([k \in DOMAIN item.runs |-> item.runs[k].text])
ImagesOf(item) == SelectSeq(item.runs, LAMBDA r : r.image # "none")

Block(type, page, text, token, bytes, render) ==
  [type |-> type, page |-> page, text |-> text, token |-> token,
   bytes |-> bytes, render |-> render]

(* Mutation: the number of a placeholder ignores the other images of its   *)
(* paragraph.                                                              *)
TokenOfParagraph(item, k, n) == Token(n + 1)

(* The placeholder of the image behind run k, n blocks coming before. *)
TokenOf(item, k, n) ==
  Token(n + Cardinality({j \in 1..k : item.runs[j].image # "none"}))

(* A paragraph with placeholders for its images, then the images. *)
ParagraphBlocks(item, n) ==
  LET Piece(k) == item.runs[k].text \o
        (IF item.runs[k].image = "none" THEN <<>> ELSE <<TokenOf(item, k, n)>>)
      text == Strip(FlattenSeq([k \in DOMAIN item.runs |-> Piece(k)]))
      with == SelectSeq([k \in DOMAIN item.runs |-> k],
                        LAMBDA k : item.runs[k].image # "none")
  IN  IF text = <<>> THEN <<>>
      ELSE <<Block("text", 0, text, "", FALSE, FALSE)>> \o
           [i \in DOMAIN with |->
              Block("image", 0, <<>>, TokenOf(item, with[i], n),
                    item.runs[with[i]].image = "image", FALSE)]

TableBlocks(item) ==
  LET rows == LinesOf(RunsOf(item)) IN
  IF rows = <<>> THEN <<>> ELSE <<Block("table", 0, Joined(rows), "", FALSE, FALSE)>>

ParseDocx(items) ==
  FoldLeft(LAMBDA acc, item : acc \o
             (IF item.table THEN TableBlocks(item) ELSE ParagraphBlocks(item, Len(acc))),
           <<>>, items)

(* A page with text keeps its images; a page without is rendered whole. *)
PageBlocks(item, page) ==
  LET text == Strip(RunsOf(item)) IN
  (IF text # <<>>
   THEN <<Block("text", page, text, "", FALSE, FALSE)>> \o
        [i \in DOMAIN ImagesOf(item) |-> Block("image", page, <<>>, "", TRUE, FALSE)]
   ELSE <<Block("image", page, <<>>, "", FALSE, TRUE)>>)
  \o <<Block("page_break", page, <<>>, "", FALSE, FALSE)>>

ParsePdf(items) ==
  FlattenSeq([k \in DOMAIN items |-> PageBlocks(items[k], k)])

Parsed(f) ==
  CASE f.kind \in {"doc", "docx"} -> ParseDocx(f.items)
    [] f.kind = "pdf" -> ParsePdf(f.items)
    [] f.kind = "image" -> <<Block("image", 1, <<>>, "", TRUE, FALSE)>>

(* suspected_scanned *)
Scanned(f) ==
  LET solid == SelectSeq(FlattenSeq([k \in DOMAIN f.items |-> RunsOf(f.items[k])]),
                         LAMBDA s : s # NL)
  IN  CASE f.kind \in {"doc", "docx"} ->
             solid = <<>> /\ \E k \in DOMAIN blocks : blocks[k].type = "image"
        [] f.kind = "pdf" -> Len(solid) < ScannedBelow
        [] f.kind = "image" -> TRUE

(* The library parses the file or raises. *)
ParseDocument ==
  /\ stage = "parse"
  /\ \/ blocks' = Parsed(file) /\ Proceed("ocr")
     \/ UNCHANGED blocks /\ Proceed("raised")
  /\ UNCHANGED <<file, mode, ocr, lines, sections, chunks>>

-----------------------------------------------------------------------------
(* OCR, block by block.                                                    *)

(* _select_ocr_targets, of the blocks as they were parsed: the pages       *)
(* without text of a scan, otherwise every image that has data.            *)
Targets(parsed) ==
  LET bytes == {k \in DOMAIN parsed : parsed[k].bytes}
      render == {k \in DOMAIN parsed : parsed[k].render}
  IN  IF file.kind = "pdf" /\ Scanned(file) /\ render # {} THEN render ELSE bytes

(* parse_method *)
Method(read, failed) ==
  CASE read > 0 /\ failed > 0 -> "mixed"
    [] read > 0 /\ failed = 0 -> IF Scanned(file) THEN "ocr" ELSE "mixed"
    [] OTHER -> "direct"

(* The targets that were not asked for yet. *)
Pending == {k \in Targets(Parsed(file)) : k >= ocr.next}

(* ocr_enabled is off: every target counts as failed. *)
OcrDisabled ==
  /\ stage = "ocr" /\ Pending # {} /\ ocr.next = 1
  /\ ocr' = [ocr EXCEPT !.next = Len(blocks) + 1, !.failed = Cardinality(Pending)]
  /\ UNCHANGED <<file, mode, stage, blocks, lines, sections, chunks>>

(* The service answers with a text, with the error that the image has      *)
(* none, or with another error; an answer without a line of text counts    *)
(* as a failed block.  The run goes on with the next block.                *)
OcrBlock ==
  /\ stage = "ocr" /\ Pending # {}
  /\ LET k == CHOOSE j \in Pending : \A i \in Pending : j <= i
         Answer(text, read, failed) ==
           /\ blocks' = [blocks EXCEPT ![k].text = text, ![k].bytes = FALSE,
                                       ![k].render = FALSE]
           /\ ocr' = [ocr EXCEPT !.next = k + 1, !.read = @ + read, !.failed = @ + failed]
     IN  \/ \E text \in Readings : Answer(text, 1, 0)
         \/ Answer(<<>>, 0, 0)
         \/ Answer(<<>>, 0, 1)
  /\ UNCHANGED <<file, mode, stage, lines, sections, chunks>>

FinishOcr ==
  /\ stage = "ocr" /\ Pending = {}
  /\ ocr' = [ocr EXCEPT !.method = Method(ocr.read, ocr.failed)]
  /\ Proceed("assemble")
  /\ UNCHANGED <<file, mode, blocks, lines, sections, chunks>>

-----------------------------------------------------------------------------
(* Assembly, guard and cleaning.                                           *)

(* Placeholders become the text of their image, the unknown ones nothing. *)
Resolved(text) ==
  LET TextOf(s) == LET with == {k \in DOMAIN blocks : blocks[k].token = s /\ s # ""} IN
        IF with # {} THEN Strip(blocks[CHOOSE k \in with : \A j \in with : k >= j].text)
        ELSE <<s>>
  IN  FlattenSeq([k \in DOMAIN text |-> TextOf(text[k])])

(* Page breaks and inline images have no lines of their own. *)
BlockLines(k) ==
  IF blocks[k].type = "page_break" \/ blocks[k].token # "" THEN <<>>
  ELSE LET texts == LinesOf(Resolved(blocks[k].text)) IN
       [i \in DOMAIN texts |-> [text |-> texts[i], page |-> blocks[k].page, block |-> k]]

AssembleText ==
  /\ stage = "assemble"
  /\ lines' = FlattenSeq([k \in DOMAIN blocks |-> BlockLines(k)])
  /\ Proceed("guard")
  /\ UNCHANGED <<file, mode, blocks, ocr, sections, chunks>>

(* A document without any text is not ingested; a preview goes on. *)
GuardIngestEligibility ==
  /\ stage = "guard"
  /\ Proceed(IF mode = "ingest" /\ lines = <<>> THEN "stopped" ELSE "clean")
  /\ UNCHANGED <<file, mode, blocks, ocr, lines, sections, chunks>>

IsPageNumber(text) ==
  Len(text) >= 3 /\ Head(text) = "@" /\ Last(text) = "p"
    /\ \A k \in 2..(Len(text) - 1) : text[k] \in Digits

(* A short line that occurs three times, or a page number. *)
IsNoise(text, all) ==
  \/ Len(text) <= NoiseLength /\ Cardinality({k \in DOMAIN all : all[k].text = text}) >= 3
  \/ IsPageNumber(text)

CleanText ==
  /\ stage = "clean"
  /\ lines' = SelectSeq(lines, LAMBDA l : ~IsNoise(l.text, lines))
  /\ Proceed("split")
  /\ UNCHANGED <<file, mode, blocks, ocr, sections, chunks>>

-----------------------------------------------------------------------------
(* Sections.                                                               *)

(* "@", digits and c, s or a: chapter, section or article. 0: no heading.  *)
HeadingLength(text) ==
  LET ends == {k \in 3..Len(text) : /\ text[k] \in DOMAIN Levels
                                     /\ \A j \in 2..(k - 1) : text[j] \in Digits}
  IN  IF text # <<>> /\ Head(text) = "@" /\ ends # {}
      THEN CHOOSE k \in ends : TRUE ELSE 0

HeadingLevel(text) ==
  IF HeadingLength(text) = 0 THEN 0 ELSE Levels[text[HeadingLength(text)]]

(* The rest of the line, unless it is missing or reads like a body. *)
Title(text) ==
  LET number == SubSeq(text, 1, HeadingLength(text))
      rest == SubSeq(text, Len(number) + 1, Len(text))
      sentence == \E k \in DOMAIN rest : rest[k] \in Punctuation
  IN  IF \/ rest = <<>>
         \/ HeadingLevel(text) = 3 /\ (Len(rest) > TitleLength \/ sentence)
         \/ Len(rest) > HeadingMax /\ sentence
      THEN number ELSE rest

RebuildPath(path, level, title) ==
  IF level <= 1 THEN <<title>>
  ELSE IF Len(path) < level - 1 THEN Append(path, title)
  ELSE Append(SubSeq(path, 1, level - 1), title)

(* Lines before the first heading that look like a cover are dropped. *)
KeepPreface(pre) ==
  LET shorts(n) == Cardinality({k \in DOMAIN pre : Len(pre[k].text) <= n})
      size == Len(FlattenSeq([k \in DOMAIN pre |-> pre[k].text]))
  IN  /\ shorts(1) < 2
      /\ ~(Len(pre) <= 5 /\ size <= CoverLength /\ shorts(4) >= Len(pre) - 1)

(* flush_section, after the preface was dropped at the first heading. *)
Flush(acc) ==
  IF acc.held = <<>> \/ (~acc.saw /\ ~KeepPreface(acc.held)) THEN acc.out
  ELSE Append(acc.out, [level |-> acc.level, title |-> acc.title, path |-> acc.path,
                        lines |-> acc.held])

Sectioned(all) ==
  LET start == [out |-> <<>>, held |-> <<>>, saw |-> FALSE, level |-> 1,
                title |-> <<>>, path |-> <<>>]
      Step(acc, l) ==
        IF HeadingLevel(l.text) = 0 THEN [acc EXCEPT !.held = Append(@, l)]
        ELSE [out |-> Flush(acc), held |-> <<l>>, saw |-> TRUE,
              level |-> HeadingLevel(l.text), title |-> Title(l.text),
              path |-> RebuildPath(acc.path, HeadingLevel(l.text), Title(l.text))]
      end == FoldLeft(Step, start, all)
  IN  CASE all = <<>> -> <<>>
        [] all # <<>> /\ end.saw -> Flush(end)
        [] OTHER -> <<[level |-> 1, title |-> <<"all">>, path |-> << <<"all">> >>,
                       lines |-> all]>>

SplitSections ==
  /\ stage = "split"
  /\ sections' = Sectioned(lines)
  /\ Proceed("chunk")
  /\ UNCHANGED <<file, mode, blocks, ocr, lines, chunks>>

-----------------------------------------------------------------------------
(* Chunks.  A window of TargetChars moves over the text of a section; it   *)
(* ends behind the last break of its second half, if there is one.         *)

SectionText(s) == Joined([k \in DOMAIN s.lines |-> s.lines[k].text])

(* Mutation: a break in the first half counts, too. *)
WindowEndAnywhere(text, start) ==
  LET end == IF start + TargetChars < Len(text) THEN start + TargetChars ELSE Len(text)
      breaks == {k \in (start + 1)..end : text[k] \in Punctuation \cup {NL}}
  IN  IF end = Len(text) \/ breaks = {} THEN end
      ELSE CHOOSE k \in breaks : \A j \in breaks : k >= j

WindowEnd(text, start) ==
  LET end == IF start + TargetChars < Len(text) THEN start + TargetChars ELSE Len(text)
      breaks == {k \in (start + 1)..end : text[k] \in Punctuation \cup {NL}}
      last == CHOOSE k \in breaks : \A j \in breaks : k >= j
  IN  IF end = Len(text) \/ breaks = {} THEN end
      ELSE IF last - 1 - start >= TargetChars \div 2 THEN last ELSE end

(* The next window starts overlap_chars before the end of the last one, but *)
(* a full step on at least.                                                *)
NextStart(start, end) ==
  IF end - OverlapChars > start + TargetChars - OverlapChars
  THEN end - OverlapChars ELSE start + TargetChars - OverlapChars

(* The windows of a text from each place on. *)
WindowsFrom(text) ==
  LET From[start \in 0..Len(text)] ==
        IF start >= Len(text) THEN <<>>
        ELSE LET end == WindowEnd(text, start)
                 next == NextStart(start, end)
             IN  <<[start |-> start, end |-> end]>>
                   \o (IF end >= Len(text) \/ next >= Len(text) THEN <<>> ELSE From[next])
  IN  From

(* Blank windows are no chunks. *)
Windows(text) ==
  SelectSeq(WindowsFrom(text)[0], LAMBDA w : Strip(SubSeq(text, w.start + 1, w.end)) # <<>>)

ChunksOf(n) ==
  LET text == SectionText(sections[n])
      windows == Windows(text)
  IN  [k \in DOMAIN windows |->
         [section |-> n, start |-> windows[k].start, end |-> windows[k].end,
          text |-> Strip(SubSeq(text, windows[k].start + 1, windows[k].end)),
          title |-> sections[n].title, path |-> sections[n].path, name |-> file.name]]

SplitChunks ==
  /\ stage = "chunk"
  /\ chunks' = FlattenSeq([n \in DOMAIN sections |-> ChunksOf(n)])
  /\ Proceed("embed")
  /\ UNCHANGED <<file, mode, blocks, ocr, lines, sections>>

(* One vector for each chunk; anything else raises.  A preview asks none. *)
EmbedIfNeeded ==
  /\ stage = "embed"
  /\ \/ Proceed("persist")
     \/ mode = "ingest" /\ Proceed("raised")
  /\ UNCHANGED <<file, mode, blocks, ocr, lines, sections, chunks>>

(* The transaction is in KnowledgeBase. *)
PersistIfNeeded ==
  /\ stage = "persist"
  /\ \/ mode = "preview" /\ Proceed("previewed")
     \/ mode = "ingest" /\ Proceed("persisted")
     \/ mode = "ingest" /\ Proceed("raised")
  /\ UNCHANGED <<file, mode, blocks, ocr, lines, sections, chunks>>

-----------------------------------------------------------------------------
(* Properties.                                                             *)

Assembled == FlattenSeq([k \in DOMAIN blocks |-> BlockLines(k)])
Texts(all) == [k \in DOMAIN all |-> all[k].text]

(* What a Word document says, read from top to bottom: every run, and      *)
(* behind it the text that was recognised in its image.                    *)
ReadingOrder ==
  LET readings == Texts(SelectSeq(blocks, LAMBDA b : b.type = "image"))
      Before(i, k) == Len(FlattenSeq([j \in 1..(i - 1) |-> ImagesOf(file.items[j])]))
                      + Cardinality({j \in 1..k : file.items[i].runs[j].image # "none"})
      Said(i) == FlattenSeq([k \in DOMAIN file.items[i].runs |->
                   file.items[i].runs[k].text \o
                   (IF file.items[i].runs[k].image = "none" THEN <<>>
                    ELSE readings[Before(i, k)])])
  IN  FlattenSeq([i \in DOMAIN file.items |-> LinesOf(Said(i))])

(* The assembled text of a Word document is what the document says: each   *)
(* image's text is exactly where the image is, whatever other images the   *)
(* paragraph has and whichever of them could not be read.                  *)
TextInReadingOrder ==
  stage = "guard" /\ file.kind \in {"doc", "docx"} => Texts(lines) = ReadingOrder

(* parse_method says where the text comes from: "direct" when no image     *)
(* contributed, "ocr" only when every image was read or blank and, in a    *)
(* Word document, nothing was parsed directly.                             *)
MethodTellsSource ==
  stage = "guard" =>
    /\ ocr.method = "direct" <=> \A k \in DOMAIN blocks :
                                   blocks[k].type = "image" => blocks[k].text = <<>>
    /\ ocr.method = "ocr" => ocr.failed = 0 /\
         (file.kind = "docx" =>
            \A i \in DOMAIN file.items : LinesOf(RunsOf(file.items[i])) = <<>>)

(* What is stored as a version has text; it has no chunk, and no search    *)
(* finds it, exactly when all of its lines are headers, footers or page    *)
(* numbers, which the guard does not know and the cleaner removes.         *)
PersistedHasText ==
  stage = "persisted" =>
    /\ Assembled # <<>>
    /\ chunks = <<>> <=> \A k \in DOMAIN Assembled : IsNoise(Assembled[k].text, Assembled)

(* The sections are the cleaned lines in their order, less a cover page:   *)
(* no line is lost or repeated, and every heading starts a section.        *)
SectionsPartition ==
  LET heads == {k \in DOMAIN lines : HeadingLevel(lines[k].text) > 0}
      first == CHOOSE k \in heads : \A j \in heads : k <= j
      kept == IF heads # {} /\ ~KeepPreface(SubSeq(lines, 1, first - 1))
              THEN SubSeq(lines, first, Len(lines)) ELSE lines
  IN  stage = "chunk" =>
        /\ FlattenSeq([n \in DOMAIN sections |-> sections[n].lines]) = kept
        /\ \A n \in DOMAIN sections : \A j \in DOMAIN sections[n].lines :
             HeadingLevel(sections[n].lines[j].text) > 0 => j = 1

(* When no heading skips a level, the path of a section is the titles of   *)
(* the headings that enclose it and its own.  (After a skipped level an    *)
(* article becomes the parent of the next: chapter, article 1, article 2.) *)
PathsNest ==
  LET headed == {n \in DOMAIN sections : HeadingLevel(sections[n].lines[1].text) > 0}
      Regular == \A n \in headed :
        sections[n].level <= 1 + (IF n - 1 \in headed THEN sections[n - 1].level ELSE 0)
      Enclosing(n, l) == CHOOSE m \in headed :
        /\ m <= n /\ sections[m].level = l
        /\ \A k \in headed : k <= n /\ sections[k].level = l => k <= m
  IN  stage = "chunk" /\ Regular =>
        \A n \in headed : sections[n].path =
          [l \in 1..sections[n].level |-> sections[Enclosing(n, l)].title]

(* The chunks of a section go from its first to its last character.  Text  *)
(* is skipped only behind a break that ended a window early, and less than *)
(* the half of a window that the break may cut off, less the overlap.      *)
ChunksCover ==
  stage = "embed" =>
    \A n \in DOMAIN sections :
      LET own == SelectSeq(chunks, LAMBDA c : c.section = n)
          text == SectionText(sections[n])
      IN  /\ own # <<>> /\ own[1].start = 0 /\ own[Len(own)].end = Len(text)
          /\ \A k \in 1..(Len(own) - 1) :
               /\ own[k].start < own[k + 1].start
               /\ own[k].end < own[k + 1].start =>
                    /\ text[own[k].end] \in Punctuation \cup {NL}
                    /\ own[k + 1].start - own[k].end
                         < (TargetChars - OverlapChars) - TargetChars \div 2

\* What is stored of a file is its text in reading order, from the source the
\* method names, and not nothing; sections partition the cleaned text under
\* nested paths, and the chunks cover them up to the gap that a break may cause.
TextSound ==
  /\ TextInReadingOrder
  /\ MethodTellsSource
  /\ PersistedHasText
  /\ SectionsPartition
  /\ PathsNest
  /\ ChunksCover
=============================================================================
