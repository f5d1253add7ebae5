----------------------------- MODULE Retrieval -----------------------------
(***************************************************************************)
(* Hybrid retrieval: a question is turned into a plan of keywords; chunks  *)
(* are recalled by similarity and by keywords, the two lists are merged,   *)
(* reranked and filtered.  The chunks are those of a document that went    *)
(* through the pipeline of PolicyText.                                     *)
(*                                                                         *)
(* Source: platform/knowledge/retrieval (pipeline.py, policies.py,         *)
(* fusion.py, rerank.py, vector_search.py) and the queries of              *)
(* infrastructure/persistence/repositories/policy_persistence_gateway.py.  *)
(*                                                                         *)
(* Scores are integers, one million standing for 1.0; what the code rounds *)
(* to six digits is rounded down.  Years, which the plan treats like       *)
(* article numbers, are left out.                                          *)
(***************************************************************************)
EXTENDS PolicyText, FiniteSetsExt

CONSTANTS Queries,       \* the questions, sequences of symbols
          TopKs,         \* the requested numbers of hits
          TopKMax,       \* retrieval_top_k_max
          Similarities,  \* scores the vector index can give a chunk
          MaxSearched    \* bound: only documents of so many blocks are searched

VARIABLE search          \* the search that runs on the stored chunks

vars == <<textVars, search>>

One == 1000000
MinScore == 450000       \* retrieval_min_score
RescueMargin == 40000    \* retrieval_evidence_rescue_margin
MinCoverage == 150000    \* retrieval_evidence_min_coverage
Phrases == {"q"}         \* question phrases ("ma", "me")
NoiseTerms == {<<"y", "x">>} \* words of two symbols that say nothing of a question

AtMost(a, b) == IF a < b THEN a ELSE b
AtLeast(a, b) == IF a > b THEN a ELSE b
Prefix(s, n) == SubSeq(s, 1, AtMost(n, Len(s)))
Suffix(s, n) == SubSeq(s, Len(s) - n + 1, Len(s))
Unique(s) ==
  FoldLeft(LAMBDA acc, e : IF e \in ToSet(acc) THEN acc ELSE Append(acc, e), <<>>, s)

(* The position of a term in a text, from 0; the length if it is absent. *)
Find(text, term) ==
  LET at == {i \in 0..(Len(text) - Len(term)) : SubSeq(text, i + 1, i + Len(term)) = term}
  IN  IF at = {} THEN Len(text) + 1 ELSE Min(at)
Has(text, term) == Find(text, term) <= Len(text)

-----------------------------------------------------------------------------
(* The keyword plan.                                                       *)

(* normalize_query keeps letters and digits. *)
Normalized(text) == SelectSeq(text, LAMBDA s : s \notin Punctuation \cup {NL, "|"})

(* _strip_question_shell *)
Focus(query) ==
  LET rest == SelectSeq(query, LAMBDA s : s \notin Phrases)
  IN  IF rest = <<>> THEN query ELSE rest

(* should_keep_keyword *)
KeepKeyword(term) ==
  Len(term) >= 2 /\ term \notin NoiseTerms /\ Cardinality(ToSet(term)) > 1

(* _extract_anchor_keywords: the beginning and the end of the focus. *)
Anchors(text) ==
  LET n == Len(text)
      sizes == Unique(<<AtMost(6, n), AtMost(4, n), AtMost(3, n)>> \o
                      (IF n <= 6 THEN <<2>> ELSE <<>>))
      ends == FlattenSeq([k \in DOMAIN sizes |->
                            <<Prefix(text, sizes[k]), Suffix(text, sizes[k])>>])
  IN  IF n < 2 THEN <<>> ELSE Prefix(Unique(SelectSeq(ends, KeepKeyword)), 8)

(* _extract_informative_spans: the longest spans first, digits and the     *)
(* ends preferred, without spans that lie well inside a chosen one.        *)
Spans(text) ==
  LET n == Len(text)
      Term(p) == SubSeq(text, p[2] + 1, p[2] + p[1])
      Score(p) == p[1] * 10
        + (IF \E s \in ToSet(Term(p)) : s \in Digits THEN 20 ELSE 0)
        + (IF p[2] = 0 \/ p[2] + p[1] = n THEN 3 ELSE 0)
        + (IF p[1] = n THEN 5 ELSE 0)
      places == SelectSeq(
        FlattenSeq([d \in 1..AtMost(5, n - 3) |->
                      [i \in 1..(n - d - 2) |-> <<d + 3, i - 1>>]]),
        LAMBDA p : KeepKeyword(Term(p)))
      Before(p, r) == \/ Score(p) > Score(r)
                      \/ Score(p) = Score(r) /\ p[1] > r[1]
                      \/ Score(p) = Score(r) /\ p[1] = r[1] /\ p[2] < r[2]
      ordered == SortSeq(places, Before)
      Select(acc, p) ==
        IF \/ Len(acc) >= 8
           \/ \E k \in DOMAIN acc : \/ acc[k] = Term(p)
                                    \/ Len(acc[k]) >= p[1] + 2 /\ Has(acc[k], Term(p))
        THEN acc ELSE Append(acc, Term(p))
  IN  IF n < 4 THEN <<>> ELSE FoldLeft(Select, <<>>, ordered)

(* The references to chapters, sections and articles in a text. *)
References(text) ==
  LET starts == {i \in DOMAIN text : HeadingLength(SubSeq(text, i, Len(text))) > 0}
      ordered == SetToSortSeq(starts, <)
  IN  [k \in DOMAIN ordered |->
         SubSeq(text, ordered[k], ordered[k] - 1 +
                HeadingLength(SubSeq(text, ordered[k], Len(text))))]

(* _extract_priority_keywords *)
Priorities(query, focus) ==
  Prefix(Unique(SelectSeq(
    References(query)
      \o (IF Len(focus) >= 4 THEN <<focus>> ELSE <<>>)
      \o Anchors(focus) \o Spans(focus)
      \o (IF focus # query THEN Spans(query) ELSE <<>>),
    LAMBDA t : t # <<>>)), 8)

(* The priorities, the focus, the whole question and the pieces of the     *)
(* focus, twelve at most.                                                  *)
Keywords(query, focus) ==
  LET grams(n) == [i \in 1..AtLeast(0, Len(focus) - n + 1) |-> SubSeq(focus, i, i + n - 1)]
  IN  Prefix(Unique(
        Priorities(query, focus)
          \o (IF Len(focus) >= 2 THEN <<focus>> ELSE <<>>)
          \o (IF focus # query /\ Len(query) >= 2 THEN <<query>> ELSE <<>>)
          \o SelectSeq(grams(4) \o grams(3) \o grams(2), KeepKeyword)), 12)

Plan(question) ==
  LET query == Normalized(question)
      focus == Focus(query)
  IN  [query |-> query, focus |-> focus, anchors |-> Anchors(focus),
       priorities |-> Priorities(query, focus), keywords |-> Keywords(query, focus)]

NoPlan == [query |-> <<>>, focus |-> <<>>, anchors |-> <<>>, priorities |-> <<>>,
           keywords |-> <<>>]

-----------------------------------------------------------------------------
(* Recall.                                                                 *)

FieldNames == {"text", "name", "title", "path"}
Weights(text, name, title, path) ==
  [text |-> text * 1000, name |-> name * 1000, title |-> title * 1000, path |-> path * 1000]

(* The fields of a chunk; a path is its titles with a separator between. *)
Fields(c) ==
  [text |-> c.text, name |-> c.name, title |-> c.title,
   path |-> FoldLeft(LAMBDA acc, t : IF acc = <<>> THEN t ELSE acc \o <<"|">> \o t,
                     <<>>, c.path)]

(* The weights of the fields in which a term occurs. *)
Matched(term, weights, fields) ==
  IF term = <<>> THEN 0
  ELSE MapThenSumSet(LAMBDA f : weights[f], {f \in FieldNames : Has(fields[f], term)})

(* _resolve_keyword_weights *)
KeywordWeights(term, priority) ==
  CASE Len(term) >= 4 /\ priority -> Weights(360, 260, 190, 140)
    [] Len(term) >= 4 /\ ~priority -> Weights(280, 180, 140, 100)
    [] Len(term) = 3 /\ priority -> Weights(300, 220, 170, 120)
    [] Len(term) = 3 /\ ~priority -> Weights(220, 140, 120, 80)
    [] Len(term) < 3 /\ priority -> Weights(240, 180, 130, 100)
    [] OTHER -> Weights(160, 100, 80, 60)

(* raw_score_expr of search_chunks_by_keywords *)
RawScore(plan, c) ==
  Matched(plan.focus, Weights(420, 250, 200, 150), Fields(c))
  + MapThenSumSet(LAMBDA t :
      Matched(t, KeywordWeights(t, t \in ToSet(plan.priorities)), Fields(c)),
      ToSet(plan.keywords))

(* The k best chunks by keyword, of those that match at all. *)
KeywordHits(plan, k) ==
  LET raw == [i \in DOMAIN chunks |-> RawScore(plan, chunks[i])]
      found == {i \in DOMAIN chunks : raw[i] > 0}
      Before(i, j) == raw[i] > raw[j] \/ (raw[i] = raw[j] /\ i < j)
  IN  [i \in ToSet(Prefix(SetToSortSeq(found, Before), k)) |-> AtMost(One, raw[i])]

(* per_source_top_k *)
PerSource(k) == AtMost(TopKMax, 2 * k)

Idle == [step |-> "idle"]

SearchInit == search = Idle

(* A question about a stored document; only a hybrid search has a plan. *)
BuildKeywordPlan ==
  /\ stage = "persisted" /\ Len(blocks) <= MaxSearched
  /\ search = Idle
  /\ \E question \in Queries, hybrid \in BOOLEAN, k \in TopKs :
       search' = [step |-> "vectors", top |-> k, hybrid |-> hybrid,
                  plan |-> IF hybrid THEN Plan(question) ELSE NoPlan]
  /\ UNCHANGED textVars

(* Vector search: the chunks with the smallest distances, equal ones in    *)
(* any order.                                                              *)
VectorRecall ==
  /\ search.step = "vectors"
  /\ \E near \in [DOMAIN chunks -> Similarities] :
     \E found \in SUBSET DOMAIN chunks :
       /\ Cardinality(found) = AtMost(PerSource(search.top), Len(chunks))
       /\ \A i \in found, j \in DOMAIN chunks \ found : near[i] >= near[j]
       /\ search' = [step |-> "keywords", top |-> search.top, hybrid |-> search.hybrid,
                     plan |-> search.plan, vector |-> [i \in found |-> near[i]]]
  /\ UNCHANGED textVars

KeywordRecall ==
  /\ search.step = "keywords"
  /\ search' = [step |-> "merge", top |-> search.top, hybrid |-> search.hybrid,
                plan |-> search.plan, vector |-> search.vector,
                keyword |-> IF search.hybrid
                            THEN KeywordHits(search.plan, PerSource(search.top)) ELSE << >>]
  /\ UNCHANGED textVars

-----------------------------------------------------------------------------
(* Fusion and reranking.                                                   *)

Got(scores, i) == IF i \in DOMAIN scores THEN scores[i] ELSE 0

(* _fuse_score: the better score and a quarter of the other. *)
Fused(v, k) ==
  IF v > 0 /\ k > 0
  THEN AtMost(One, AtLeast(v, k) + AtMost(v, k) \div 4) ELSE AtLeast(v, k)

Merged(i) ==
  LET v == Got(search.vector, i)
      k == Got(search.keyword, i)
  IN  [chunk |-> i, vector |-> v, keyword |-> k, score |-> Fused(v, k), rerank |-> 0,
       coverage |-> 0,
       source |-> CASE v > 0 /\ k > 0 -> "hybrid"
                    [] k > 0 /\ v = 0 -> "keyword"
                    [] OTHER -> "vector"]

(* _build_term_weight_map, in tenths *)
TermWeight(plan, t) ==
  LET long == Len(t) >= 4 IN
  Max({IF t = plan.focus THEN IF long THEN 18 ELSE 12 ELSE 0,
       IF t \in ToSet(plan.priorities) THEN IF Len(t) >= 6 THEN 16 ELSE 13 ELSE 0,
       IF t \in ToSet(plan.anchors) THEN IF long THEN 18 ELSE 12 ELSE 0,
       IF t \in ToSet(plan.keywords) THEN IF long THEN 10 ELSE 6 ELSE 0})

(* The ends of the focus that count once more. *)
FocusEnds(focus) ==
  {Suffix(focus, n) : n \in {m \in 2..4 : m <= Len(focus) /\ KeepKeyword(Suffix(focus, m))}}

AnchorWeights(t) == IF Len(t) >= 4 THEN Weights(160, 40, 90, 60) ELSE Weights(120, 20, 60, 40)
FocusEndWeights(t) == IF Len(t) >= 3 THEN Weights(160, 0, 80, 50) ELSE Weights(100, 0, 50, 30)
OtherWeights(t) ==
  CASE Len(t) >= 4 -> Weights(90, 10, 50, 35)
    [] Len(t) = 3 -> Weights(70, 8, 40, 30)
    [] OTHER -> Weights(45, 5, 25, 20)

NormalizedFields(c) == [f \in FieldNames |-> Normalized(Fields(c)[f])]
MatchesAny(fields, t) == t # <<>> /\ \E f \in FieldNames : Has(fields[f], t)

(* matched_keywords: every term that was looked for and found somewhere. *)
MatchedTerms(plan, fields) ==
  {t \in {plan.query, plan.focus} \cup FocusEnds(plan.focus) \cup ToSet(plan.anchors)
         \cup ToSet(plan.priorities) \cup ToSet(plan.keywords) : MatchesAny(fields, t)}

Coverage(plan, fields) ==
  LET terms == {t \in {plan.focus} \cup ToSet(plan.priorities) \cup ToSet(plan.anchors)
                      \cup ToSet(plan.keywords) : t # <<>>}
      Sum(S) == MapThenSumSet(LAMBDA t : TermWeight(plan, t), S)
  IN  AtMost(One, (Sum(MatchedTerms(plan, fields) \cap terms) * One)
                  \div AtLeast(10, Sum(terms)))

(* The sum of the weights of every term that occurs. *)
TermSignal(plan, fields) ==
  LET Sum(S, W(_)) == MapThenSumSet(LAMBDA t : Matched(t, W(t), fields), S)
      anchors == ToSet(plan.anchors)
      priorities == ToSet(plan.priorities)
  IN  Matched(plan.query, Weights(80, 10, 30, 20), fields)
      + Matched(plan.focus, Weights(320, 20, 120, 80), fields)
      + (IF plan.focus # <<>> /\ Find(fields.text, plan.focus) <= AtMost(24, Len(fields.text))
         THEN 80000 ELSE 0)
      + Sum(FocusEnds(plan.focus), FocusEndWeights)
      + Sum(anchors, AnchorWeights)
      + Sum(priorities \ anchors, LAMBDA t : Weights(140, 100, 80, 50))
      + Sum(ToSet(plan.keywords) \ priorities, OtherWeights)

(* _compute_rerank_signal: the terms, how many of them, how much of the    *)
(* plan and of its anchors, less the numbers that are missing.             *)
Signal(plan, fields) ==
  LET matched == MatchedTerms(plan, fields)
      anchors == {t \in ToSet(plan.anchors) : MatchesAny(fields, t)}
      missing == {t \in ToSet(plan.priorities) \ ToSet(plan.anchors) :
                    ~MatchesAny(fields, t) /\ ToSet(t) \cap Digits # {}}
      many == AtMost(180000, (Cardinality(matched) * 180000)
                             \div AtLeast(1, AtMost(6, Len(plan.keywords))))
      held == IF plan.anchors = <<>> THEN 0
              ELSE (Cardinality(anchors) * 140000) \div Len(plan.anchors)
      less == IF anchors = {} THEN AtMost(120000, Cardinality(missing) * 40000) ELSE 0
  IN  AtMost(One, AtLeast(0, TermSignal(plan, fields) + many
                             + Coverage(plan, fields) \div 5 + held - less))

(* final = fusion + 0.4 * rerank *)
Reranked(plan, hit) ==
  LET fields == NormalizedFields(chunks[hit.chunk])
      signal == Signal(plan, fields)
  IN  [hit EXCEPT !.score = AtMost(One, @ + (signal * 2) \div 5), !.rerank = signal,
                  !.coverage = Coverage(plan, fields)]

(* Score, rerank, keyword and vector score, then the older chunk. *)
Ranks(a, b) ==
  LET key(h) == <<h.score, h.rerank, h.keyword, h.vector, 0 - h.chunk>>
      differ == {i \in 1..5 : key(a)[i] # key(b)[i]}
  IN  differ # {} /\ key(a)[Min(differ)] > key(b)[Min(differ)]

MergeAndRerank ==
  /\ search.step = "merge"
  /\ LET hits == {Merged(i) : i \in DOMAIN search.vector \cup DOMAIN search.keyword}
         final == IF search.hybrid THEN {Reranked(search.plan, h) : h \in hits} ELSE hits
     IN  search' = [step |-> "filter", top |-> search.top, hybrid |-> search.hybrid,
                    plan |-> search.plan, ranked |-> SetToSortSeq(final, Ranks)]
  /\ UNCHANGED textVars

-----------------------------------------------------------------------------
(* The filter.                                                             *)

(* _passes_evidence_gate *)
PassesEvidenceGate(h) ==
  /\ h.source # "vector"
  /\ h.score >= MinScore - RescueMargin
  /\ h.coverage >= MinCoverage
  /\ AtLeast(h.rerank, h.keyword) >= 120000

(* Mutation: the threshold holds for the similarity. *)
KeptByVector(h) == h.vector >= MinScore

Kept(h) == h.score >= MinScore \/ PassesEvidenceGate(h)

FilterHits ==
  /\ search.step = "filter"
  /\ search' = [step |-> "answered", top |-> search.top, hybrid |-> search.hybrid,
                plan |-> search.plan,
                answer |-> Prefix(SelectSeq(search.ranked, Kept), search.top)]
  /\ UNCHANGED textVars

-----------------------------------------------------------------------------
Init == TextInit /\ SearchInit

Next ==
  \/ RegisterFile /\ UNCHANGED search
  \/ ValidateIntake /\ UNCHANGED search
  \/ Normalize /\ UNCHANGED search
  \/ RouteParser /\ UNCHANGED search
  \/ ParseDocument /\ UNCHANGED search
  \/ OcrDisabled /\ UNCHANGED search
  \/ OcrBlock /\ UNCHANGED search
  \/ FinishOcr /\ UNCHANGED search
  \/ AssembleText /\ UNCHANGED search
  \/ GuardIngestEligibility /\ UNCHANGED search
  \/ CleanText /\ UNCHANGED search
  \/ SplitSections /\ UNCHANGED search
  \/ SplitChunks /\ UNCHANGED search
  \/ EmbedIfNeeded /\ UNCHANGED search
  \/ PersistIfNeeded /\ UNCHANGED search
  \/ BuildKeywordPlan \/ VectorRecall \/ KeywordRecall \/ MergeAndRerank \/ FilterHits

Spec == Init /\ [][Next]_vars

-----------------------------------------------------------------------------
(* Properties.                                                             *)

TypeOK ==
  /\ mode \in {"preview", "ingest"}
  /\ stage \in {"register", "validate", "normalize", "route", "parse", "ocr", "assemble",
                "guard", "clean", "split", "chunk", "embed", "persist", "persisted",
                "previewed", "stopped", "raised"}
  /\ \A k \in DOMAIN blocks : blocks[k].type \in {"text", "table", "image", "page_break"}
  /\ ocr.read + ocr.failed <= Len(blocks)
  /\ \A k \in DOMAIN lines : lines[k].block \in DOMAIN blocks /\ lines[k].text # <<>>
  /\ \A k \in DOMAIN chunks : chunks[k].section \in DOMAIN sections
  /\ search.step \in {"idle", "vectors", "keywords", "merge", "filter", "answered"}

(* A hybrid search finds a chunk that contains the question, without its   *)
(* question words, letter by letter, unless the answer is full: neither    *)
(* the limits of the two recalls nor the threshold lose it, however small  *)
(* its similarity.                                                         *)
VerbatimIsFound ==
  search.step = "answered" /\ search.hybrid /\ Len(search.answer) < search.top
    /\ search.plan.focus # <<>> =>
       \A i \in DOMAIN chunks : Has(chunks[i].text, search.plan.focus) =>
          \E k \in DOMAIN search.answer : search.answer[k].chunk = i

(* A hit whose score is below the threshold has evidence: a term of the    *)
(* question is in one of its fields.                                       *)
WeakHitsHaveEvidence ==
  search.step = "answered" =>
    \A k \in DOMAIN search.answer :
      search.answer[k].score < MinScore =>
        MatchedTerms(search.plan, NormalizedFields(chunks[search.answer[k].chunk])) # {}

(* Of two chunks in the answer of a hybrid search, one that contains the   *)
(* question comes before one that contains none of its terms, unless the   *)
(* merged scores had it the other way round.                               *)
EvidenceRanksFirst ==
  search.step = "filter" /\ search.hybrid /\ search.plan.focus # <<>> =>
    \A m, n \in DOMAIN search.ranked :
      LET a == search.ranked[m]
          b == search.ranked[n]
      IN  /\ Has(chunks[a.chunk].text, search.plan.focus)
          /\ MatchedTerms(search.plan, NormalizedFields(chunks[b.chunk])) = {}
          /\ Fused(a.vector, a.keyword) >= Fused(b.vector, b.keyword)
          => m < n

\* What contains the question is found, what is weak has evidence, and evidence
\* decides the order.
HitsSound ==
  /\ TypeOK
  /\ VerbatimIsFound
  /\ WeakHitsHaveEvidence
  /\ EvidenceRanksFirst
=============================================================================
