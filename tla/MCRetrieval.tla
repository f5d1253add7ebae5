---------------------------- MODULE MCRetrieval ----------------------------
(***************************************************************************)
(* Small files for the ingestion pipeline and questions about them.        *)
(***************************************************************************)
EXTENDS Retrieval

Run(text) == [text |-> text, image |-> "none"]
Image(text) == [text |-> text, image |-> "image"]
Paragraph(runs) == [table |-> FALSE, runs |-> runs]
Word(kind, items) ==
  [kind |-> kind, filled |-> TRUE, excluded |-> FALSE, name |-> <<"y", "x">>, items |-> items]

(* Headings of every level, bodies with and without a break, a line that   *)
(* looks like a cover, and a page number.                                  *)
TextItems ==
  {Paragraph(<<Run(t)>>) : t \in
     {<<"@", "1", "c", "x">>, <<"@", "1", "s", "y">>, <<"@", "1", "a">>,
      <<"@", "2", "a", "x", ".", "y", "z">>, <<"x">>,
      <<"z", "y", ".", "x", "y", "z", "x">>, <<"@", "2", "p">>}}

(* Paragraphs with one or two images before, behind or between text, an    *)
(* image whose data is missing, and a table.                               *)
ImageItems ==
  {Paragraph(<<Image(<<"x">>), Image(<<"y">>)>>), Paragraph(<<Image(<<>>), Run(<<"z">>)>>),
   Paragraph(<<Image(<<>>)>>), Paragraph(<<[text |-> <<"x">>, image |-> "lost"]>>),
   [table |-> TRUE, runs |-> <<Run(<<"x", NL, "y">>)>>]}

(* Pages: text, text with an image, image only. *)
Pages ==
  {Paragraph(<<Run(<<"x", "y", NL, "@", "1", "p">>)>>), Paragraph(<<Image(<<"z">>)>>),
   Paragraph(<<Image(<<>>)>>)}

MCFiles ==
  {Word("docx", items) : items \in BoundedSeq(TextItems, 4)}
  \cup {Word("docx", items) : items \in BoundedSeq(ImageItems, 2)}
  \cup {Word("pdf", items) : items \in BoundedSeq(Pages, 3)}
  \cup {Word("doc", items) : items \in BoundedSeq(ImageItems, 1)}
  \cup {Word("image", <<Paragraph(<<Image(<<>>)>>)>>)}
  \cup {[kind |-> k, filled |-> f, excluded |-> e, name |-> <<"y">>, items |-> <<>>] :
          k \in {"docx", "other"}, f \in BOOLEAN, e \in BOOLEAN}

(* One line, and two lines of which the first is a heading. *)
MCReadings == {<<"z">>, <<"@", "1", "c", NL, "x", "y">>}

(* Short and long questions, with question words, numbers and punctuation. *)
MCQueries ==
  {<<"z", "x">>, <<"x", "y", "z", "q">>, <<"@", "1", "a">>, <<"y", "q">>, <<"q">>, <<".">>,
   <<"@", "2", "a", "x", ".", "y">>, <<"x", "y", "z", "x", "y", "z", "x">>,
   <<"z", "q", "y", "x", "2">>, <<"x", "x">>}
=============================================================================
