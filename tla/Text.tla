-------------------------------- MODULE Text --------------------------------
(***************************************************************************)
(* From a submitted file to the frozen rendition (ingest/extract.py,       *)
(* ingest/normalize.py, ingest/freeze.py, schema/spans.py).                *)
(*                                                                         *)
(* A text is a sequence of characters.  A character is a letter, or one of *)
(* the characters below, which stand for the classes the code tells apart. *)
(* Positions start at 1 and an interval includes both its ends.            *)
(***************************************************************************)
EXTENDS SequencesExt

CONSTANTS
  Width,        \* CONTEXT_CHARS
  PdfTextFloor  \* _PDF_TEXT_FLOOR

ASSUME WidthAssumption == Width \in Nat

Sp == " "           \* a blank that is not a line break
Nl == "\n"
Cr == "\r"
Ls == "separator"   \* U+2028: blank, ends a line for str.splitlines() only
Inv == "invisible"  \* zero width: not a blank to str.strip(), nor to a reader
Mark == "mark"      \* a combining accent
Accented == "accented a"  \* the composed form of the letter "a" and the mark
Stop == "."         \* what ends a sentence

Blank == {Sp, Nl, Cr, Ls}
LineEnd == {Nl, Ls}
NoText == <<>>
-----------------------------------------------------------------------------
(* Sequences of characters.                                                *)

\* The n-th of some positions.
Nth(P, n) == CHOOSE i \in P : Cardinality({j \in P : j < i}) = n - 1

\* What stands in t at the positions in P.
Keep(t, P) == [n \in 1 .. Cardinality(P) |-> t[Nth(P, n)]]

\* str.strip()
Strip(t) ==
  Keep(t, {i \in DOMAIN t : /\ \E j \in 1 .. i : t[j] \notin Blank
                            /\ \E j \in i .. Len(t) : t[j] \notin Blank})

\* str.rstrip()
RStrip(t) == Keep(t, {i \in DOMAIN t : \E j \in i .. Len(t) : t[j] \notin Blank})

\* "\n\n".join(...) for gap = <<Nl, Nl>>
Join(ts, gap) ==
  FlattenSeq([k \in DOMAIN ts |-> IF k = 1 THEN ts[k] ELSE gap \o ts[k]])

\* [p for p in ts if p]
NonEmpty(ts) == Keep(ts, {k \in DOMAIN ts : ts[k] # NoText})

\* str.splitlines(), for texts without Cr.
Lines(t) ==
  LET ends == {i \in DOMAIN t : t[i] \in LineEnd}
                \union (IF t # NoText /\ Last(t) \notin LineEnd THEN {Len(t) + 1} ELSE {})
      end(k) == Nth(ends, k)
  IN [k \in 1 .. Cardinality(ends) |-> SubSeq(t, IF k = 1 THEN 1 ELSE end(k - 1) + 1, end(k) - 1)]
-----------------------------------------------------------------------------
(* normalize()                                                             *)

\* The accent is composed with the one letter that has a composed form.
Nfc(t) ==
  LET composed(i) == t[i] = Mark /\ i > 1 /\ t[i - 1] = "a" IN
  Keep([i \in DOMAIN t |-> IF i < Len(t) /\ t[i] = "a" /\ t[i + 1] = Mark THEN Accented ELSE t[i]],
       {i \in DOMAIN t : ~composed(i)})

LineEnds(t) ==
  Keep([i \in DOMAIN t |-> IF t[i] = Cr THEN Nl ELSE t[i]],
       {i \in DOMAIN t : ~(t[i] = Nl /\ i > 1 /\ t[i - 1] = Cr)})

Visible(t) == [i \in DOMAIN t |-> IF t[i] = Inv THEN Sp ELSE t[i]]

\* _TRAILING_WS: blanks with nothing but blanks up to the end of the line.
WithoutTrailing(t) ==
  LET trailing(i) == \E e \in i + 1 .. Len(t) + 1 : /\ e = Len(t) + 1 \/ t[e] = Nl
                                                    /\ \A j \in i .. e - 1 : t[j] = Sp
  IN Keep(t, {i \in DOMAIN t : ~trailing(i)})

\* _BLANK_RUN: of three line breaks or more, two stay.
WithoutBlankRuns(t) ==
  Keep(t, {i \in DOMAIN t : ~(i > 2 /\ t[i] = Nl /\ t[i - 1] = Nl /\ t[i - 2] = Nl)})

\* MUTANT of Tidied: the two substitutions in the other order.
TidiedBackwards(t) == WithoutTrailing(WithoutBlankRuns(t))

Tidied(t) == WithoutBlankRuns(WithoutTrailing(t))

Normalize(raw) == Strip(Tidied(Visible(LineEnds(Nfc(raw)))))
-----------------------------------------------------------------------------
(* paragraph_offsets() and SpanRegistry.build()                            *)

\* A paragraph begins at a character that is no line break, after nothing but
\* line breaks or after two of them, ends before a blank line or the end of the
\* text, and is trimmed on the right.
ParagraphOffsets(t) ==
  LET begins == {b \in DOMAIN t : /\ t[b] # Nl
                                  /\ \/ \A i \in 1 .. b - 1 : t[i] = Nl
                                     \/ b > 2 /\ t[b - 1] = Nl /\ t[b - 2] = Nl}
      blank(i) == t[i] = Nl /\ i < Len(t) /\ t[i + 1] = Nl
      within(b) == {i \in b .. Len(t) : t[i] \notin {Nl, Sp} /\ \A k \in b .. i : ~blank(k)}
      kept == {b \in begins : within(b) # {}}
  IN [n \in 1 .. Cardinality(kept) |-> [from |-> Nth(kept, n), to |-> Max(within(Nth(kept, n)))]]

\* The closed vocabulary: the id of a span is its index.
SpanIds(r) == DOMAIN r.spans

TextOf(r, s) == SubSeq(r.text, r.spans[s].from, r.spans[s].to)
-----------------------------------------------------------------------------
(* extract()                                                               *)

\* MUTANT of Rejoined: what follows the last short line is dropped.
RejoinedClosedOnly(done, open) == done

\* _rejoin_pdf_paragraphs(): after the last line the open paragraph is closed.
Rejoined(done, open) == IF open = <<>> THEN done ELSE Append(done, Join(open, <<Sp>>))

\* A line joins the open paragraph, and closes it if it closes one.
AddLine(acc, line, closes) ==
  LET open == Append(acc.open, Strip(line)) IN
  IF closes THEN [done |-> Rejoined(acc.done, open), open |-> <<>>]
  ELSE [acc EXCEPT !.open = open]

\* The lines that end a sentence and fall short of 85% of the median width: they
\* end a paragraph.
Closing(lines) ==
  LET widths == SortSeq([k \in DOMAIN lines |-> Len(lines[k])], LAMBDA m, n : m < n)
      median == widths[Len(widths) \div 2 + 1]
  IN {k \in DOMAIN lines : Last(lines[k]) = Stop /\ 100 * Len(lines[k]) < 85 * median}

\* The paragraphs after each line.
Rejoining(lines, closing) ==
  LET after[k \in 0 .. Len(lines)] ==
        IF k = 0 THEN [done |-> <<>>, open |-> <<>>]
        ELSE AddLine(after[k - 1], lines[k], k \in closing)
  IN after

RejoinPdfParagraphs(page) ==
  LET all_lines == Lines(page)
      lines == NonEmpty([k \in DOMAIN all_lines |-> RStrip(all_lines[k])])
      all == Rejoining(lines, Closing(lines))[Len(lines)]
  IN IF lines = <<>> THEN NoText
     ELSE Join(NonEmpty(Rejoined(all.done, all.open)), <<Nl, Nl>>)

\* What extract() returns: the raw text and how it was obtained, or that it
\* raised UnparseableSource.  A source is its kind, its parts (the text, the
\* document's paragraphs, or the pages), and what a document has beside them: the
\* texts of its tables and headers.
Extracted(raw, projection) == [text |-> raw, projection |-> projection]
UnparseableSource == Extracted(NoText, "unparseable")

\* read_text() translates the line ends itself.
ExtractText(source) ==
  IF Strip(source.parts[1]) = NoText THEN UnparseableSource
  ELSE Extracted(LineEnds(source.parts[1]), "text")

\* "Tables and headers are deliberately not extracted": source.beside is not read.
ExtractDocx(source) ==
  LET stripped == [k \in DOMAIN source.parts |-> Strip(source.parts[k])]
      raw == Join(NonEmpty(stripped), <<Nl, Nl>>)
  IN IF raw = NoText THEN UnparseableSource ELSE Extracted(raw, "docx")

ExtractPdf(source) ==
  LET pages == Keep(source.parts, {k \in DOMAIN source.parts : Strip(source.parts[k]) # NoText})
      raw == Join([k \in DOMAIN pages |-> RejoinPdfParagraphs(pages[k])], <<Nl, Nl>>)
  IN Extracted(raw, IF Len(Strip(raw)) < PdfTextFloor THEN "pdf_image" ELSE "pdf_text")

\* An unsupported suffix, bytes that are not UTF-8, a file that cannot be opened.
Extract(source) ==
  CASE source.kind = "md" -> ExtractText(source)
    [] source.kind = "docx" -> ExtractDocx(source)
    [] source.kind = "pdf" -> ExtractPdf(source)
    [] source.kind = "unreadable" -> UnparseableSource

\* freeze(): the rendition, with no span where it raises UnparseableSource.
Freeze(source) ==
  LET extracted == Extract(source)
      text == Normalize(extracted.text)
  IN [text |-> text, spans |-> ParagraphOffsets(text), projection |-> extracted.projection]

AnchorCapability(r) ==
  IF r.projection \in {"pdf_image", "unparseable"} THEN "doc_only" ELSE "exact"
=============================================================================
