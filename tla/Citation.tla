------------------------------ MODULE Citation ------------------------------
(***************************************************************************)
(* One citation's way from the submitted file to its verdict: the file is  *)
(* frozen into a rendition (ingest/freeze.py), the rendition is scanned    *)
(* (armor/scan.py), the model cites a span of it and the deterministic     *)
(* layers judge the citation (validate/citation.py).                       *)
(*                                                                         *)
(* The model can cite anything: a span that is not in the registry, words  *)
(* that are not in the text, words of one span under the id of another,    *)
(* with what it says stands before and after them taken from anywhere and  *)
(* of any length.  A hash is represented by what it is the hash of.        *)
(***************************************************************************)
EXTENDS Text

CONSTANTS
  Sources,    \* files students may have handed in
  Judged,     \* bound: those that something is cited of
  Patterns,   \* what the scanner looks for
  MaxQuote,   \* bound: the longest quote
  MaxContext  \* bound: the longest prefix or suffix the model reports

\* A file is of a kind and has its texts: one, if it is plain text, and none, if it
\* cannot be read.
ASSUME SourcesAssumption ==
  \A f \in Sources :
    /\ f.kind \in {"md", "docx", "pdf", "unreadable"}
    /\ f.parts \in Seq(Seq(STRING)) /\ f.beside \in Seq(Seq(STRING))
    /\ f.kind = "md" => Len(f.parts) = 1
    /\ f.kind = "unreadable" => f.parts = <<>>
    /\ f.kind # "docx" => f.beside = <<>>

\* What stands between two words of a pattern: [^.\n]{0,40}? or \s+.
Gap == "gap"
Blanks == "blanks"

\* A pattern has a set of words to choose from at each place, what stands between
\* each place and the next, and how long its gaps may be (40 or 60 in the code).  A
\* word is represented by a letter; words that may be left out are left out.
ASSUME PatternAssumption ==
  \A p \in Patterns :
    /\ p.words \in Seq(SUBSET STRING) /\ Len(p.words) > 1
    /\ \A k \in DOMAIN p.words : p.words[k] \cap (Blank \union {Stop}) = {}
    /\ p.between \in Seq({Gap, Blanks}) /\ Len(p.between) = Len(p.words) - 1
    /\ p.most \in Nat

VARIABLES
  source,      \* the file
  stage,       \* how far it has come
  rendition,   \* what freeze() returned
  detections,  \* what the scanner reported, attributed to spans
  citation,    \* what the model cites
  verdict      \* what validate_citation() returned

vars == <<source, stage, rendition, detections, citation, verdict>>

NoRendition == [text |-> NoText, spans |-> <<>>, projection |-> "unparseable"]
NoCitation == [span |-> 0, quote |-> NoText, prefix |-> NoText, suffix |-> NoText]

\* Verification: each layer TRUE, FALSE, or not run.
Passed == "passed"
Failed == "failed"
NotRun == "not run"
NoVerdict == [ok |-> FALSE, referential |-> NotRun, quote_check |-> NotRun, positional |-> NotRun]

Init ==
  /\ source \in Sources
  /\ stage = "handed in"
  /\ rendition = NoRendition
  /\ detections = {}
  /\ citation = NoCitation
  /\ verdict = NoVerdict

\* A rendition without a span is refused ("nothing is citable").
FreezeSource ==
  /\ stage = "handed in"
  /\ LET r == Freeze(source) IN
       IF r.spans = <<>> THEN stage' = "unparseable" /\ UNCHANGED rendition
       ELSE stage' = "frozen" /\ rendition' = r
  /\ UNCHANGED <<source, detections, citation, verdict>>
-----------------------------------------------------------------------------
(* LocalPatternScanner.scan() and attribute_to_spans().                    *)

\* MUTANT of Folded: a payload that is wrapped is not seen.
NotFolded(t) == t

\* _SOFT_WRAP: a line break not followed by another becomes a blank, so of a
\* paragraph break the first half stays.
Folded(t) ==
  [i \in DOMAIN t |-> IF t[i] = Nl /\ ~(i < Len(t) /\ t[i + 1] = Nl) THEN Sp ELSE t[i]]

\* What stands in t between i and j is what p has behind its k-th word.
Separated(p, k, t, i, j) ==
  \/ /\ p.between[k] = Gap /\ j - i \in 1 .. p.most + 1
     /\ \A x \in i + 1 .. j - 1 : t[x] \notin {Stop, Nl}
  \/ /\ p.between[k] = Blanks /\ j - i > 1
     /\ \A x \in i + 1 .. j - 1 : t[x] \in Blank

\* The ways to read a pattern in t: where its words stand.
Readings(t, p) ==
  {at \in [DOMAIN p.words -> DOMAIN t] :
     /\ \A k \in DOMAIN p.words : t[at[k]] \in p.words[k]
     /\ \A k \in DOMAIN p.between : Separated(p, k, t, at[k], at[k + 1])}

\* finditer(): the first reading, as short as it can be, and then on behind it.
Matches(t, p) ==
  LET readings == Readings(t, p)
      ends(i) == {at[Len(p.words)] : at \in {r \in readings : r[1] = i}}
      starts(q) == {i \in q .. Len(t) : ends(i) # {}}
      from[q \in 1 .. Len(t) + 1] ==
        IF starts(q) = {} THEN {}
        ELSE LET i == Min(starts(q))
                 j == Min(ends(i))
             IN {[from |-> i, to |-> j]} \union from[j + 1]
  IN from[1]

\* The span a detection begins in.
Locate(r, p, m) ==
  LET holding == {s \in SpanIds(r) : r.spans[s].from <= m.from /\ m.from <= r.spans[s].to} IN
  [pattern |-> p, from |-> m.from, to |-> m.to, span |-> IF holding = {} THEN 0 ELSE Min(holding)]

Scan ==
  /\ stage = "frozen"
  /\ stage' = "scanned"
  /\ detections' = UNION {{Locate(rendition, p, m) : m \in Matches(Folded(rendition.text), p)} :
                           p \in Patterns}
  /\ UNCHANGED <<source, rendition, citation, verdict>>
-----------------------------------------------------------------------------
(* The citation.                                                           *)

\* span_local_context(): cut off at the ends of the span, not padded.
SpanLocalContext(t, o, n) ==
  [ prefix |-> SubSeq(t, Max({1, o - Width}), o - 1),
    suffix |-> SubSeq(t, o + n, Min({Len(t), o + n + Width - 1})) ]

Occurrences(quote, t) ==
  {o \in 1 .. Len(t) - Len(quote) + 1 : SubSeq(t, o, o + Len(quote) - 1) = quote}

\* What a reader of the rendition can copy from it, up to n characters of one span.
Copied(r, n) ==
  {NoText} \union UNION {{q \in SubSeqs(TextOf(r, s)) : Len(q) <= n} : s \in SpanIds(r)}

\* An empty quote is malformed.
Quotes(r) == Copied(r, MaxQuote) \ {NoText}

Cited(s, quote, around) ==
  [span |-> s, quote |-> quote, prefix |-> around.prefix, suffix |-> around.suffix]

\* The model names a span, words, and what stands around them: each of its own,
\* whatever it copied.
Cite ==
  /\ stage = "scanned" /\ source \in Judged
  /\ \E s \in SpanIds(rendition) \union {0}, quote \in Quotes(rendition) :
       \E prefix, suffix \in Copied(rendition, MaxContext) :
         citation' = Cited(s, quote, [prefix |-> prefix, suffix |-> suffix])
  /\ stage' = "cited"
  /\ UNCHANGED <<source, rendition, detections, verdict>>

\* build_citation(): fixtures and the appeal packet take the first occurrence.
BuildCitation ==
  /\ stage = "scanned" /\ source \in Judged
  /\ \E s \in SpanIds(rendition), quote \in Quotes(rendition) :
       LET t == TextOf(rendition, s) IN
       /\ Occurrences(quote, t) # {}
       /\ citation' = Cited(s, quote, SpanLocalContext(t, Min(Occurrences(quote, t)), Len(quote)))
  /\ stage' = "built"
  /\ UNCHANGED <<source, rendition, detections, verdict>>
-----------------------------------------------------------------------------
(* validate_citation()                                                     *)

SamePlace(c, t, o) ==
  LET around == SpanLocalContext(t, o, Len(c.quote)) IN
  around.prefix = c.prefix /\ around.suffix = c.suffix

\* MUTANT of Matched: only the first occurrence in the span is looked at.
MatchedFirst(c, t) == SamePlace(c, t, Min(Occurrences(c.quote, t)))

\* One of the occurrences has the surroundings the citation reports.
Matched(c, t) == \E o \in Occurrences(c.quote, t) : SamePlace(c, t, o)

Outcome(ok, referential, quote_check, positional) ==
  [ok |-> ok, referential |-> referential, quote_check |-> quote_check, positional |-> positional]

\* The layers in their order: each runs only if the ones before have passed.
ValidateCitation(c, r) ==
  LET t == TextOf(r, c.span) IN
  IF c.span \notin SpanIds(r) THEN Outcome(FALSE, Failed, NotRun, NotRun)
  ELSE IF Occurrences(c.quote, t) = {} THEN Outcome(FALSE, Passed, Failed, NotRun)
  ELSE IF AnchorCapability(r) = "doc_only" THEN Outcome(TRUE, Passed, Passed, NotRun)
  ELSE IF Matched(c, t) THEN Outcome(TRUE, Passed, Passed, Passed)
  ELSE Outcome(FALSE, Passed, Passed, Failed)

Judge ==
  /\ stage \in {"cited", "built"}
  /\ verdict' = ValidateCitation(citation, rendition)
  /\ stage' = IF stage = "cited" THEN "judged" ELSE "built and judged"
  /\ UNCHANGED <<source, rendition, detections, citation>>

Next == FreezeSource \/ Scan \/ Cite \/ BuildCitation \/ Judge

Spec == Init /\ [][Next]_vars
-----------------------------------------------------------------------------
\* What is left of a text when blanks and line breaks do not count.
Seen(t) ==
  LET u == Nfc(t) IN Keep(u, {i \in DOMAIN u : u[i] \notin Blank \union {Inv}})

Words(ts) == FlattenSeq([k \in DOMAIN ts |-> Seen(ts[k])])

SpanTexts(r) == [s \in SpanIds(r) |-> TextOf(r, s)]

\* The words of the rendition's spans are the words of what extract() reads of the
\* file, in their order: extraction, normalisation and the paragraph map together
\* drop nothing, double nothing and swap nothing, and only a file without words
\* there is refused (freeze(): a rendition that lost text would report "that a
\* student's work contained nothing relevant").  The tables and headers of a
\* document are not read: what stands only there is in no span, and a document
\* that has its words only there is refused.
NothingIsLost ==
  /\ stage = "frozen" => Words(SpanTexts(rendition)) = Words(source.parts)
  /\ stage = "unparseable" <=> stage # "handed in" /\ Words(source.parts) = NoText

\* The rendition is a fixed point of the normaliser, and the line ends the file
\* was saved with leave no trace in it (normalize(): "Deterministic, idempotent";
\* "two visually identical documents" must not hash differently).
RenditionIsSettled ==
  stage = "frozen" =>
    /\ Normalize(rendition.text) = rendition.text
    /\ source.kind = "md" /\ (\A i \in DOMAIN source.parts[1] : source.parts[1][i] # Cr) =>
         LET saved(c) == IF c = Nl THEN <<Cr, Nl>> ELSE <<c>>
             raw == source.parts[1]
         IN Normalize(FlattenSeq([i \in DOMAIN raw |-> saved(raw[i])])) = rendition.text

InOneSpan(r, i, j) ==
  \E s \in SpanIds(r) : i \in r.spans[s].from .. r.spans[s].to /\ j \in r.spans[s].from .. r.spans[s].to

\* Two words of a payload, as the reader of the rendition finds them: in one
\* sentence of one span and close to each other, wrapped or not, or next to each
\* other with whatever blanks between, the end of a paragraph included.
Together(p, k, r, i, j) ==
  \/ /\ p.between[k] = Gap /\ InOneSpan(r, i, j) /\ i < j /\ j - i <= p.most + 1
     /\ \A x \in i .. j : r.text[x] # Stop
  \/ /\ p.between[k] = Blanks /\ i + 1 < j
     /\ \A x \in i + 1 .. j - 1 : r.text[x] \in Blank

Payloads(r, p) ==
  {at \in [DOMAIN p.words -> DOMAIN r.text] :
     /\ \A k \in DOMAIN p.words : r.text[at[k]] \in p.words[k]
     /\ \A k \in DOMAIN p.between : Together(p, k, r, at[k], at[k + 1])}

\* Each payload begins in a detection of its pattern, each detection is a payload
\* and names the span it begins in, and it ends there too unless the pattern has
\* words that only blanks separate (scan(): "A paragraph break (two newlines) is
\* left alone and still bounds the gap"; the span map and the scanner each have
\* their own idea of a paragraph).
CaughtInItsParagraph ==
  stage = "scanned" =>
    \A p \in Patterns :
      LET found == {d \in detections : d.pattern = p}
          payloads == Payloads(rendition, p)
      IN /\ \A at \in payloads : \E d \in found : d.from <= at[1] /\ at[1] <= d.to
         /\ \A d \in found :
              /\ \E at \in payloads : at[1] = d.from /\ at[Len(p.words)] = d.to
              /\ d.span \in SpanIds(rendition)
              /\ rendition.spans[d.span].from <= d.from /\ d.from <= rendition.spans[d.span].to
              /\ (\A k \in DOMAIN p.between : p.between[k] = Gap) => d.to <= rendition.spans[d.span].to

\* prefix, quote and suffix stand in the text in a row; neither surrounding is
\* longer than the width, and it is shorter only where the text ends.
HoldsAt(c, t, o) ==
  LET row == c.prefix \o c.quote \o c.suffix IN
  /\ o + Len(row) - 1 <= Len(t)
  /\ SubSeq(t, o, o + Len(row) - 1) = row
  /\ Len(c.prefix) = Width \/ (Len(c.prefix) < Width /\ o = 1)
  /\ Len(c.suffix) = Width \/ (Len(c.suffix) < Width /\ o + Len(row) - 1 = Len(t))

\* A citation of a rendition with positions is accepted exactly when its words
\* stand in the span it names between the surroundings it reports, these exactly
\* as wide as asked for, wherever in the span and however often: nothing
\* misattributed passes, and what is refused though it stands there reported more
\* or less of its surroundings than the prompt says (validate_citation(): "Every
\* occurrence gets checked; one match is enough").  What build_citation() returns
\* is always accepted, and a rendition without positions never gets a positional
\* verdict.
AcceptedWhereItHolds ==
  /\ stage = "judged" /\ AnchorCapability(rendition) = "exact" =>
       ( verdict.ok <=> /\ citation.span \in SpanIds(rendition)
                        /\ \E o \in DOMAIN TextOf(rendition, citation.span) :
                             HoldsAt(citation, TextOf(rendition, citation.span), o) )
  /\ stage = "built and judged" => verdict.ok
  /\ AnchorCapability(rendition) = "doc_only" => verdict.positional = NotRun
=============================================================================
