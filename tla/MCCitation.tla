----------------------------- MODULE MCCitation -----------------------------
(* Files of each kind: every short text, longer ones over a smaller        *)
(* alphabet, pages made of typeset lines, and documents with words in a    *)
(* table.                                                                  *)
EXTENDS Citation

File(kind, parts) == [kind |-> kind, parts |-> parts, beside |-> <<>>]
Document(paragraphs, beside) == [kind |-> "docx", parts |-> paragraphs, beside |-> beside]

EveryCharacter == BoundedSeq({"a", "b", Sp, Nl, Cr, Ls, Inv, Mark, Stop}, 4)
Prose == BoundedSeq({"a", "b", Nl}, 6)
Layout == BoundedSeq({"a", Sp, Nl}, 6)
Paragraph == BoundedSeq({"a", Sp, Nl, Ls}, 2)
Line == {<<"a">>, <<"b">>, <<"a", Stop>>, <<"b", Stop>>, <<"a", "a", "b">>, <<Sp, "a", "b">>, <<"a", Ls, "b">>, <<Sp>>}
Page == {Join(ls, <<Nl>>) : ls \in BoundedSeq(Line, 3)}
Table == {<<>>, << <<"b">> >>}

MCSources ==
  UNION { {File("md", <<t>>) : t \in EveryCharacter \union Prose \union Layout},
          {Document(ps, cells) : ps \in BoundedSeq(Paragraph, 2), cells \in Table},
          {File("pdf", ps) : ps \in {<<>>} \union {<<p>> : p \in Page}},
          {File("pdf", <<p, q>>) : p, q \in {Join(ls, <<Nl>>) : ls \in BoundedSeq(Line, 1)}},
          {File("unreadable", <<>>)} }

\* A word and one close behind it; the one next to the other; either of two words
\* and another near, with a gap that may be longer.
MCPatterns ==
  { [words |-> <<{"a"}, {"b"}>>, between |-> <<Gap>>, most |-> 1],
    [words |-> <<{"a"}, {"b"}>>, between |-> <<Blanks>>, most |-> 0],
    [words |-> <<{"a"}, {"a", "b"}, {"a"}>>, between |-> <<Blanks, Gap>>, most |-> 2] }

\* Fewer and shorter files, for every citation of them.
MCJudged ==
  UNION { {File("md", <<t>>) : t \in BoundedSeq({"a", "b", Nl}, 5)},
          {File("pdf", <<p>>) : p \in {Join(ls, <<Nl>>) : ls \in BoundedSeq(Line, 2)}} }
=============================================================================
