--------------------------- MODULE MarkdownParser ---------------------------
(***************************************************************************)
(* MarkdownParser.Parse: a document becomes chunks. A character is          *)
(* identified by its line and its place in the line; which character it is  *)
(* matters only where the code looks: blanks and headings.                  *)
(***************************************************************************)
EXTENDS Integers, SequencesExt

CONSTANT MaxChars    \* defaultMaxChunkChars

ASSUME ParserAssumption == MaxChars \in Nat \ {0}

\* A line has indent blanks and then chars other characters. Its prefix is "heading" if
\* it starts with # and a blank, "tag" if it starts with # and something else, both
\* without indent. A blank line has no chars, a document has at least one line; bom says
\* that it starts with a byte order mark.
LinePrefixes == {"text", "tag", "heading"}

At(i, k) == [line |-> i, at |-> k]
Newline(i) == At(i, 0)    \* the one before line i
Mark == At(0, 1)

\* unicode.IsSpace: a byte order mark is no space.
IsSpace(doc, char) ==
    char # Mark /\ char.at <= doc.lines[char.line].indent

Chars(doc, i) ==
    (IF doc.bom /\ i = 1 THEN <<Mark>> ELSE <<>>)
        \o [k \in 1..(doc.lines[i].indent + doc.lines[i].chars) |-> At(i, k)]

\* Faulty: a hash is enough.
IsHeadingFaulty(doc, i) ==
    doc.lines[i].prefix # "text" /\ ~(doc.bom /\ i = 1)

\* A byte order mark hides the heading in the first line.
IsHeading(doc, i) ==
    doc.lines[i].prefix = "heading" /\ ~(doc.bom /\ i = 1)

\* strings.Join(current, "\n")
Join(doc, current) ==
    FoldLeft(LAMBDA text, i :
                 text \o (IF i = current[1] THEN <<>> ELSE <<Newline(i)>>) \o Chars(doc, i),
             <<>>, current)

\* Faulty: nothing is trimmed.
TrimSpaceFaulty(doc, text) == text

TrimSpace(doc, text) ==
    LET visible == {k \in DOMAIN text : ~IsSpace(doc, text[k])} IN
    IF visible = {} THEN <<>> ELSE SubSeq(text, Min(visible), Max(visible))

\* The section that the lines in current make, if it has any text.
Section(doc, current) ==
    LET text == TrimSpace(doc, Join(doc, current)) IN
    IF text = <<>> THEN <<>> ELSE <<text>>

\* One pass of the loop: a heading ends the section before it.
Scan(doc, state, i) ==
    IF IsHeading(doc, i) /\ state.current # <<>>
    THEN [sections |-> state.sections \o Section(doc, state.current), current |-> <<i>>]
    ELSE [state EXCEPT !.current = Append(state.current, i)]

Scanned(doc) ==
    FoldLeft(LAMBDA state, i : Scan(doc, state, i),
             [sections |-> <<>>, current |-> <<>>],
             [i \in DOMAIN doc.lines |-> i])

\* Faulty: what follows the last heading is forgotten.
SplitSectionsFaulty(doc) == Scanned(doc).sections

SplitSections(doc) ==
    Scanned(doc).sections \o Section(doc, Scanned(doc).current)

SplitLongChunk(text) ==
    [j \in 1..((Len(text) + MaxChars - 1) \div MaxChars) |->
        SubSeq(text, MaxChars * (j - 1) + 1, Min({MaxChars * j, Len(text)}))]

Parse(doc) ==
    FoldLeft(LAMBDA chunks, section : chunks \o SplitLongChunk(section),
             <<>>, SplitSections(doc))

=============================================================================
