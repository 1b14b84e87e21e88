---------------------------- MODULE DocumentRows ----------------------------
(***************************************************************************)
(* What a worker makes of a Markdown file: the rows of its Load Job. The    *)
(* document grows between the runs, each run reads the sprint policy again. *)
(***************************************************************************)
EXTENDS SprintPeriod, MarkdownParser

CONSTANTS Lines,      \* the lines an author writes
          Policies,   \* values of RETRO_SPRINT_FROM_MONTH: months and NoMonth
          MaxLines,   \* bound: lines of a document
          NoRows      \* the document has not been processed as it is

ASSUME RowsAssumption ==
    /\ Policies \subseteq Months \cup {NoMonth} /\ MaxLines \in Nat \ {0}
    /\ \A l \in Lines :
          /\ l.indent \in Nat /\ l.chars \in Nat /\ l.prefix \in LinePrefixes
          /\ l.title \in Label \cup {NoLabel}
          /\ l.title # NoLabel => l.prefix = "heading"
          /\ l.prefix # "text" => l.indent = 0 /\ l.chars > 1

VARIABLES
    content,  \* the content of the file in Drive
    from,     \* the policy of the run that processed it, NoMonth before
    rows      \* the rows it made of the document

vars == <<content, from, rows>>

Row == [chunk_index : Nat, content : Seq([line : Nat, at : Nat]), is_deleted : BOOLEAN,
        label : Label \cup {NoLabel}, period : [start : Nat, end : Nat] \cup {NoPeriod}]

\* A document has rows, and only the row of an empty one has no content.
TypeOK ==
    /\ content.bom \in BOOLEAN /\ content.lines \in Seq(Lines) /\ Len(content.lines) \in 1..MaxLines
    /\ from \in Policies \cup {NoMonth}
    /\ rows # NoRows =>
          /\ rows \in Seq(Row) /\ rows # <<>>
          /\ \A j \in DOMAIN rows : rows[j].is_deleted <=> rows[j].content = <<>>

Init ==
    /\ content \in [bom : BOOLEAN, lines : {<<l>> : l \in Lines}]
    /\ from = NoMonth
    /\ rows = NoRows

Visible(doc) == {i \in DOMAIN doc.lines : doc.lines[i].chars > 0}

\* Faulty: the search goes on after a line that is no title.
ExtractRetroLabelFaulty(doc) ==
    LET titles == {i \in Visible(doc) : doc.lines[i].title # NoLabel} IN
    IF titles = {} THEN NoLabel ELSE doc.lines[Min(titles)].title

\* The title of a document is its first line that is not blank, if it is one. Here a
\* byte order mark is dropped first.
ExtractRetroLabel(doc) ==
    IF Visible(doc) = {} THEN NoLabel ELSE doc.lines[Min(Visible(doc))].title

\* Faulty: an empty document has no rows.
RowsOfFaulty(policy) ==
    [j \in DOMAIN Parse(content) |->
        [chunk_index |-> j - 1, content |-> Parse(content)[j], is_deleted |-> FALSE,
         label |-> ExtractRetroLabel(content),
         period |-> Period(policy, ExtractRetroLabel(content))]]

\* The rows of the chunks, with the same metadata, or the tombstone without any.
RowsOf(policy) ==
    LET label == ExtractRetroLabel(content)
        period == Period(policy, label)
        chunks == Parse(content)
    IN  IF chunks = <<>>
        THEN <<[chunk_index |-> 0, content |-> <<>>, is_deleted |-> TRUE,
                label |-> NoLabel, period |-> NoPeriod]>>
        ELSE [j \in DOMAIN chunks |->
                 [chunk_index |-> j - 1, content |-> chunks[j], is_deleted |-> FALSE,
                  label |-> label, period |-> period]]

\* Environment: the author adds a line.
Write(line) ==
    /\ Len(content.lines) < MaxLines
    /\ content' = [content EXCEPT !.lines = Append(content.lines, line)]
    /\ from' = NoMonth /\ rows' = NoRows

\* A run with this policy downloads the document.
Process(policy) ==
    /\ from' = policy
    /\ rows' = RowsOf(policy)
    /\ UNCHANGED content

Next ==
    \/ \E line \in Lines : Write(line)
    \/ \E policy \in Policies : Process(policy)

Spec == Init /\ [][Next]_vars

-----------------------------------------------------------------------------
(* Properties *)

VisibleChars(text) ==
    FoldLeft(LAMBDA kept, char : IF IsSpace(content, char) THEN kept ELSE Append(kept, char),
             <<>>, text)

\* The visible text of the document is in the chunks, in order and once, whatever is trimmed and
\* wherever it is cut.
NothingLost ==
    rows # NoRows =>
        FoldLeft(LAMBDA text, row : text \o VisibleChars(row.content), <<>>, rows)
            = VisibleChars(Join(content, [i \in DOMAIN content.lines |-> i]))

\* No chunk is longer than the limit, every heading starts a chunk, and any other cut is
\* behind a full chunk: sections are neither mixed nor cut without need. Only a byte order
\* mark hides a heading, in the first line.
ChunksWellCut ==
    LET headings == {i \in DOMAIN content.lines :
                        /\ content.lines[i].prefix = "heading"
                        /\ i > 1 \/ ~content.bom}
        starts == {At(i, 1) : i \in headings}
    IN  \A j \in (IF rows = NoRows THEN {} ELSE DOMAIN rows) :
            LET text == rows[j].content IN
            /\ Len(text) <= MaxChars
            /\ \A k \in 2..Len(text) : text[k] \notin starts
            /\ j > 1 => Len(rows[j - 1].content) = MaxChars \/ text[1] \in starts

\* A file disappears from chunks_current if it has no text, and only then. A file with
\* nothing but a byte order mark counts as text.
TombstoneExact ==
    rows # NoRows =>
        ((\E j \in DOMAIN rows : rows[j].is_deleted) <=> Visible(content) = {} /\ ~content.bom)

\* The title that dates all the rows leads the text: it starts the first chunk, or the
\* second one if the first holds a byte order mark and blank lines.
TitleLeads ==
    \A j \in (IF rows = NoRows THEN {} ELSE DOMAIN rows) :
        rows[j].label # NoLabel =>
            \E i \in DOMAIN content.lines :
                /\ content.lines[i].title = rows[j].label
                /\ LET lead == VisibleChars(rows[1].content) IN
                   \/ lead[1] = At(i, 1)
                   \/ lead[1] = Mark /\ Len(lead) > 1 /\ lead[2] = At(i, 1)
                   \/ lead = <<Mark>> /\ rows[2].content[1] = At(i, 1)

\* Under the policy of the run, every day of the month of the title of any row belongs to
\* exactly one title: the periods of all documents neither overlap nor leave a week out.
\* The period in the row has those days that belong to its own title.
DaysDated ==
    \A j \in (IF rows = NoRows \/ from = NoMonth THEN {} ELSE DOMAIN rows) :
        rows[j].label # NoLabel =>
            LET month == rows[j].label.month
                period == rows[j].period
            IN  \A day \in FirstDay(month) .. FirstDay(month + 1) - 1 :
                    from <= month /\ Ruled(from, day) =>
                        /\ OwnedOnce(from, month, day)
                        /\ Owns(from, rows[j].label, day)
                            <=> /\ period # NoPeriod
                                /\ period.start <= day /\ day <= period.end

-----------------------------------------------------------------------------
(* The inductive invariant *)

\* The document is made of an author's lines.
Document ==
    /\ content \in [bom : BOOLEAN, lines : Seq(Lines)]
    /\ Len(content.lines) \in 1..MaxLines

\* The rows are those of this document, under the policy of the run that made them.
Current ==
    /\ from \in Policies \cup {NoMonth}
    /\ rows # NoRows => rows = RowsOf(from)

IInv == Document /\ Current

=============================================================================
