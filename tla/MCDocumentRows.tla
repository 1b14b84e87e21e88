--------------------------- MODULE MCDocumentRows ---------------------------
(* DocumentRows with chunks of four characters and the Gregorian calendar. *)
EXTENDS DocumentRows

MonthOf(year, month) == 12 * year + month - 1
MCEarliest == MonthOf(1, 1)
MCBeyond == MonthOf(10000, 1)

DaysBefore == <<0, 31, 59, 90, 120, 151, 181, 212, 243, 273, 304, 334>>
MCFirstDay(index) ==
    LET year == index \div 12
        month == (index % 12) + 1
        past == year - 1
        leap == year % 4 = 0 /\ (year % 100 # 0 \/ year % 400 = 0)
    IN  1 + 365 * past + past \div 4 - past \div 100 + past \div 400
          + DaysBefore[month] + (IF leap /\ month > 2 THEN 1 ELSE 0)

\* A month that starts on a Monday and has no fifth one, the two before and after a turn
\* of the year, one with five Mondays, a leap February and the last month.
Title(year, month, sequence) == [month |-> MonthOf(year, month), sequence |-> sequence]
Titles ==
    {Title(2021, 2, 1), Title(2026, 11, 5), Title(2026, 12, 4), Title(2027, 1, 6),
     Title(2028, 2, 1), Title(9999, 12, 4)}

Line(indent, chars, prefix, title) ==
    [indent |-> indent, chars |-> chars, prefix |-> prefix, title |-> title]

\* Blank lines, text, an indented title, a long line, a tag, a heading, titles.
MCLines ==
    {Line(i, 0, "text", NoLabel) : i \in 0..1}
        \cup {Line(0, 1, "text", NoLabel), Line(1, 4, "text", NoLabel),
              Line(0, 7, "text", NoLabel), Line(0, 2, "tag", NoLabel),
              Line(0, 3, "heading", NoLabel)}
        \cup {Line(0, 5, "heading", title) : title \in Titles}

MCPolicies == {NoMonth, MonthOf(2021, 2), MonthOf(2026, 12)}

=============================================================================
