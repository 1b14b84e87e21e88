------------------------- MODULE DocumentRowsProofs -------------------------
(***************************************************************************)
(* The sprints of consecutive months fit together, for every calendar whose *)
(* months have 28 to 31 days, and so do the dates of the rows that a worker *)
(* makes of a document, whatever its author writes. The rows hold what the  *)
(* lemmas of MarkdownParserProofs say of the chunks.                        *)
(***************************************************************************)
EXTENDS MarkdownParserProofs

\* Weeks and days of the week.
LEMMA Weeks ==
    ASSUME NEW day \in Nat
    PROVE  day % 7 \in 0..6 /\ day \div 7 \in Nat /\ day = 7 * (day \div 7) + (day % 7)
OBVIOUS

\* What the provers need to know of months.
LEMMA MonthFacts ==
    ASSUME NEW month \in Months
    PROVE  /\ month \in Nat /\ (month - 1) + 1 = month
           /\ FirstDay(month) \in Nat /\ FirstDay(month + 1) \in Nat
           /\ FirstDay(Beyond) \in Nat
           /\ FirstDay(month + 1) - FirstDay(month) \in 28..31
<1>1. month \in Nat /\ month + 1 \in Months \cup {Beyond}
  BY CalendarAssumption DEF Months
<1>2. (month - 1) + 1 = month
  BY <1>1
<1> QED BY <1>1, <1>2, CalendarAssumption

\* The first Monday is a Monday, and one of the first seven days.
LEMMA FirstMondayFacts ==
    ASSUME NEW month \in Months
    PROVE  /\ FirstMonday(month) \in Nat
           /\ FirstMonday(month) % 7 = Monday
           /\ FirstMonday(month) \in FirstDay(month) .. FirstDay(month) + 6
<1> DEFINE first == FirstDay(month)
           day == first % 7
           offset == (Monday - day + 7) % 7
<1>1. first \in Nat
  BY CalendarAssumption
<1>2. day \in 0..6 /\ first = 7 * (first \div 7) + day /\ first \div 7 \in Nat
  BY <1>1, Weeks
<1>3. offset = IF day <= 1 THEN 1 - day ELSE 8 - day
  BY <1>2 DEF Monday
<1>4. FirstMonday(month) = first + offset
  BY DEF FirstMonday, Weekday
<1>5. ((first + offset) % 7) = 1
  <2>1. CASE day <= 1
    <3>1. first + offset = 7 * (first \div 7) + 1
      BY <1>2, <1>3, <2>1
    <3> QED BY <1>2, <3>1
  <2>2. CASE day > 1
    <3>1. first + offset = 7 * (first \div 7 + 1) + 1
      BY <1>2, <1>3, <2>2
    <3> QED BY <1>2, <3>1
  <2> QED BY <1>2, <2>1, <2>2
<1>6. offset \in 0..6
  BY <1>2, <1>3
<1> HIDE DEF offset
<1> QED BY <1>1, <1>4, <1>5, <1>6 DEF Monday

\* A fifth Monday of a month, if it exists, is followed by the first one of the next.
LEMMA NextFirstMonday ==
    ASSUME NEW month \in Months, month + 1 \in Months
    PROVE  FirstMonday(month + 1) - FirstMonday(month) \in {28, 35}
<1>1. FirstDay(month + 1) - FirstDay(month) \in 28..31
  BY CalendarAssumption
<1> QED BY <1>1, FirstMondayFacts, CalendarAssumption DEF Monday

\* A title that fits owns the seven days from its Monday.
LEMMA OwnsWeek ==
    ASSUME NEW policy \in Months, NEW month \in Months, NEW sequence \in 1..5, NEW day \in Nat
    PROVE  Owns(policy, [month |-> month, sequence |-> sequence], day) <=>
               LET start == FirstMonday(month) + 7 * (sequence - 1) IN
               /\ policy <= month
               /\ start < FirstDay(month + 1) /\ start + 6 < FirstDay(Beyond)
               /\ start <= day /\ day <= start + 6
<1> DEFINE label == [month |-> month, sequence |-> sequence]
           start == FirstMonday(month) + 7 * (sequence - 1)
<1>1. label \in Label /\ label # NoLabel /\ policy # NoMonth
  BY SprintAssumption, MonthFacts DEF Label
<1>2. start \in Nat
  BY FirstMondayFacts
<1>3. [start |-> start, end |-> start + 6] # NoPeriod
  BY <1>2, SprintAssumption
<1> QED BY <1>1, <1>2, <1>3 DEF Owns, Period, Fits, Start, End

\* Every day from the first Monday of the rule on, up to the last whole week of the year
\* 9999, belongs to exactly one title: weeks that span two months or two years belong to
\* the month of their Monday, no day is in two sprints, and none is left out where a
\* month has no fifth Monday.
THEOREM EveryDayOwnedOnce ==
    ASSUME NEW policy \in Months, NEW month \in Months, policy <= month, NEW day \in Nat,
           FirstDay(month) <= day, day < FirstDay(month + 1), Ruled(policy, day)
    PROVE  OwnedOnce(policy, month, day)
<1> DEFINE first == FirstMonday(month)
           Title(m, s) == [month |-> m, sequence |-> s]
<1>1. /\ first \in Nat /\ first \in FirstDay(month) .. FirstDay(month) + 6
      /\ FirstDay(month) \in Nat
      /\ FirstDay(month + 1) - FirstDay(month) \in 28..31
      /\ FirstDay(Beyond) \in Nat /\ day + 7 <= FirstDay(Beyond)
  BY FirstMondayFacts, MonthFacts DEF Ruled
<1>2. \A label \in Near(month) : \E s \in 1..5 :
          \/ label = Title(month, s)
          \/ month - 1 \in Months /\ label = Title(month - 1, s)
  BY DEF Near
<1>3. \A s \in 1..5 : Title(month, s) \in Near(month)
                      /\ (month - 1 \in Months => Title(month - 1, s) \in Near(month))
  BY MonthFacts DEF Near
<1>4. \A s \in 1..5 : Owns(policy, Title(month, s), day) <=>
          first + 7 * (s - 1) <= day /\ day <= first + 7 * (s - 1) + 6
  <2> TAKE s \in 1..5
  <2> DEFINE start == first + 7 * (s - 1)
  <2>1. ASSUME start <= day /\ day <= start + 6
        PROVE  start < FirstDay(month + 1) /\ start + 6 < FirstDay(Beyond)
    BY <1>1, <2>1, MonthFacts
  <2> QED BY <2>1, OwnsWeek, MonthFacts
<1>5. ASSUME month - 1 \in Months
      PROVE  /\ first - FirstMonday(month - 1) \in {28, 35}
             /\ FirstMonday(month - 1) \in Nat
             /\ \A s \in 1..5 : Owns(policy, Title(month - 1, s), day) =>
                   /\ FirstMonday(month - 1) + 7 * (s - 1) < FirstDay(month)
                   /\ day <= FirstMonday(month - 1) + 7 * (s - 1) + 6
  <2>1. (month - 1) + 1 = month
    BY MonthFacts
  <2> QED BY <1>5, <2>1, NextFirstMonday, FirstMondayFacts, OwnsWeek
<1>6. CASE first <= day
  <2> DEFINE n == (day - first) \div 7
             s == n + 1
  <2>1. day - first \in 0..30
    BY <1>1, <1>6, MonthFacts
  <2>2. n \in 0..4 /\ 7 * n <= day - first /\ day - first <= 7 * n + 6
    <3>1. day - first \in Nat
      BY <2>1
    <3> QED BY <2>1, <3>1, Weeks
  <2> HIDE DEF n
  <2>3. s \in 1..5 /\ Owns(policy, Title(month, s), day)
    BY <1>1, <1>4, <2>2
  <2>4. \A t \in 1..5 : Owns(policy, Title(month, t), day) => t = s
    BY <1>1, <1>4, <2>2
  <2>5. month - 1 \in Months => \A t \in 1..5 : ~Owns(policy, Title(month - 1, t), day)
    BY <1>1, <1>5, <1>6
  <2>6. \A label \in Near(month) : Owns(policy, label, day) => label = Title(month, s)
    BY <1>2, <2>4, <2>5
  <2> QED BY <1>3, <2>3, <2>6 DEF OwnedOnce
<1>7. CASE day < first
  <2>1. policy <= month - 1 /\ month - 1 \in Months /\ (month - 1) + 1 = month
    <3>1. policy # month
      BY <1>1, <1>7 DEF Ruled
    <3>2. policy \in Nat /\ month \in Nat /\ policy <= month - 1
      BY <3>1, MonthFacts
    <3>3. month - 1 \in Months
      BY <3>2, CalendarAssumption DEF Months
    <3> QED BY <3>2, <3>3, MonthFacts
  <2>2. PICK s \in {4, 5} : first = FirstMonday(month - 1) + 7 * s
    BY <1>1, <1>5, <2>1
  <2>3. Owns(policy, Title(month - 1, s), day)
    <3>1. s \in 1..5
      BY <2>2
    <3>2. FirstMonday(month - 1) + 7 * (s - 1) = first - 7
      BY <1>1, <1>5, <2>1, <2>2
    <3>3. /\ first - 7 < FirstDay(month) /\ first - 7 + 6 < FirstDay(Beyond)
          /\ first - 7 <= day /\ day <= first - 7 + 6
      BY <1>1, <1>7
    <3> QED BY <2>1, <3>1, <3>2, <3>3, OwnsWeek
  <2>4. \A t \in 1..5 : ~Owns(policy, Title(month, t), day)
    BY <1>1, <1>4, <1>7
  <2>5. \A t \in 1..5 : Owns(policy, Title(month - 1, t), day) => t = s
    BY <1>1, <1>5, <2>1, <2>2
  <2>6. \A label \in Near(month) : Owns(policy, label, day) => label = Title(month - 1, s)
    BY <1>2, <2>4, <2>5
  <2> QED BY <1>3, <2>1, <2>2, <2>3, <2>6 DEF OwnedOnce
<1> QED BY <1>1, <1>6, <1>7

-----------------------------------------------------------------------------
(* Sprints of months that are far apart *)

\* Months have at least 28 days, so later ones start later.
LEMMA MonthsInOrder ==
    ASSUME NEW month \in Months, NEW later \in Months \cup {Beyond}, month < later
    PROVE  FirstDay(month) + 28 <= FirstDay(later)
<1> DEFINE Wrong == {m \in Nat : /\ m \in Months \cup {Beyond} /\ month < m
                                 /\ ~(FirstDay(month) + 28 <= FirstDay(m))}
<1> SUFFICES ASSUME Wrong # {} PROVE FALSE
  BY CalendarAssumption DEF Months
<1>1. PICK m \in Wrong : \A y \in Wrong : m <= y
  BY LeastElement
<1>2. m - 1 \in Months /\ m \in Nat /\ month <= m - 1 /\ (m - 1) + 1 = m
  BY <1>1, CalendarAssumption DEF Months
<1>3. /\ FirstDay(month) \in Nat /\ FirstDay(m - 1) \in Nat /\ FirstDay(m) \in Nat
      /\ FirstDay(m - 1) + 28 <= FirstDay(m)
  <2>1. FirstDay((m - 1) + 1) - FirstDay(m - 1) \in 28..31
    BY <1>2, MonthFacts
  <2> QED BY <1>2, <2>1, MonthFacts
<1>4. month # m - 1
  BY <1>1, <1>3
<1>5. m - 1 \in Wrong
  <2>1. ~(FirstDay(month) + 28 <= FirstDay(m))
    BY <1>1
  <2>2. ~(FirstDay(month) + 28 <= FirstDay(m - 1))
    BY <1>3, <2>1
  <2>3. month < m - 1 /\ m - 1 \in Nat
    BY <1>2, <1>4, CalendarAssumption DEF Months
  <2> QED BY <1>2, <2>2, <2>3
<1> QED BY <1>1, <1>2, <1>5

\* A title owns days of its month and of the next one only.
LEMMA OwnsNear ==
    ASSUME NEW policy \in Months, NEW label \in Label, NEW month \in Months, NEW day \in Nat,
           FirstDay(month) <= day, day < FirstDay(month + 1), Owns(policy, label, day)
    PROVE  label \in Near(month)
<1>1. label.month \in Months /\ label.sequence \in 1..5
  BY DEF Owns, Period, Label
<1>2. label = [month |-> label.month, sequence |-> label.sequence]
  BY DEF Label
<1> DEFINE m == label.month
           start == FirstMonday(m) + 7 * (label.sequence - 1)
<1>3. start < FirstDay(m + 1) /\ start <= day /\ day <= start + 6
  BY <1>1, <1>2, OwnsWeek
<1>4. /\ m \in Nat /\ month \in Nat /\ FirstDay(m) \in Nat /\ FirstDay(m + 1) \in Nat
      /\ FirstDay(month) \in Nat /\ FirstDay(month + 1) \in Nat
      /\ m + 1 \in Months \cup {Beyond} /\ FirstMonday(m) \in Nat
      /\ FirstDay(m) <= FirstMonday(m)
  BY <1>1, MonthFacts, FirstMondayFacts, CalendarAssumption DEF Months
<1>5. FirstDay(m) <= start /\ start \in Nat
  BY <1>1, <1>4
<1>6. m <= month
  <2> SUFFICES ASSUME month < m PROVE FALSE
    BY <1>4
  <2>1. FirstDay(month + 1) <= FirstDay(m)
    <3>1. CASE month + 1 = m
      BY <1>4, <3>1
    <3>2. CASE month + 1 # m
      <4>1. month + 1 < m /\ month + 1 \in Months
        BY <1>1, <1>4, <3>2, CalendarAssumption DEF Months
      <4> QED BY <1>1, <1>4, <4>1, MonthsInOrder
    <3> QED BY <3>1, <3>2
  <2> QED BY <1>3, <1>4, <1>5, <2>1
<1>7. month - 1 <= m
  <2> SUFFICES ASSUME m < month - 1 PROVE FALSE
    BY <1>4
  <2>1. m + 1 < month /\ m + 1 \in Months
    BY <1>1, <1>4, CalendarAssumption DEF Months
  <2>2. FirstDay(m + 1) + 28 <= FirstDay(month)
    BY <2>1, MonthsInOrder
  <2> QED BY <1>3, <1>4, <1>5, <2>2
<1>8. m \in {month - 1, month} \cap Months
  BY <1>1, <1>4, <1>6, <1>7
<1> QED BY <1>1, <1>2, <1>8 DEF Near

\* So a day has exactly one title of all that can be written, whatever its month and its
\* number: no sprint of any other month or year reaches it.
THEOREM EveryDayHasOneTitle ==
    ASSUME NEW policy \in Months, NEW month \in Months, policy <= month, NEW day \in Nat,
           FirstDay(month) <= day, day < FirstDay(month + 1), Ruled(policy, day)
    PROVE  \E label \in Label :
              /\ Owns(policy, label, day)
              /\ \A other \in Label : Owns(policy, other, day) => other = label
<1>1. PICK label \in Near(month) :
         /\ Owns(policy, label, day)
         /\ \A other \in Near(month) : Owns(policy, other, day) => other = label
  BY EveryDayOwnedOnce DEF OwnedOnce
<1>2. label \in Label
  BY DEF Near, Label
<1>3. ASSUME NEW other \in Label, Owns(policy, other, day) PROVE other = label
  BY <1>1, <1>3, OwnsNear
<1> QED BY <1>1, <1>2, <1>3

-----------------------------------------------------------------------------
(* The rows of a document *)

\* The visible characters of rows are those of the chunks in them.
LEMMA RowsVisible ==
    ASSUME NEW chunks \in Seq(Texts), NEW made, DOMAIN made = DOMAIN chunks,
           \A j \in DOMAIN chunks : made[j].content = chunks[j]
    PROVE  FoldLeft(LAMBDA text, row : text \o VisibleChars(row.content), <<>>, made)
               = AllVisible(chunks)
<1> DEFINE op == [p \in Texts \X Texts |-> p[1] \o VisibleChars(p[2])]
           More(t, u) == t \o VisibleChars(u.content)
           Fixed(g) == g = [s \in SUBSET (DOMAIN made) |->
                               IF s = {} THEN <<>>
                               ELSE More(g[s \ {Max(s)}], made[Max(s)])]
           chosen == CHOOSE g : Fixed(g)
<1>1. \A k \in DOMAIN chunks : chunks[k] \in Texts
  OBVIOUS
<1>2. <<>> \in Texts /\ \A t \in Texts, u \in Texts : t \o VisibleChars(u) \in Texts
  <2>1. ASSUME NEW t \in Texts, NEW u \in Texts PROVE t \o VisibleChars(u) \in Texts
    BY VisibleFacts DEF Texts
  <2> QED BY <2>1 DEF Texts
<1>3. Combines(Texts, Texts, op)
  BY <1>2 DEF Combines
<1>4. \A t \in Texts, k \in DOMAIN chunks : op[<<t, chunks[k]>>] = More(t, made[k])
  BY <1>1
<1>5. FoldLeft(LAMBDA text, row : text \o VisibleChars(row.content), <<>>, made)
          = chosen[DOMAIN made]
  BY DEF FoldLeft, MapThenFoldSet
<1>6. AllVisible(chunks) = Fold(Texts, op, <<>>, chunks)
  BY DEF AllVisible
<1> HIDE DEF op, More
<1>7. PICK g : Unfolding(Texts, op, <<>>, chunks, g)
  BY <1>1, <1>2, <1>3, UnfoldsExists
<1>8. \A s \in SUBSET (DOMAIN chunks) : s # {} => Max(s) \in DOMAIN chunks
  BY <1>7 DEF Unfolding
<1>9. Fixed(g)
  <2>1. g \in [SUBSET (DOMAIN chunks) -> Texts] /\ g[{}] = <<>>
    BY <1>7 DEF Unfolding
  <2>2. ASSUME NEW s \in SUBSET (DOMAIN chunks), s # {}
        PROVE  g[s] = More(g[s \ {Max(s)}], made[Max(s)])
    <3>1. s \ {Max(s)} \in SUBSET (DOMAIN chunks) /\ Max(s) \in DOMAIN chunks
      BY <1>8, <2>2
    <3>2. g[s \ {Max(s)}] \in Texts
      BY <2>1, <3>1
    <3>3. g[s] = op[<<g[s \ {Max(s)}], chunks[Max(s)]>>]
      BY <1>7, <2>2 DEF Unfolding
    <3> QED BY <1>4, <3>1, <3>2, <3>3
  <2> QED BY <2>1, <2>2
<1>10. Fixed(chosen)
  BY <1>9
<1> HIDE DEF chosen
<1>11. Unfolds(Texts, op, <<>>, chunks, chosen)
  <2>1. chosen[{}] = <<>>
    BY <1>10
  <2>2. ASSUME NEW s \in SUBSET (DOMAIN chunks), s # {}, chosen[s \ {Max(s)}] \in Texts
        PROVE  chosen[s] = op[<<chosen[s \ {Max(s)}], chunks[Max(s)]>>]
    <3>1. Max(s) \in DOMAIN chunks
      BY <1>8, <2>2
    <3>2. chosen[s] = More(chosen[s \ {Max(s)}], made[Max(s)])
      BY <1>10, <2>2
    <3> QED BY <1>4, <2>2, <3>1, <3>2
  <2> QED BY <2>1, <2>2 DEF Unfolds
<1>12. chosen[DOMAIN chunks] = Fold(Texts, op, <<>>, chunks)
  BY <1>1, <1>2, <1>3, <1>11, FoldFacts
<1> QED BY <1>5, <1>6, <1>12

\* What the rows of the document are.
LEMMA RowsShape ==
    ASSUME Document, NEW policy
    PROVE  LET made == RowsOf(policy)
               chunks == Parse(content)
           IN /\ chunks \in Seq(Texts)
              /\ chunks # <<>> =>
                    /\ DOMAIN made = 1..Len(chunks)
                    /\ \A j \in 1..Len(chunks) :
                          /\ made[j].content = chunks[j] /\ made[j].is_deleted = FALSE
                          /\ made[j].label = ExtractRetroLabel(content)
              /\ chunks = <<>> =>
                    /\ DOMAIN made = {1} /\ made[1].content = <<>> /\ made[1].is_deleted = TRUE
                    /\ made[1].label = NoLabel
<1> DEFINE chunks == Parse(content)
           label == ExtractRetroLabel(content)
<1>1. chunks \in Seq(Texts)
  <2>1. SplitSections(content) \in Seq(Texts)
    BY SectionsGood DEF GoodSections
  <2> QED BY <2>1, ParseCuts, CutAllFacts
<1> HIDE DEF chunks, label
<1>2. ASSUME chunks = <<>>
      PROVE  RowsOf(policy) = <<[chunk_index |-> 0, content |-> <<>>, is_deleted |-> TRUE,
                                 label |-> NoLabel, period |-> NoPeriod]>>
  BY <1>2 DEF RowsOf, chunks
<1>3. ASSUME chunks # <<>>
      PROVE  RowsOf(policy) = [i \in DOMAIN chunks |->
                 [chunk_index |-> i - 1, content |-> chunks[i], is_deleted |-> FALSE,
                  label |-> label, period |-> Period(policy, label)]]
  BY <1>3 DEF RowsOf, chunks, label
<1>4. DOMAIN chunks = 1..Len(chunks)
  BY <1>1
<1>5. ASSUME chunks = <<>>
      PROVE  /\ DOMAIN RowsOf(policy) = {1} /\ RowsOf(policy)[1].content = <<>>
             /\ RowsOf(policy)[1].is_deleted = TRUE /\ RowsOf(policy)[1].label = NoLabel
  BY <1>2, <1>5
<1>6. ASSUME chunks # <<>>
      PROVE  /\ DOMAIN RowsOf(policy) = 1..Len(chunks)
             /\ \A j \in 1..Len(chunks) :
                   /\ RowsOf(policy)[j].content = chunks[j]
                   /\ RowsOf(policy)[j].is_deleted = FALSE
                   /\ RowsOf(policy)[j].label = label
  BY <1>3, <1>4, <1>6
<1> QED BY <1>1, <1>5, <1>6 DEF chunks, label

\* The lines of the document, one after the other.
LEMMA AllLines ==
    ASSUME Document
    PROVE  Join(content, [i \in DOMAIN content.lines |-> i]) = Between(1, Len(content.lines))
<1>1. DOMAIN content.lines = 1..(Len(content.lines) - 1 + 1) /\ Len(content.lines) \in Nat
  BY LineFacts DEF Numbers
<1>2. \A i \in DOMAIN content.lines : 1 + i - 1 = i
  BY <1>1
<1>3. [i \in DOMAIN content.lines |-> i] = Run(1, Len(content.lines))
  BY <1>1, <1>2 DEF Run
<1> QED BY <1>3 DEF Between

\* The text of the rows is the text of the chunks, and the tombstone of an empty document has none.
LEMMA KeptInRows == IInv => NothingLost
<1> SUFFICES ASSUME Document, rows = RowsOf(from)
    PROVE FoldLeft(LAMBDA text, row : text \o VisibleChars(row.content), <<>>, rows)
            = VisibleChars(Join(content, [i \in DOMAIN content.lines |-> i]))
  BY DEF IInv, Current, NothingLost
<1> DEFINE chunks == Parse(content)
           end == VisibleChars(Between(1, Len(content.lines)))
<1>1. VisibleChars(Join(content, [i \in DOMAIN content.lines |-> i])) = end
  BY AllLines
<1>2. AllVisible(chunks) = end
  BY ChunksKeep
<1>3. CASE chunks # <<>>
  <2>1. chunks \in Seq(Texts) /\ DOMAIN rows = DOMAIN chunks
        /\ \A j \in DOMAIN chunks : rows[j].content = chunks[j]
    <3>1. /\ chunks \in Seq(Texts) /\ DOMAIN rows = 1..Len(chunks)
          /\ \A j \in 1..Len(chunks) : rows[j].content = chunks[j]
      BY <1>3, RowsShape
    <3> HIDE DEF chunks
    <3>2. DOMAIN chunks = 1..Len(chunks)
      BY <3>1
    <3> QED BY <3>1, <3>2
  <2> HIDE DEF chunks
  <2>2. FoldLeft(LAMBDA text, row : text \o VisibleChars(row.content), <<>>, rows)
            = AllVisible(chunks)
    BY <2>1, RowsVisible
  <2> QED BY <1>1, <1>2, <2>2
<1>4. CASE chunks = <<>>
  <2> DEFINE none == <<<<>>>>
  <2>1. DOMAIN rows = {1} /\ rows[1].content = <<>>
    BY <1>4, RowsShape
  <2>2. none \in Seq(Texts) /\ DOMAIN none = {1} /\ none[1] = <<>>
        /\ none = Append(<<>>, <<>>) /\ <<>> \in Texts /\ <<>> \in Seq(Texts)
    BY DEF Texts
  <2> HIDE DEF none
  <2>3. \A j \in DOMAIN none : rows[j].content = none[j]
    BY <2>1, <2>2
  <2>4. FoldLeft(LAMBDA text, row : text \o VisibleChars(row.content), <<>>, rows)
            = AllVisible(none)
    BY <2>1, <2>2, <2>3, RowsVisible
  <2>5. AllVisible(none) = AllVisible(<<>>) \o VisibleChars(<<>>)
    BY <2>2, AllVisibleFacts
  <2>6. AllVisible(none) = <<>> /\ AllVisible(<<>>) = <<>>
    BY <2>5, AllVisibleFacts, VisibleFacts
  <2> QED BY <1>1, <1>2, <1>4, <2>4, <2>6
<1> QED BY <1>3, <1>4

\* What is seen of a whole document.
LEMMA FirstVisible ==
    ASSUME Document
    PROVE  LET seen == VisibleChars(Between(1, Len(content.lines))) IN
           /\ Visible(content) = {} => seen = BomText
           /\ Visible(content) # {} =>
                 /\ Min(Visible(content)) \in Numbers
                 /\ VisibleChars(Body(Min(Visible(content)))) # <<>>
                 /\ \E u \in Texts :
                       seen = (BomText \o VisibleChars(Body(Min(Visible(content))))) \o u
<1> DEFINE n == Len(content.lines)
<1>1. n \in Nat \ {0} /\ Numbers = 1..n /\ n \in Numbers /\ n + 1 \in Nat \ {0} /\ n < n + 1
  BY LineFacts
<1>2. ASSUME NEW i \in Numbers
      PROVE  /\ content.lines[i].chars \in Nat
             /\ i \in Visible(content) <=> content.lines[i].chars # 0
  <2>1. content.lines[i].chars \in Nat
    BY LineFacts
  <2> QED BY <2>1 DEF Visible, Numbers
<1> HIDE DEF n
<1>3. ASSUME Visible(content) = {} PROVE VisibleChars(Between(1, n)) = BomText
  <2>1. \A i \in Numbers : i < n + 1 => content.lines[i].chars = 0
    BY <1>2, <1>3
  <2>2. \A k \in Numbers : k < n + 1 => VisibleChars(Between(1, k)) = BomText
    BY <1>1, <2>1, Lead
  <2> QED BY <1>1, <2>2
<1>4. ASSUME Visible(content) # {}
      PROVE  /\ Min(Visible(content)) \in Numbers
             /\ VisibleChars(Body(Min(Visible(content)))) # <<>>
             /\ \E u \in Texts : VisibleChars(Between(1, n))
                                    = (BomText \o VisibleChars(Body(Min(Visible(content))))) \o u
  <2> DEFINE i == Min(Visible(content))
  <2>1. Visible(content) \subseteq Numbers /\ Numbers \subseteq Nat
    BY <1>1 DEF Visible, Numbers
  <2>2. i \in Visible(content) /\ \A j \in Visible(content) : i <= j
    BY <1>4, <2>1, SmallestElement
  <2> HIDE DEF i
  <2>3. i \in Numbers /\ i \in Nat \ {0} /\ i <= n
    BY <1>1, <2>1, <2>2
  <2>4. VisibleChars(Body(i)) # <<>>
    BY <1>2, <2>2, <2>3, LineVisible
  <2>5. \A j \in Numbers : j < i => content.lines[j].chars = 0
    <3> TAKE j \in Numbers
    <3> HAVE j < i
    <3>1. j \notin Visible(content)
      BY <1>1, <2>2, <2>3
    <3> QED BY <1>2, <3>1
  <2>6. \A k \in Numbers : i <= k /\ i \in Numbers =>
            \E u \in Texts : VisibleChars(Between(1, k)) = (BomText \o VisibleChars(Body(i))) \o u
    BY <2>3, <2>5, Lead
  <2>7. \E u \in Texts : VisibleChars(Between(1, n)) = (BomText \o VisibleChars(Body(i))) \o u
    BY <1>1, <2>3, <2>6
  <2> QED BY <2>3, <2>4, <2>7 DEF i
<1> QED BY <1>3, <1>4 DEF n

\* The title of a document is the first line that is not blank.
LEMMA TitleLine ==
    ASSUME Document, ExtractRetroLabel(content) # NoLabel
    PROVE  LET i == Min(Visible(content)) IN
           /\ i \in Numbers /\ content.lines[i].title = ExtractRetroLabel(content)
           /\ content.lines[i].prefix = "heading"
           /\ ExtractRetroLabel(content) \in Label
           /\ LET line == VisibleChars(Body(i)) IN
              /\ line \in Seq(Place) /\ Len(line) >= 1 /\ line[1] = At(i, 1)
              /\ \E u \in Texts : VisibleChars(Between(1, Len(content.lines)))
                                     = (BomText \o line) \o u
<1> DEFINE i == Min(Visible(content))
           line == VisibleChars(Body(i))
<1>1. Visible(content) # {} /\ content.lines[i].title = ExtractRetroLabel(content)
  BY DEF ExtractRetroLabel
<1>2. i \in Numbers /\ \E u \in Texts : VisibleChars(Between(1, Len(content.lines)))
                                           = (BomText \o line) \o u
  BY <1>1, FirstVisible
<1> HIDE DEF i
<1>3. content.lines[i] \in Lines /\ Body(i) \in Texts
  BY <1>2, LineFacts
<1>4. content.lines[i].prefix = "heading" /\ ExtractRetroLabel(content) \in Label
  BY <1>1, <1>3, RowsAssumption
<1>5. Len(Body(i)) >= 2 /\ Body(i)[1] = At(i, 1) /\ ~IsSpace(content, Body(i)[1])
  BY <1>2, <1>4, HeadingFacts
<1>6. Body(i) # <<>>
  <2>1. Len(<<>>) = 0
    OBVIOUS
  <2> QED BY <1>5, <2>1
<1>7. Len(line) >= 1 /\ line[1] = At(i, 1)
  BY <1>3, <1>5, <1>6, VisibleFirst
<1>8. line \in Seq(Place)
  BY <1>3, VisibleFacts DEF Texts
<1> QED BY <1>1, <1>2, <1>4, <1>7, <1>8 DEF i

\* There are no chunks if nothing is seen, neither a line nor a byte order mark.
LEMMA TombstoneOnly == IInv => TombstoneExact
<1> SUFFICES ASSUME Document, rows = RowsOf(from)
    PROVE  (\E j \in DOMAIN rows : rows[j].is_deleted) <=> Visible(content) = {} /\ ~content.bom
  BY DEF IInv, Current, TombstoneExact
<1> DEFINE chunks == Parse(content)
           seen == VisibleChars(Between(1, Len(content.lines)))
<1>1. (\E j \in DOMAIN rows : rows[j].is_deleted) <=> chunks = <<>>
  <2>1. CASE chunks = <<>>
    <3>1. 1 \in DOMAIN rows /\ rows[1].is_deleted = TRUE
      BY <2>1, RowsShape
    <3> QED BY <2>1, <3>1
  <2>2. CASE chunks # <<>>
    <3>1. \A j \in DOMAIN rows : rows[j].is_deleted = FALSE
      BY <2>2, RowsShape
    <3> QED BY <2>2, <3>1
  <2> QED BY <2>1, <2>2
<1>2. chunks = <<>> <=> seen = <<>>
  <2>1. CASE chunks = <<>>
    BY <2>1, ChunksKeep, AllVisibleFacts
  <2>2. CASE chunks # <<>>
    <3>1. Len(seen) >= Len(VisibleChars(chunks[1])) /\ Len(VisibleChars(chunks[1])) >= 1
          /\ VisibleChars(chunks[1]) \in Seq(Place)
      BY <2>2, SeenFirst
    <3> HIDE DEF seen, chunks
    <3>2. seen # <<>>
      <4> SUFFICES ASSUME seen = <<>> PROVE FALSE
        OBVIOUS
      <4>1. Len(seen) = 0
        OBVIOUS
      <4> QED BY <3>1, <4>1
    <3> QED BY <2>2, <3>2
  <2> QED BY <2>1, <2>2
<1>3. seen = <<>> <=> Visible(content) = {} /\ ~content.bom
  <2>1. BomText = <<>> <=> ~content.bom
    BY LineFacts DEF BomText
  <2>2. CASE Visible(content) = {}
    BY <2>1, <2>2, FirstVisible
  <2>3. CASE Visible(content) # {}
    <3> DEFINE line == VisibleChars(Body(Min(Visible(content))))
    <3>1. Min(Visible(content)) \in Numbers /\ line # <<>>
      BY <2>3, FirstVisible
    <3>2. PICK u \in Texts : seen = (BomText \o line) \o u
      BY <2>3, FirstVisible
    <3>3. BomText \in Seq(Place) /\ line \in Seq(Place) /\ u \in Seq(Place)
      BY <3>1, LineFacts, LineVisible DEF Texts
    <3> HIDE DEF line, seen
    <3>4. Len(line) >= 1
      BY <3>1, <3>3
    <3>5. Len(seen) >= 1
      BY <3>2, <3>3, <3>4
    <3>6. seen # <<>>
      <4> SUFFICES ASSUME seen = <<>> PROVE FALSE
        OBVIOUS
      <4>1. Len(seen) = 0
        OBVIOUS
      <4> QED BY <3>5, <4>1
    <3> QED BY <2>3, <3>6
  <2> QED BY <2>2, <2>3
<1> QED BY <1>1, <1>2, <1>3

\* The rows are cut as the chunks are.
LEMMA WellCutRows == IInv => ChunksWellCut
<1> DEFINE headings == {i \in DOMAIN content.lines :
                           /\ content.lines[i].prefix = "heading"
                           /\ i > 1 \/ ~content.bom}
           starts == {At(i, 1) : i \in headings}
<1> SUFFICES ASSUME Document, rows = RowsOf(from), NEW j \in DOMAIN rows
    PROVE  /\ Len(rows[j].content) <= MaxChars
           /\ \A k \in 2..Len(rows[j].content) : rows[j].content[k] \notin starts
           /\ j > 1 => Len(rows[j - 1].content) = MaxChars \/ rows[j].content[1] \in starts
  BY DEF IInv, Current, ChunksWellCut
<1>1. starts = Starts
  <2>1. \A i \in DOMAIN content.lines : (i > 1 \/ ~content.bom) <=> ~(content.bom /\ i = 1)
    BY LineFacts DEF Numbers
  <2>2. headings = {i \in Numbers : IsHeading(content, i)}
    BY <2>1 DEF Numbers, IsHeading
  <2> HIDE DEF headings
  <2> QED BY <2>2 DEF Starts
<1> HIDE DEF starts, headings
<1>2. MaxChars \in Nat \ {0}
  BY ParserAssumption
<1> DEFINE chunks == Parse(content)
<1>3. CASE chunks = <<>>
  <2>1. j = 1 /\ rows[j].content = <<>>
    BY <1>3, RowsShape
  <2>2. Len(<<>>) = 0
    OBVIOUS
  <2> QED BY <1>2, <2>1, <2>2
<1>4. CASE chunks # <<>>
  <2>1. /\ DOMAIN rows = 1..Len(chunks) /\ chunks \in Seq(Texts)
        /\ \A i \in 1..Len(chunks) : rows[i].content = chunks[i]
    BY <1>4, RowsShape
  <2>2. /\ Len(chunks[j]) \in 1..MaxChars
        /\ \A k \in 2..Len(chunks[j]) : chunks[j][k] \notin Starts
        /\ j > 1 => Len(chunks[j - 1]) = MaxChars \/ chunks[j][1] \in Starts
    BY <1>4, <2>1, ChunkFacts
  <2> HIDE DEF chunks
  <2>3. j > 1 => j - 1 \in 1..Len(chunks)
    BY <2>1
  <2>4. Len(chunks[j]) <= MaxChars
    BY <1>2, <2>2
  <2> QED BY <1>1, <2>1, <2>2, <2>3, <2>4
<1> QED BY <1>3, <1>4

\* Behind a byte order mark the title is the second character that is seen. If it is not in the
\* first chunk, the second one starts with it: a chunk that holds only the mark is either a
\* section of its own or, if chunks hold one character, the first piece of the title's section.
LEMMA TitleInFront == IInv => TitleLeads
<1> DEFINE lead == VisibleChars(rows[1].content)
<1> SUFFICES ASSUME Document, rows = RowsOf(from), NEW j \in DOMAIN rows,
                    rows[j].label # NoLabel
    PROVE  \E i \in DOMAIN content.lines :
              /\ content.lines[i].title = rows[j].label
              /\ \/ lead[1] = At(i, 1)
                 \/ lead[1] = Mark /\ Len(lead) > 1 /\ lead[2] = At(i, 1)
                 \/ lead = <<Mark>> /\ rows[2].content[1] = At(i, 1)
  BY DEF IInv, Current, TitleLeads
<1> DEFINE chunks == Parse(content)
           seen == VisibleChars(Between(1, Len(content.lines)))
           i == Min(Visible(content))
           line == VisibleChars(Body(i))
<1>1. chunks # <<>>
  <2> SUFFICES ASSUME chunks = <<>> PROVE FALSE
    OBVIOUS
  <2>1. j = 1 /\ rows[1].label = NoLabel
    BY RowsShape
  <2> QED BY <2>1
<1>2. /\ DOMAIN rows = 1..Len(chunks) /\ chunks \in Seq(Texts)
      /\ \A k \in 1..Len(chunks) : /\ rows[k].content = chunks[k]
                                   /\ rows[k].label = ExtractRetroLabel(content)
  BY <1>1, RowsShape
<1>3. ExtractRetroLabel(content) # NoLabel /\ rows[j].label = ExtractRetroLabel(content)
  BY <1>2
<1>4. /\ i \in Numbers /\ content.lines[i].title = rows[j].label
      /\ content.lines[i].prefix = "heading"
      /\ line \in Seq(Place) /\ Len(line) >= 1 /\ line[1] = At(i, 1)
      /\ \E u \in Texts : seen = (BomText \o line) \o u
  BY <1>3, TitleLine
<1>5. ~IsSpace(content, At(i, 1))
  BY <1>4, HeadingFacts
<1>6. 1 \in 1..Len(chunks) /\ rows[1].content = chunks[1] /\ chunks[1] \in Texts
      /\ Len(chunks[1]) \in 1..MaxChars
  BY <1>1, <1>2, ChunkFacts
<1>7. /\ lead \in Seq(Place) /\ Len(lead) >= 1 /\ lead[1] = chunks[1][1]
      /\ Len(seen) >= Len(lead) /\ \A k \in 1..Len(lead) : seen[k] = lead[k]
  BY <1>1, <1>6, SeenFirst
<1>8. AllVisible(chunks) = seen
  BY ChunksKeep
<1>9. PICK text : /\ Whole(text) /\ text[1] = chunks[1][1]
                  /\ \A k \in 1..Len(chunks[1]) : k \in 1..Len(text) /\ chunks[1][k] = text[k]
                  /\ \E u \in Texts : AllVisible(chunks) = VisibleChars(text) \o u
                  /\ Len(chunks) >= 2 =>
                        \/ chunks[2][1] \in Starts
                        \/ /\ Len(chunks[1]) = MaxChars /\ MaxChars + 1 \in 1..Len(text)
                           /\ chunks[2][1] = text[MaxChars + 1]
  BY <1>1, ChunkFacts
<1>10. ~IsSpace(content, chunks[1][1])
  BY <1>1, ChunkFacts
<1>11. Len(chunks) >= 2 => chunks[2] \in Texts /\ chunks[2] # <<>>
  <2> SUFFICES ASSUME Len(chunks) >= 2 PROVE chunks[2] \in Texts /\ chunks[2] # <<>>
    OBVIOUS
  <2>1. 2 \in 1..Len(chunks)
    BY <1>2
  <2>2. chunks[2] \in Texts /\ Len(chunks[2]) \in 1..MaxChars
    BY <1>1, <2>1, ChunkFacts
  <2>3. Len(<<>>) = 0 /\ MaxChars \in Nat
    BY ParserAssumption
  <2> QED BY <2>2, <2>3
<1>12. i \in DOMAIN content.lines
  BY <1>4 DEF Numbers
<1> HIDE DEF chunks, seen, i, line, lead
<1>13. PICK u \in Texts : seen = (BomText \o line) \o u
  BY <1>4
<1>14. u \in Seq(Place)
  BY DEF Texts
<1>15. CASE ~content.bom
  <2>1. BomText = <<>>
    BY <1>15 DEF BomText
  <2>2. seen[1] = line[1]
    <3>1. (<<>> \o line) = line
      BY <1>4, ConcatEmptySeq
    <3>2. seen = line \o u
      BY <1>13, <2>1, <3>1
    <3> QED BY <1>4, <1>14, <3>2
  <2>3. lead[1] = At(i, 1)
    BY <1>4, <1>7, <2>2
  <2> QED BY <1>4, <1>12, <2>3
<1>16. CASE content.bom
  <2>1. BomText = <<Mark>> /\ Mark \in Place
    BY <1>16 DEF BomText, Mark, At, Place
  <2>2. Len(seen) >= 2 /\ seen[1] = Mark /\ seen[2] = At(i, 1)
    <3>1. (<<Mark>> \o line) \in Seq(Place) /\ Len(<<Mark>> \o line) >= 2
          /\ (<<Mark>> \o line)[1] = Mark /\ (<<Mark>> \o line)[2] = line[1]
      BY <1>4, <2>1
    <3> DEFINE front == <<Mark>> \o line
    <3>2. seen = front \o u
      BY <1>13, <2>1
    <3> HIDE DEF front
    <3>3. front \in Seq(Place) /\ Len(front) >= 2 /\ front[1] = Mark /\ front[2] = line[1]
      BY <3>1 DEF front
    <3>4. Len(seen) >= 2 /\ seen[1] = front[1] /\ seen[2] = front[2]
      BY <1>14, <3>2, <3>3
    <3> QED BY <1>4, <3>3, <3>4
  <2>3. lead[1] = Mark
    BY <1>7, <2>2
  <2>4. CASE Len(lead) > 1
    <3>1. lead[2] = At(i, 1)
      BY <1>7, <2>2, <2>4
    <3> QED BY <1>4, <1>12, <2>3, <2>4, <3>1
  <2>5. CASE Len(lead) <= 1
    <3>1. Len(lead) = 1 /\ lead = <<Mark>>
      <4> DEFINE n == Len(lead)
      <4>1. n \in Nat /\ n >= 1 /\ n <= 1
        BY <1>7, <2>5
      <4> HIDE DEF n
      <4>2. n = 1
        BY <4>1
      <4>3. lead \in Seq(Place) /\ Len(lead) = 1
        BY <1>7, <4>2 DEF n
      <4> QED BY <2>3, <4>3
    <3>2. Len(chunks) >= 2
      <4> DEFINE n == Len(chunks)
      <4>3. n \in Nat /\ 1 <= n
        BY <1>2, <1>6
      <4> HIDE DEF n
      <4>4. n = 1 \/ n >= 2
        BY <4>3
      <4> SUFFICES ASSUME Len(chunks) = 1 PROVE FALSE
        BY <4>4 DEF n
      <4>1. AllVisible(chunks) = VisibleChars(chunks[1])
        BY <1>2, FirstTexts
      <4>2. seen = lead
        BY <1>6, <1>8, <4>1 DEF lead
      <4> QED BY <2>2, <3>1, <4>2
    <3>3. chunks[2][1] = At(i, 1)
      <4>1. CASE chunks[2][1] \in Starts
        <5> DEFINE second == VisibleChars(chunks[2])
        <5>1. ~IsSpace(content, chunks[2][1])
          BY <4>1, StartVisible
        <5>2. Len(second) >= 1 /\ second[1] = chunks[2][1]
          BY <1>11, <3>2, <5>1, VisibleFirst
        <5>3. second \in Seq(Place)
          BY <1>11, <3>2, VisibleFacts DEF Texts
        <5>4. PICK w \in Texts : AllVisible(chunks) = (VisibleChars(chunks[1]) \o second) \o w
          BY <1>2, <3>2, FirstTexts
        <5>5. seen = (<<Mark>> \o second) \o w
          BY <1>6, <1>8, <3>1, <5>4 DEF lead
        <5>6. w \in Seq(Place)
          BY DEF Texts
        <5> HIDE DEF second
        <5> DEFINE front == <<Mark>> \o second
        <5>7. front \in Seq(Place) /\ Len(front) >= 2 /\ front[2] = second[1]
          BY <2>1, <5>2, <5>3
        <5>8. seen = front \o w
          BY <5>5
        <5> HIDE DEF front
        <5>9. seen[2] = front[2]
          BY <5>6, <5>7, <5>8
        <5> QED BY <2>2, <5>2, <5>7, <5>9
      <4>2. CASE chunks[2][1] \notin Starts
        <5>1. /\ Len(chunks[1]) = MaxChars /\ MaxChars + 1 \in 1..Len(text)
              /\ chunks[2][1] = text[MaxChars + 1]
          BY <1>9, <3>2, <4>2
        <5>2. /\ text \in Texts /\ ~IsSpace(content, text[1])
              /\ ~IsSpace(content, text[Len(text)])
              /\ \A k \in 2..Len(text) : text[k] \notin Starts
              /\ text[1] = Mark /\ content.lines[1].title # NoLabel =>
                    Len(text) >= 2 /\ text[2] = At(1, 1)
          BY <1>9 DEF Whole
        <5>3. MaxChars \in Nat \ {0}
          BY ParserAssumption
        <5>4. Len(text) \in 2..Len(text)
          <6>1. text \in Seq(Place)
            BY <5>2 DEF Texts
          <6>2. Len(text) \in Nat
            BY <6>1
          <6> QED BY <5>1, <5>3, <6>2
        <5>5. /\ Len(VisibleChars(text)) >= 2
              /\ \E m \in 2..Len(text) : VisibleChars(text)[2] = text[m]
          BY <5>2, <5>4, VisibleMore
        <5>6. PICK w \in Texts : seen = VisibleChars(text) \o w
          BY <1>8, <1>9
        <5>7. VisibleChars(text) \in Seq(Place) /\ w \in Seq(Place)
          BY <5>2, VisibleFacts DEF Texts
        <5>8. VisibleChars(text)[2] = At(i, 1)
          <6> DEFINE v == VisibleChars(text)
          <6>1. v \in Seq(Place) /\ w \in Seq(Place) /\ Len(v) >= 2 /\ seen = v \o w
            BY <5>5, <5>6, <5>7
          <6> HIDE DEF v
          <6>2. seen[2] = v[2]
            BY <6>1
          <6> QED BY <2>2, <6>2 DEF v
        <5>9. At(i, 1) \notin Starts
          BY <5>2, <5>5, <5>8
        <5>10. i = 1
          <6> SUFFICES ASSUME i # 1 PROVE At(i, 1) \in Starts
            BY <5>9
          <6>1. IsHeading(content, i)
            BY <1>4 DEF IsHeading
          <6> QED BY <1>4, <6>1 DEF Starts
        <5>11. text[2] = At(1, 1)
          <6>1. text[1] = Mark
            BY <1>7, <1>9, <2>3
          <6>2. content.lines[1].title # NoLabel
            BY <1>4, <5>10
          <6> QED BY <5>2, <6>1, <6>2
        <5>12. MaxChars = 1
          <6> SUFFICES ASSUME MaxChars >= 2 PROVE FALSE
            BY <5>3
          <6>1. 2 \in 1..Len(chunks[1]) /\ 2 \in 2..Len(chunks[1])
            BY <5>1, <5>3
          <6>2. chunks[1][2] = At(1, 1)
            BY <1>9, <5>11, <6>1
          <6>3. Len(VisibleChars(chunks[1])) >= 2
            BY <1>5, <1>6, <1>10, <5>10, <6>1, <6>2, VisibleMore
          <6> QED BY <1>6, <3>1, <6>3 DEF lead
        <5>13. MaxChars + 1 = 2
          BY <5>12
        <5> QED BY <5>1, <5>10, <5>11, <5>13
      <4> QED BY <4>1, <4>2
    <3>4. rows[2].content = chunks[2]
      <4>1. 2 \in 1..Len(chunks)
        BY <1>2, <3>2
      <4> QED BY <1>2, <4>1
    <3> QED BY <1>4, <1>12, <3>1, <3>3, <3>4
  <2>6. Len(lead) \in Nat
    BY <1>7
  <2> QED BY <2>4, <2>5, <2>6
<1>17. content.bom \in BOOLEAN
  BY LineFacts
<1> QED BY <1>15, <1>16, <1>17

-----------------------------------------------------------------------------
(* The specification *)

\* A document starts with one line and has no rows.
LEMMA InitIInv == Init => IInv
<1> SUFFICES ASSUME Init PROVE IInv
  OBVIOUS
<1> DEFINE Single == {<<l>> : l \in Lines}
<1>1. content \in [bom : BOOLEAN, lines : Single]
  BY DEF Init
<1>2. \A lines \in Single : lines \in Seq(Lines) /\ Len(lines) = 1
  <2>1. \A l \in Lines : <<l>> \in Seq(Lines) /\ Len(<<l>>) = 1
    OBVIOUS
  <2> QED BY <2>1
<1> HIDE DEF Single
<1>3. content \in [bom : BOOLEAN, lines : Seq(Lines)] /\ Len(content.lines) = 1
  BY <1>1, <1>2
<1> QED BY <1>3, RowsAssumption DEF Init, IInv, Document, Current

\* A line is added within the bound; a run replaces all rows.
LEMMA StepIInv == IInv /\ [Next]_vars => IInv'
<1> SUFFICES ASSUME IInv, [Next]_vars PROVE IInv'
  OBVIOUS
<1> Document /\ Current
  BY DEF IInv
<1>1. ASSUME NEW line \in Lines, Write(line) PROVE IInv'
  <2> DEFINE n == Len(content.lines)
  <2>1. /\ content' = [content EXCEPT !.lines = Append(content.lines, line)]
        /\ n < MaxLines /\ from' = NoMonth /\ rows' = NoRows
    BY <1>1 DEF Write
  <2>2. content.lines \in Seq(Lines) /\ content \in [bom : BOOLEAN, lines : Seq(Lines)]
    BY DEF Document
  <2>3. content' \in [bom : BOOLEAN, lines : Seq(Lines)] /\ Len(content'.lines) = n + 1
        /\ n \in Nat
    BY <2>1, <2>2
  <2> HIDE DEF n
  <2>4. n + 1 \in 1..MaxLines
    BY <2>1, <2>3, RowsAssumption
  <2>5. Document'
    BY <2>3, <2>4 DEF Document
  <2> QED BY <2>1, <2>5 DEF IInv, Current
<1>2. ASSUME NEW policy \in Policies, Process(policy) PROVE IInv'
  <2>1. content' = content /\ from' = policy /\ rows' = RowsOf(policy)
    BY <1>2 DEF Process
  <2>2. Document'
    BY <2>1 DEF Document
  <2>3. Current'
    BY <2>1 DEF Current, RowsOf
  <2> QED BY <2>2, <2>3 DEF IInv
<1>3. CASE UNCHANGED vars
  <2>1. content' = content /\ from' = from /\ rows' = rows
    BY <1>3 DEF vars
  <2>2. Document'
    BY <2>1 DEF Document
  <2>3. Current'
    BY <2>1 DEF Current, RowsOf
  <2> QED BY <2>2, <2>3 DEF IInv
<1> QED BY <1>1, <1>2, <1>3 DEF Next

\* The rows always are those of the current document and the policy of their run.
THEOREM RowsInductive == Spec => []IInv
BY InitIInv, StepIInv, PTL DEF Spec

\* What the rows say of a sprint is a valid title or none, a valid period or none.
LEMMA PeriodType ==
    ASSUME NEW policy, NEW label \in Label \cup {NoLabel}
    PROVE  Period(policy, label) \in [start : Nat, end : Nat] \cup {NoPeriod}
<1> SUFFICES ASSUME label \in Label, label.sequence \in 1..5
    PROVE  [start |-> Start(label), end |-> End(label)] \in [start : Nat, end : Nat]
  BY DEF Period
<1>1. FirstMonday(label.month) \in Nat
  BY FirstMondayFacts DEF Label
<1>2. Start(label) \in Nat /\ End(label) \in Nat
  BY <1>1 DEF Start, End
<1> QED BY <1>2

\* The metadata of the rows are well-formed, and exactly the row without content is a tombstone.
LEMMA RowsTyped == IInv => TypeOK
<1> SUFFICES ASSUME IInv PROVE TypeOK
  OBVIOUS
<1> Document /\ Current
  BY DEF IInv
<1>1. /\ content.bom \in BOOLEAN /\ content.lines \in Seq(Lines)
      /\ Len(content.lines) \in 1..MaxLines /\ from \in Policies \cup {NoMonth}
  BY DEF Document, Current
<1>2. ASSUME rows = RowsOf(from)
      PROVE  /\ rows \in Seq(Row) /\ rows # <<>>
             /\ \A j \in DOMAIN rows : rows[j].is_deleted <=> rows[j].content = <<>>
  <2> DEFINE chunks == Parse(content)
             label == ExtractRetroLabel(content)
             period == Period(from, label)
  <2>1. label \in Label \cup {NoLabel}
    BY TitleLine
  <2>2. period \in [start : Nat, end : Nat] \cup {NoPeriod}
    BY <2>1, PeriodType
  <2>3. chunks \in Seq(Texts)
    BY RowsShape
  <2> HIDE DEF chunks, label, period
  <2>4. CASE chunks = <<>>
    <3> DEFINE stone == [chunk_index |-> 0, content |-> <<>>, is_deleted |-> TRUE,
                         label |-> NoLabel, period |-> NoPeriod]
    <3>1. rows = <<stone>>
      BY <1>2, <2>4 DEF RowsOf, chunks
    <3>2. stone \in Row /\ stone.is_deleted = TRUE /\ stone.content = <<>>
      BY DEF Row
    <3> HIDE DEF stone
    <3>3. rows \in Seq(Row) /\ rows # <<>> /\ DOMAIN rows = {1} /\ rows[1] = stone
      BY <3>1, <3>2
    <3> QED BY <3>2, <3>3
  <2>5. CASE chunks # <<>>
    <3> DEFINE Made(j) == [chunk_index |-> j - 1, content |-> chunks[j], is_deleted |-> FALSE,
                           label |-> label, period |-> period]
    <3>1. rows = [j \in DOMAIN chunks |-> Made(j)]
      BY <1>2, <2>5 DEF RowsOf, chunks, label, period
    <3>2. Len(chunks) \in Nat \ {0} /\ DOMAIN chunks = 1..Len(chunks)
      BY <2>3, <2>5
    <3>3. \A j \in 1..Len(chunks) : Len(chunks[j]) \in 1..MaxChars
      BY <2>5, ChunkFacts DEF chunks
    <3>4. ASSUME NEW j \in 1..Len(chunks)
          PROVE  /\ Made(j) \in Row /\ Made(j).is_deleted = FALSE
                 /\ Made(j).content # <<>>
      <4>1. chunks[j] \in Seq([line : Nat, at : Nat])
        <5>1. chunks[j] \in Texts
          BY <2>3
        <5> QED BY <5>1 DEF Texts, Place
      <4>2. j - 1 \in Nat
        BY <3>2
      <4>3. Made(j) \in Row
        BY <2>1, <2>2, <4>1, <4>2 DEF Row
      <4>4. chunks[j] # <<>>
        <5>1. Len(<<>>) = 0 /\ MaxChars \in Nat
          BY ParserAssumption
        <5> QED BY <3>3, <5>1
      <4> QED BY <4>3, <4>4
    <3> HIDE DEF Made
    <3>5. rows \in Seq(Row) /\ DOMAIN rows = 1..Len(chunks)
          /\ \A j \in 1..Len(chunks) : rows[j] = Made(j)
      <4>1. rows \in [1..Len(chunks) -> Row]
        BY <3>1, <3>2, <3>4
      <4> QED BY <3>1, <3>2, <4>1
    <3>6. rows # <<>>
      BY <3>2, <3>5
    <3> QED BY <3>4, <3>5, <3>6
  <2> QED BY <2>4, <2>5
<1> QED BY <1>1, <1>2 DEF Current, TypeOK

\* Whatever authors write, the rows of a document are well-formed, it has at least one, and
\* exactly a tombstone has no content.
THEOREM RowTypes == Spec => []TypeOK
BY RowsInductive, RowsTyped, PTL

\* Whatever is trimmed and wherever a document is cut, its text is in the rows, in order
\* and once.
THEOREM EverythingKept == Spec => []NothingLost
BY RowsInductive, KeptInRows, PTL

\* No chunk is too long, headings start chunks and no other cut is made without need.
THEOREM WellCut == Spec => []ChunksWellCut
BY RowsInductive, WellCutRows, PTL

\* A tombstone is written for a document without text, and for no other.
THEOREM TombstoneOnlyIfEmpty == Spec => []TombstoneExact
BY RowsInductive, TombstoneOnly, PTL

\* The title that dates the rows is what a reader sees first.
THEOREM TitleFirst == Spec => []TitleLeads
BY RowsInductive, TitleInFront, PTL

\* A row that has a title has the period of this title.
LEMMA PeriodOfRow ==
    ASSUME IInv, rows # NoRows, NEW j \in DOMAIN rows, rows[j].label # NoLabel
    PROVE  rows[j].period = Period(from, rows[j].label)
<1> DEFINE chunks == Parse(content)
           label == ExtractRetroLabel(content)
           period == Period(from, label)
           Made(k) == [chunk_index |-> k - 1, content |-> chunks[k], is_deleted |-> FALSE,
                       label |-> label, period |-> period]
           stone == [chunk_index |-> 0, content |-> <<>>, is_deleted |-> TRUE,
                     label |-> NoLabel, period |-> NoPeriod]
<1>1. rows = IF chunks = <<>> THEN <<stone>> ELSE [k \in DOMAIN chunks |-> Made(k)]
  BY DEF IInv, Current, RowsOf
<1>2. stone.label = NoLabel
  OBVIOUS
<1>3. Made(j).label = label /\ Made(j).period = period
  OBVIOUS
<1> HIDE DEF chunks, label, period, Made, stone
<1>4. chunks # <<>>
  <2> SUFFICES ASSUME chunks = <<>> PROVE FALSE
    OBVIOUS
  <2>1. j = 1 /\ rows[1] = stone
    BY <1>1
  <2> QED BY <1>2, <2>1
<1>5. rows[j] = Made(j)
  BY <1>1, <1>4
<1> QED BY <1>3, <1>5 DEF period, label

\* Whatever authors write and whatever the policy is, every day that the policy dates, of
\* a month that dates any row, belongs to exactly one title, and the period of the row has
\* the days of its title.
THEOREM EveryRowDated == Spec => []DaysDated
<1>1. IInv => DaysDated
  <2> SUFFICES ASSUME IInv, rows # NoRows, from # NoMonth,
                      NEW j \in DOMAIN rows, rows[j].label # NoLabel,
                      NEW day \in FirstDay(rows[j].label.month) ..
                                  FirstDay(rows[j].label.month + 1) - 1,
                      from <= rows[j].label.month, Ruled(from, day)
               PROVE  /\ OwnedOnce(from, rows[j].label.month, day)
                      /\ Owns(from, rows[j].label, day)
                          <=> /\ rows[j].period # NoPeriod
                              /\ rows[j].period.start <= day /\ day <= rows[j].period.end
    BY DEF DaysDated
  <2> DEFINE month == rows[j].label.month
  <2>1. from \in Months
    BY RowsAssumption DEF IInv, Current
  <2>2. month \in Months
    <3>1. rows \in Seq(Row)
      BY RowsTyped DEF TypeOK
    <3>2. rows[j] \in Row
      BY <3>1
    <3>3. rows[j].label \in Label
      BY <3>2 DEF Row
    <3> QED BY <3>3 DEF Label
  <2>3. FirstDay(month) \in Nat /\ FirstDay(month + 1) \in Nat
    BY <2>2, MonthFacts
  <2> HIDE DEF month
  <2>4. day \in Nat /\ FirstDay(month) <= day /\ day < FirstDay(month + 1)
    BY <2>3 DEF month
  <2>5. OwnedOnce(from, rows[j].label.month, day)
    BY <2>1, <2>2, <2>4, EveryDayOwnedOnce DEF month
  <2>6. rows[j].period = Period(from, rows[j].label)
    BY PeriodOfRow
  <2> QED BY <2>5, <2>6 DEF Owns
<1> QED BY RowsInductive, <1>1, PTL

=============================================================================
