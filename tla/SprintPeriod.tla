---------------------------- MODULE SprintPeriod ----------------------------
(***************************************************************************)
(* SprintPolicy.Period: the title 202611-2 of a retrospective stands for    *)
(* the second Monday of November 2026 and the six days after it. A month is *)
(* the number 12 * year + month - 1, a day the number of days since the day *)
(* before 0001-01-01, which was a Monday.                                   *)
(***************************************************************************)
EXTENDS Integers

CONSTANTS FirstDay(_),  \* the first day of a month: the calendar of package time
          Earliest,     \* January 0001
          Beyond,       \* January 10000, the first month that a DATE cannot hold
          NoMonth,      \* the policy is off
          NoLabel,      \* the document has no valid title
          NoPeriod      \* the period is not set

Months == Earliest .. Beyond - 1
Label == [month : Months, sequence : Nat]

\* Months have 28 to 31 days.
ASSUME CalendarAssumption ==
    /\ Earliest \in Nat /\ Beyond \in Nat
    /\ \A month \in Months \cup {Beyond} : FirstDay(month) \in Nat
    /\ \A month \in Months : FirstDay(month + 1) - FirstDay(month) \in 28..31

ASSUME SprintAssumption ==
    /\ NoMonth \notin Nat /\ NoLabel \notin Label
    /\ NoPeriod \notin [start : Nat, end : Nat]

\* As in package time: Sunday is 0.
Weekday(day) == day % 7
Monday == 1

\* Faulty: 7 is added after the remainder is taken, so that a month that starts on a
\* Monday loses its first week.
FirstMondayFaulty(month) ==
    FirstDay(month) + (7 + Monday - Weekday(FirstDay(month)))

FirstMonday(month) ==
    FirstDay(month) + ((Monday - Weekday(FirstDay(month)) + 7) % 7)

Start(label) == FirstMonday(label.month) + 7 * (label.sequence - 1)
End(label) == Start(label) + 6

\* Faulty: the end of the sprint has to be in the month, too.
FitsFaulty(label) ==
    /\ End(label) < FirstDay(label.month + 1)
    /\ End(label) < FirstDay(Beyond)

\* The month has that many Mondays, and the last day can be stored.
Fits(label) ==
    /\ Start(label) < FirstDay(label.month + 1)
    /\ End(label) < FirstDay(Beyond)

\* from is the first month whose titles follow the rule.
Period(from, label) ==
    IF /\ from # NoMonth /\ label # NoLabel
       /\ from <= label.month /\ label.sequence \in 1..5
       /\ Fits(label)
    THEN [start |-> Start(label), end |-> End(label)]
    ELSE NoPeriod

-----------------------------------------------------------------------------
(* What the rule promises *)

\* The day belongs to the sprint with this title.
Owns(from, label, day) ==
    LET period == Period(from, label) IN
    period # NoPeriod /\ period.start <= day /\ day <= period.end

\* The titles that could own a day of a month: a sprint starts at most six days before.
Near(month) == [month : {month - 1, month} \cap Months, sequence : 1..5]

\* Exactly one title owns the day.
OwnedOnce(from, month, day) ==
    \E label \in Near(month) :
        /\ Owns(from, label, day)
        /\ \A other \in Near(month) : Owns(from, other, day) => other = label

\* The rule starts with the first Monday of its first month and ends with the last
\* whole week of the year 9999.
Ruled(from, day) ==
    FirstMonday(from) <= day /\ day + 7 <= FirstDay(Beyond)

=============================================================================
