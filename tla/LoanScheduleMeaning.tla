------------------------ MODULE LoanScheduleMeaning ------------------------
(***************************************************************************)
(* LoanSchedule against what it is for.  SplitsDebt and MovesCalendar,     *)
(* over bounded inputs, have no state: LoanLedger evaluates them where its *)
(* loan begins.                                                            *)
(***************************************************************************)
EXTENDS LoanSchedule, FiniteSets

MaxAmount == 13  \* bound: principal, and extra of an acceleration
MaxRow == 3      \* bound: amount of one instalment
MaxRows == 4     \* bound: instalments in the list

MonthIndex(p) == 12 * p[1] + p[2]
SampleMonth == <<2026, 11>>

\* generateSchedule: the instalments add up to the principal to the last
\* minor unit, none is worth nothing, all but the last are equal and the
\* last exceeds them by less than one unit per instalment, and the months
\* are consecutive across the turn of a year.
SplitsExactly(amount, count, first) ==
  LET s == generateSchedule(amount, count, first) IN
    /\ Len(s) = count
    /\ totalMinor(s) = amount
    /\ \A i \in 1..count :
         /\ s[i].amount >= 1
         /\ s[i].amount - s[1].amount \in 0..(count - 1)
         /\ i < count => s[i].amount = s[1].amount
         /\ MonthIndex(s[i].period) = MonthIndex(first) + i - 1
         /\ s[i].period[2] \in 1..12

SplitsDebt ==
  \A amount \in 1..MaxAmount, count \in 1..(MaxRows + 1) :
    Schedulable(amount, count) => SplitsExactly(amount, count, SampleMonth)

\* What each month of later keeps of its amount when extra is taken from the
\* end of the list; the months that keep nothing are gone.
Beyond(later, i) == totalMinor(SubSeq(later, i + 1, Len(later)))
Keeping(later, extra, i) ==
  IF extra <= Beyond(later, i)
    THEN later[i].amount ELSE later[i].amount - (extra - Beyond(later, i))
Kept(later, extra) ==
  [i \in 1..Cardinality({j \in DOMAIN later : Keeping(later, extra, j) > 0}) |->
     [later[i] EXCEPT !.amount = Keeping(later, extra, i)]]

\* accelerateTail against its meaning: the target month takes the extra, the
\* debt does not change, and a month keeps what the extra leaves of it once
\* every later month is used up.
MovesExactly(target, later, extra) ==
  LET r == accelerateTail(target, later, extra) IN
    /\ totalMinor(r) = totalMinor(later) + target.amount
    /\ r = <<[target EXCEPT !.amount = @ + extra]>> \o Kept(later, extra)

\* The amounts of a list as rows of consecutive months after the target.
SampleTarget == [period |-> SampleMonth, amount |-> 1]
SampleRows(list) ==
  [i \in 1..Len(list) |->
     [period |-> periodsFrom(SampleMonth, Len(list) + 1)[i + 1], amount |-> list[i]]]

MovesCalendar ==
  \A extra \in 1..MaxAmount, list \in SeqOf(1..MaxRow, MaxRows) :
    CanAbsorb(SampleRows(list), extra) =>
      MovesExactly(SampleTarget, SampleRows(list), extra)
=============================================================================
