------------------------ MODULE CompensationMeaning ------------------------
(***************************************************************************)
(* Compensation and LeaveAllocation against what they are for, over        *)
(* bounded inputs.  The formulas have no state: MCPayrollRun evaluates     *)
(* them where its runs begin.                                              *)
(***************************************************************************)
EXTENDS Compensation

\* bound: three months of 3, 4 and 2 days, so that eight days of leave can
\* lie across a boundary (a proportion of an eighth does not round evenly).
Months == <<[from |-> 1, to |-> 3], [from |-> 4, to |-> 7], [from |-> 8, to |-> 9]>>
LastDay == 9
Forever == LastDay + 1     \* an interval that does not end
Rates == {0, 50, 100}      \* bound: pay rates
Basic == 7                 \* bound: basic salary, in minor units
March == Months[2]

Spans(last) == {s \in [from : 1..LastDay, to : 1..last] : s.from <= s.to}

\* A consumption of halves half days in at most two tiers.
Tiers(halves) ==
  {<<[halves |-> halves, rate |-> r]>> : r \in Rates}
    \cup {<<[halves |-> first, rate |-> r[1]], [halves |-> halves - first, rate |-> r[2]]>> :
            first \in 1..(halves - 1), r \in {<<100, 0>>, <<50, 100>>}}

Consumptions(span, halves) ==
  {[from |-> span.from, to |-> span.to, halves |-> halves, tiers |-> t] : t \in Tiers(halves)}

Abs(n) == IF n < 0 THEN -n ELSE n

\* Hundredths of a day in a list of tiers, all of them or those at a rate.
CentsOf(tiers) == MapThenSumSet(LAMBDA i : tiers[i].cents, DOMAIN tiers)
CentsAt(tiers, rate) ==
  MapThenSumSet(LAMBDA i : tiers[i].cents, {i \in DOMAIN tiers : tiers[i].rate = rate})

\* An entry cut into months, and what the slices of the months it meets hold.
Cut(entry, months) == [m \in DOMAIN months |-> sliceForPeriod(entry, months[m])]
CentsIn(slice, hit) == MapThenSumSet(LAMBDA m : slice[m][1].cents, hit)
CentsInAt(slice, hit, rate) == MapThenSumSet(LAMBDA m : CentsAt(slice[m][1].tiers, rate), hit)

\* The hundredths that n roundings may move in an entry.
Allowed(entry, n) == IF entry.halves = 2 * DaysOf(entry) THEN 0 ELSE n

\* The parts of the slices come in the order of the tiers they are taken from.
InOrder(entry, slice, hit) ==
  \A m, n \in hit, a, b \in DOMAIN entry.tiers :
    \A i \in DOMAIN slice[m][1].tiers, j \in DOMAIN slice[n][1].tiers :
      /\ m < n \/ (m = n /\ i < j)
      /\ slice[m][1].tiers[i].rate = entry.tiers[a].rate
      /\ slice[n][1].tiers[j].rate = entry.tiers[b].rate
      => a <= b

\* Slicing: cut into months, an entry keeps its days and the days of each of
\* its tiers, which a slice tells apart by their rates, each slice is accounted
\* for by its own, and they keep their order: exactly when the entry counts
\* whole calendar days, and to a hundredth of a day a slice when it holds half
\* or free days.
SharedOut(entry, months) ==
  LET slice == Cut(entry, months)
      hit == {m \in DOMAIN months : slice[m] # <<>>}
  IN /\ Abs(CentsIn(slice, hit) - 50 * entry.halves) <= Allowed(entry, Cardinality(hit))
     /\ \A i \in DOMAIN entry.tiers :
          Abs(CentsInAt(slice, hit, entry.tiers[i].rate) - 50 * entry.tiers[i].halves)
            <= Allowed(entry, Cardinality(hit))
     /\ \A m \in hit : Abs(CentsOf(slice[m][1].tiers) - slice[m][1].cents)
                         <= Allowed(entry, (Len(entry.tiers) + 1) \div 2)
     /\ InOrder(entry, slice, hit)

SharesEntry ==
  \A span \in Spans(LastDay) : \A halves \in 1..(2 * DaysOf(span)) :
    \A entry \in Consumptions(span, halves) : SharedOut(entry, Months)

\* An employee who attended every day of a window.
AttendedAll(window) ==
  {[day |-> d, status |-> "attended", minutes |-> 1] : d \in window.from..window.to}

\* Proration and counting agree: what is prorated by days in force and what
\* is counted from a month attended every day come to the same number, and
\* they differ by the days on which two spans of employment overlap, which
\* proration counts twice.
ProratesWhatItCounts(a, window, one, two) ==
  LET slice == Overlap(a, window)
  IN  daysInForce(a, window, <<one, two>>)
        = quantityFor(AttendedAll(window), "attendedDays", slice, <<one, two>>)
            + DaysOf(Overlap(Overlap(one, two), slice))

ForceFollowsDays ==
  \A a \in Spans(Forever), one \in Spans(Forever), two \in Spans(Forever) :
    one.from <= two.from => ProratesWhatItCounts(a, March, one, two)

Item(span, basis, amount) ==
  [from |-> span.from, to |-> span.to, basis |-> basis, amount |-> amount,
   source |-> "attendedDays", kind |-> "earning", currency |-> "EGP"]

Month(window, spans, assignments, leave) ==
  [window |-> window, currency |-> "EGP", basic |-> <<Basic>>, spans |-> spans,
   assignments |-> assignments, adjustments |-> <<>>, loans |-> <<>>, leave |-> leave,
   attendance |-> <<{[day |-> d, minutes |-> 1,
                      status |-> IF d % 3 = 0 THEN "absent" ELSE "attended"] : d \in 1..LastDay}>>]

\* What a month pays with these assignments.
PayOf(month, list) == computeCompensation([month EXCEPT !.assignments = list])[1].net

\* A change on some day of an item's time: held under one assignment or under
\* two that follow each other it comes to the same, a counted item exactly
\* and a prorated one to a minor unit.
CutPaysTheSame(month, item, cut) ==
  Abs(PayOf(month, <<item>>)
        - PayOf(month, <<[item EXCEPT !.to = cut], [item EXCEPT !.from = cut + 1]>>))
    <= IF item.basis = "quantity" THEN 0 ELSE 1

\* A fixed earning held all month by somebody employed all month is paid in
\* full.
FullMonthPaysAll(month, item) ==
  PayOf(month, <<item>>) = PayOf(month, <<>>) + item.amount

\* A change in the middle of the month, through a gap in the employment too.
SplitEarnsTheSame ==
  \A basis \in {"fixed", "percentOfBase", "quantity"}, amount \in {5, 99} :
    \A held \in Spans(Forever), gap \in Spans(LastDay) :
      LET spans == <<[from |-> 1, to |-> gap.from - 1], [from |-> gap.to + 1, to |-> Forever]>>
          month == Month(March, spans, <<>>, <<<<>>>>)
          item == Item(held, basis, amount)
      IN /\ \A cut \in held.from..(held.to - 1) : CutPaysTheSame(month, item, cut)
         /\ basis = "fixed" /\ Overlap(held, March) = March /\ gap.from > March.to
              => FullMonthPaysAll(month, item)

\* The half days of an entry that tier i pays, in date order.
HalvesUpTo(entry, k) == MapThenSumSet(LAMBDA i : entry.tiers[i].halves, 1..k)
HalfDays(entry, i) == (HalvesUpTo(entry, i - 1) + 1)..HalvesUpTo(entry, i)
HalfDaysIn(entry, i, month) ==
  {n \in HalfDays(entry, i) : Covers(month, entry.from + ((n - 1) \div 2))}

\* What an entry of whole days leaves unpaid in a month, tier by tier and
\* half day by half day, and what a list of slices does, in hundredths of a
\* day and percent.
UnpaidOfTier(entry, i, month) ==
  50 * (FullRate - entry.tiers[i].rate) * Cardinality(HalfDaysIn(entry, i, month))
UnpaidInMonth(entry, month) ==
  MapThenSumSet(LAMBDA i : UnpaidOfTier(entry, i, month), DOMAIN entry.tiers)
UnpaidBy(slice) ==
  MapThenSumSet(LAMBDA t : slice.tiers[t].cents * (FullRate - slice.tiers[t].rate), DOMAIN slice.tiers)
UnpaidOf(slices) == MapThenSumSet(LAMBDA i : UnpaidBy(slices[i]), DOMAIN slices)

\* The slices of the entry in the month, as leave of a type.
LeaveOf(type, entry, month) ==
  [i \in DOMAIN sliceForPeriod(entry, month) |->
     [type |-> type, tiers |-> sliceForPeriod(entry, month)[i].tiers]]

\* What is charged for leave is what it leaves unpaid of the salary, to half a
\* minor unit for each line.
ChargedAsOwed(charged, basic, unpaid, slices, month) ==
  LET unit == 100 * FullRate * DaysOf(month)
  IN  2 * Abs(charged * unit - basic * unpaid)
        <= unit * Cardinality({s \in shortfallsOf(slices) : isChargeable(s)})

\* Leave across months: a day costs what its own rate leaves unpaid, in its
\* own month, whatever else was taken at the same rate in that month.
ChargedByTheDay ==
  \A span \in Spans(LastDay), other \in {0, 1} :
    \A entry \in Consumptions(span, 2 * DaysOf(span)), m \in DOMAIN Months :
      LET more == [i \in 1..other |-> [type |-> "annual", tiers |-> <<[cents |-> 100, rate |-> 0]>>]]
          slices == LeaveOf("annual", entry, Months[m]) \o more
      IN  ChargedAsOwed(
            computeCompensation(
              Month(Months[m], <<[from |-> 1, to |-> Forever]>>, <<>>, <<slices>>))[1].deductions,
            Basic, UnpaidInMonth(entry, Months[m]) + UnpaidOf(more), slices, Months[m])
=============================================================================
