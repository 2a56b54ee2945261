---------------------------- MODULE Compensation ----------------------------
(***************************************************************************)
(* The compensation engine of a month                                      *)
(* (apps/api/src/modules/hr/payroll/compensation): pure, from values to    *)
(* lines and totals.  Amounts are minor units, dates are day numbers, and  *)
(* an interval without an end runs to a day past every month.              *)
(***************************************************************************)
EXTENDS LeaveAllocation

FullRate == 100

\* scaleMinorUnits by the factor num / den, with the one rounding.
Scaled(minor, num, den) == Rounded(minor * num, den)

Covers(span, day) == span.from <= day /\ day <= span.to

-----------------------------------------------------------------------------
(***************************************************************************)
(* Days.                                                                   *)
(***************************************************************************)
\* Days of the window inside the spans, span by span: the code relies on
\* spans that never overlap.
daysWithin(window, spans) ==
  MapThenSumSet(LAMBDA i : DaysOf(Overlap(spans[i], window)), DOMAIN spans)

\* assignment /\ period /\ employment.
daysInForce(assignment, window, spans) ==
  LET inPeriod == Overlap(assignment, window)
  IN  IF DaysOf(inPeriod) = 0 THEN 0 ELSE daysWithin(inPeriod, spans)

\* What one row of the attendance feed adds to a quantity.
Contribution(source, row) ==
  CASE source = "attendedDays" -> IF row.status = "attended" THEN 1 ELSE 0
    [] source = "absentDays"   -> IF row.status = "absent" THEN 1 ELSE 0
    [] source = "leaveDays"    -> IF row.status = "onLeave" THEN 1 ELSE 0
    [] source = "minutes"      -> row.minutes

\* Mutant: a row counts whether or not the employee was employed that day.
quantityForAnybody(rows, source, slice, spans) ==
  MapThenSumSet(LAMBDA row : Contribution(source, row), {row \in rows : Covers(slice, row.day)})

\* The rows inside the slice on which the employee was employed.
quantityFor(rows, source, slice, spans) ==
  MapThenSumSet(LAMBDA row : Contribution(source, row),
                {row \in rows : /\ Covers(slice, row.day)
                                /\ \E i \in DOMAIN spans : Covers(spans[i], row.day)})

-----------------------------------------------------------------------------
(***************************************************************************)
(* Leave.                                                                  *)
(***************************************************************************)
\* The parts of the pinned slices, one after the other.
tierRows(s) ==
  [t \in DOMAIN s.tiers |-> [type |-> s.type, rate |-> s.tiers[t].rate, cents |-> s.tiers[t].cents]]
leaveRows(slices) == FoldLeft(LAMBDA acc, s : acc \o tierRows(s), <<>>, slices)

\* Their days by (type, rate), never averaged.
alike(rows, i) ==
  {j \in DOMAIN rows : rows[j].type = rows[i].type /\ rows[j].rate = rows[i].rate}
shortfallAt(rows, i) ==
  [rows[i] EXCEPT !.cents = MapThenSumSet(LAMBDA j : rows[j].cents, alike(rows, i))]
shortfallsOf(slices) ==
  LET rows == leaveRows(slices) IN {shortfallAt(rows, i) : i \in DOMAIN rows}

\* Leave paid in full costs nothing and has no line.
isChargeable(shortfall) == shortfall.rate < FullRate /\ shortfall.cents > 0

\* Mutant: the rate that was paid is charged, not its complement.
shortfallMinorPaid(shortfall, basic, periodDays) ==
  Scaled(basic, shortfall.rate * shortfall.cents, FullRate * 100 * periodDays)

\* basic * (100 - payRate)% * days / daysInPeriod.
shortfallMinor(shortfall, basic, periodDays) ==
  Scaled(basic, (FullRate - shortfall.rate) * shortfall.cents, FullRate * 100 * periodDays)

LeaveLines(slices, basic, periodDays) ==
  MapThenSumSet(LAMBDA s : shortfallMinor(s, basic, periodDays),
                {s \in shortfallsOf(slices) : isChargeable(s)})

-----------------------------------------------------------------------------
(***************************************************************************)
(* Lines and totals.  A value that may be null is a sequence of at most    *)
(* one element: the basic salary, the frozen attendance, the pinned leave, *)
(* the price of a line (null while its quantity is pending).               *)
(***************************************************************************)
\* The currencies of everything that is priced.
Currencies(input) ==
  {input.assignments[i].currency : i \in DOMAIN input.assignments}
    \cup {input.adjustments[i].currency : i \in DOMAIN input.adjustments}
    \cup {input.loans[i].currency : i \in DOMAIN input.loans}

InForce(input) ==
  {i \in DOMAIN input.assignments :
     daysInForce(input.assignments[i], input.window, input.spans) > 0}

\* What computeCompensation and priceLine refuse.
Refused(input) ==
  \/ input.basic = <<>>
  \/ ~(Currencies(input) \subseteq {input.currency})
  \/ \E i \in InForce(input) : /\ input.assignments[i].basis = "percentOfBase"
                               /\ input.assignments[i].amount \notin 1..100

\* Mutant: a quantity is prorated as well.
toLineProratedTwice(a, input) ==
  LET force == daysInForce(a, input.window, input.spans)
      slice == Overlap(a, input.window)
  IN  CASE a.basis = "fixed" -> <<Scaled(a.amount, force, DaysOf(input.window))>>
        [] a.basis = "percentOfBase" ->
             <<Scaled(input.basic[1], a.amount * force, 100 * DaysOf(input.window))>>
        [] a.basis = "quantity" ->
             [i \in DOMAIN input.attendance |->
                Scaled(a.amount * quantityFor(input.attendance[i], a.source, slice, input.spans),
                       force, DaysOf(input.window))]

\* The price of an assignment in force: prorated by its days, or by counting
\* the frozen attendance, which prorates by itself; pending without it.
toLine(a, input) ==
  LET force == daysInForce(a, input.window, input.spans)
      slice == Overlap(a, input.window)
  IN  CASE a.basis = "fixed" -> <<Scaled(a.amount, force, DaysOf(input.window))>>
        [] a.basis = "percentOfBase" ->
             <<Scaled(input.basic[1], a.amount * force, 100 * DaysOf(input.window))>>
        [] a.basis = "quantity" ->
             [i \in DOMAIN input.attendance |->
                Scaled(a.amount, quantityFor(input.attendance[i], a.source, slice, input.spans), 1)]

sumMinorUnits(values) == FoldLeft(+, 0, values)

\* The lines of one kind; a pending line is shown and never counted.
AssignedTotal(input, kind) ==
  MapThenSumSet(LAMBDA i : sumMinorUnits(toLine(input.assignments[i], input)),
                {i \in InForce(input) : input.assignments[i].kind = kind})

DecidedTotal(input, kind) ==
  MapThenSumSet(LAMBDA i : input.adjustments[i].amount,
                {i \in DOMAIN input.adjustments : input.adjustments[i].kind = kind})

LeaveTotal(input) ==
  sumMinorUnits([i \in DOMAIN input.leave |->
                   LeaveLines(input.leave[i], input.basic[1], DaysOf(input.window))])

LoanTotal(input) ==
  MapThenSumSet(LAMBDA i : input.loans[i].amount, DOMAIN input.loans)

\* The totals, refused whole or not at all (<<>>).
computeCompensation(input) ==
  LET earnings == AssignedTotal(input, "earning") + DecidedTotal(input, "earning")
      deductions == AssignedTotal(input, "deduction") + LeaveTotal(input)
                      + DecidedTotal(input, "deduction") + LoanTotal(input)
  IN  IF Refused(input) THEN <<>>
      ELSE <<[earnings |-> earnings, deductions |-> deductions, net |-> earnings - deductions,
              pending |-> Cardinality({i \in InForce(input) : toLine(input.assignments[i], input) = <<>>})
                            + IF input.leave = <<>> THEN 1 ELSE 0]>>
=============================================================================
