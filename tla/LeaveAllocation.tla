-------------------------- MODULE LeaveAllocation --------------------------
(***************************************************************************)
(* Cutting a leave consumption down to one payroll period                  *)
(* (apps/api/src/modules/hr/payroll/runs/leave-allocation.ts).             *)
(*                                                                         *)
(* Dates are day numbers.  An entry of the ledger counts half days, its    *)
(* tiers too; a slice counts hundredths of a day, which is what round2     *)
(* keeps.  The fractions in between are exact: days are turned into        *)
(* grains, a hundredth of a day divided by the days of the entry's span.   *)
(***************************************************************************)
EXTENDS Integers, Sequences, SequencesExt, FiniteSetsExt

\* calendarDaysInclusive; nothing is counted in an empty interval.
DaysOf(span) == IF span.from > span.to THEN 0 ELSE span.to - span.from + 1

\* intersect: empty when the two do not meet.
Overlap(span, window) ==
  [from |-> Max({span.from, window.from}), to |-> Min({span.to, window.to})]

\* Math.round of the non-negative quotient num / den.
Rounded(num, den) == (2 * num + den) \div (2 * den)

\* Mutant: a tier that is partly skipped is taken whole.
TakeTierWhole(acc, tier, grains) ==
  LET available == IF acc.skip >= tier.halves * 50 * grains THEN 0 ELSE tier.halves * 50 * grains
      take == Min({acc.left, available})
  IN  [skip |-> Max({0, acc.skip - tier.halves * 50 * grains}),
       left |-> acc.left - take,
       out |-> IF 2 * take > grains
               THEN Append(acc.out, [cents |-> Rounded(take, grains), rate |-> tier.rate])
               ELSE acc.out]

\* One turn of takeBreakdown: what earlier days used of the tier is skipped,
\* and less than half a hundredth of a day is noise.
TakeTier(acc, tier, grains) ==
  LET days == tier.halves * 50 * grains
      take == Min({acc.left, days - Min({acc.skip, days})})
  IN  [skip |-> Max({0, acc.skip - days}),
       left |-> acc.left - take,
       out |-> IF 2 * take > grains
               THEN Append(acc.out, [cents |-> Rounded(take, grains), rate |-> tier.rate])
               ELSE acc.out]

\* offset and days in grains.
takeBreakdown(tiers, offset, days, grains) ==
  FoldLeft(LAMBDA acc, tier : TakeTier(acc, tier, grains),
           [skip |-> offset, left |-> days, out |-> <<>>], tiers).out

\* The entry's days before the slice, spread evenly over its calendar days.
daysBefore(entry, slice) == (slice.from - entry.from) * entry.halves * 50

\* The part of an entry that belongs to the window; <<>> when there is none.
sliceForPeriod(entry, window) ==
  LET span == Overlap(entry, window)
      grains == DaysOf(entry)
      cents == Rounded(DaysOf(span) * entry.halves * 50, grains)
  IN  IF DaysOf(span) = 0 THEN <<>>
      ELSE IF DaysOf(span) = grains
        THEN <<[from |-> span.from, to |-> span.to, allocation |-> "whole",
                cents |-> 50 * entry.halves,
                tiers |-> [i \in DOMAIN entry.tiers |->
                             [cents |-> 50 * entry.tiers[i].halves,
                              rate |-> entry.tiers[i].rate]]]>>
      ELSE <<[from |-> span.from, to |-> span.to, allocation |-> "chronological",
              cents |-> cents,
              tiers |-> takeBreakdown(entry.tiers, daysBefore(entry, span),
                                      cents * grains, grains)]>>
=============================================================================
