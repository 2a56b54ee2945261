---------------------------- MODULE LoanSchedule ----------------------------
(***************************************************************************)
(* The arithmetic of an employee loan                                      *)
(* (apps/api/src/modules/hr/employee-loans/loan-schedule.ts).  A period    *)
(* YYYY-MM is <<year, month>>; amounts are minor units.                    *)
(***************************************************************************)
EXTENDS Integers, Sequences, SequencesExt

nextPeriod(p) == IF p[2] = 12 THEN <<p[1] + 1, 1>> ELSE <<p[1], p[2] + 1>>

\* The order of the labels as strings.
Before(p, q) == p[1] < q[1] \/ (p[1] = q[1] /\ p[2] < q[2])

periodsFrom(first, count) ==
  LET at[i \in 1..count] == IF i = 1 THEN first ELSE nextPeriod(at[i - 1])
  IN  [i \in 1..count |-> at[i]]

\* What generateSchedule refuses.
Schedulable(principal, count) == principal > 0 /\ count >= 1 /\ principal >= count

\* Mutant: the remainder of the division is lost.
generateScheduleNoRemainder(principal, count, first) ==
  [i \in 1..count |->
     [seq |-> i, period |-> periodsFrom(first, count)[i],
      amount |-> principal \div count]]

\* The remainder of the division lands on the last instalment.
generateSchedule(principal, count, first) ==
  LET base == principal \div count
      periods == periodsFrom(first, count)
  IN  [i \in 1..count |->
         [seq |-> i, period |-> periods[i],
          amount |-> IF i = count THEN base + (principal - base * count) ELSE base]]

totalMinor(rows) == FoldRight(LAMBDA row, sum : row.amount + sum, rows, 0)

\* What accelerateTail refuses.
CanAbsorb(later, extra) == extra > 0 /\ extra <= totalMinor(later)

\* Mutant: an instalment that is absorbed exactly stays, worth nothing.
AbsorbStrict(row, acc) ==
  IF acc.left > row.amount
    THEN [acc EXCEPT !.left = @ - row.amount]
    ELSE [left |-> 0,
          tail |-> <<[row EXCEPT !.amount = @ - acc.left]>> \o acc.tail]

\* One turn of the backward walk: the month disappears, or it is reduced.
Absorb(row, acc) ==
  IF acc.left >= row.amount
    THEN [acc EXCEPT !.left = @ - row.amount]
    ELSE [left |-> 0,
          tail |-> <<[row EXCEPT !.amount = @ - acc.left]>> \o acc.tail]

accelerateTail(target, later, extra) ==
  <<[target EXCEPT !.amount = @ + extra]>>
    \o FoldRight(Absorb, later, [left |-> extra, tail |-> <<>>]).tail
=============================================================================
