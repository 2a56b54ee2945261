---------------------------- MODULE MCPayrollRun ----------------------------
(***************************************************************************)
(* PayrollRun for TLC.                                                     *)
(***************************************************************************)
EXTENDS PayrollRun, CompensationMeaning, TLC

\* Every leave touches every period, so that one entry has a slice in each.
MCSpan == [l \in Leaves |-> Periods]

Sym == Permutations(Runs) \cup Permutations(Calls) \cup Permutations(Users)
         \cup Permutations(Leaves)

\* What the freeze and the engine compute for every input of the bounded sets
\* of CompensationMeaning, evaluated once, in the first state.
\* The slices of a consumption share out its days and rates.
SlicesShareEntry == Init => SharesEntry

\* Days in force and counted days agree, but for overlapping employment.
ForceIsCountedDays == Init => ForceFollowsDays

\* Replacing an assignment inside a month does not change what it earns.
SplitKeepsPay == Init => SplitEarnsTheSame

\* A day of leave is charged once, in its month, at its own rate.
LeaveChargedOnce == Init => ChargedByTheDay
=============================================================================
