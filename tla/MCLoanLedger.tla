---------------------------- MODULE MCLoanLedger ----------------------------
(***************************************************************************)
(* LoanLedger for TLC.  The loan starts in November, so that schedules     *)
(* cross the turn of a year.                                               *)
(***************************************************************************)
EXTENDS LoanLedger, TLC

November == <<2026, 11>>

Sym == Permutations(Workers)
=============================================================================
