--------------------------- MODULE MCLoanRequest ---------------------------
(***************************************************************************)
(* LoanRequest for TLC: one loan long enough to be rejected and            *)
(* submitted again, or settled, and a second one that gets in its way.     *)
(***************************************************************************)
EXTENDS LoanRequest, TLC

CONSTANTS l1, l2

Lives == (l1 :> 4) @@ (l2 :> 1)

Sym == Permutations(Workers) \cup Permutations(Users) \cup Permutations(Terms)
=============================================================================
