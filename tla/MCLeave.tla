------------------------------ MODULE MCLeave ------------------------------
(***************************************************************************)
(* Leave for TLC: the second year begins on day 1; request 1 crosses into  *)
(* it, request 2 is its first day and overlaps request 1.  The second year *)
(* has room for one of them or for both.                                   *)
(***************************************************************************)
EXTENDS Leave, TLC

FirstDays == <<0, 1>>
LastDays == <<1, 1>>
OneOrTwo == {<<1, 1>>, <<1, 2>>}

Sym == Permutations(Workers)
=============================================================================
