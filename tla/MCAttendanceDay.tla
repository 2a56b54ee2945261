-------------------------- MODULE MCAttendanceDay --------------------------
(***************************************************************************)
(* AttendanceDay for TLC: a regularization that says the employee left     *)
(* one minute into the overtime, a device that may say two.                *)
(***************************************************************************)
EXTENDS AttendanceDay, TLC

Sooner == [r \in Regs |-> 1]

Sym == Permutations(Workers)
=============================================================================
