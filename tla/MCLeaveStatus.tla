--------------------------- MODULE MCLeaveStatus ---------------------------
(***************************************************************************)
(* LeaveStatus for TLC: two leaves of a day each, one after the other.     *)
(***************************************************************************)
EXTENDS LeaveStatus

DayEach == <<0, 1>>
=============================================================================
