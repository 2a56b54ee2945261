--------------------------- MODULE PayrollPeriod ----------------------------
(***************************************************************************)
(* What the rest of the system may rely on about payroll runs: a period    *)
(* has at most one run that counts, it moves along one lifecycle, and once *)
(* it is paid the period is never open again.                              *)
(***************************************************************************)

CONSTANT Periods

VARIABLE current   \* current[p]: status of the run of p, "none" without one

Stages == {"none", "draft", "frozen", "approved", "paid", "closed"}

PeriodInit == current = [p \in Periods |-> "none"]

Move(p, from, to) ==
  /\ current[p] \in from
  /\ current' = [current EXCEPT ![p] = to]

Open(p)    == Move(p, {"none"}, "draft")
Freeze(p)  == Move(p, {"draft"}, "frozen")
Approve(p) == Move(p, {"frozen"}, "approved")
Pay(p)     == Move(p, {"approved"}, "paid")
Close(p)   == Move(p, {"paid"}, "closed")
Cancel(p)  == Move(p, {"draft", "frozen", "approved"}, "none")

PeriodNext ==
  \E p \in Periods :
    Open(p) \/ Freeze(p) \/ Approve(p) \/ Pay(p) \/ Close(p) \/ Cancel(p)

PeriodSpec == PeriodInit /\ [][PeriodNext]_current

\* The periods the other modules refuse to touch: those whose run is frozen.
frozenPeriods == {p \in Periods : current[p] = "frozen"}
=============================================================================
