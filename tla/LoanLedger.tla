----------------------------- MODULE LoanLedger -----------------------------
(***************************************************************************)
(* One employee loan from its approval on                                  *)
(* (apps/api/src/modules/hr/employee-loans/employee-loan.service.ts)       *)
(* together with the payroll pass that repays it                           *)
(* (apps/api/src/modules/hr/payroll/payslips/payslip.service.ts).          *)
(*                                                                         *)
(* The schedule (intentions), the ledger (facts), the loan document and    *)
(* the payslips are four collections with no transaction across them.  A   *)
(* worker is one request being served; requests overlap at every await and *)
(* may die there.  Payroll runs are the abstract ones of PayrollPeriod.    *)
(***************************************************************************)
EXTENDS LoanScheduleMeaning, FiniteSetsExt

CONSTANTS
  Workers,
  FirstPeriod,   \* firstPeriod of the loan
  Horizon,       \* bound: months after it that belong to the model
  Principal,     \* in minor units
  Installments,  \* installmentCount of the loan
  MaxSeq,        \* bound: instalment rows ever written
  MaxRuns,       \* bound: payroll runs of one period
  MaxRunsInAll,  \* bound: payroll runs of all periods together
  MaxMishaps     \* bound: requests that die or begin beside another

PeriodSeq == periodsFrom(FirstPeriod, Horizon)
Periods == ToSet(PeriodSeq)
Seqs == 1..MaxSeq

ASSUME LoanAssumption ==
  /\ {Horizon, Principal, Installments, MaxSeq, MaxRuns, MaxRunsInAll,
      MaxMishaps} \subseteq Nat
  /\ FirstPeriod \in Nat \X (1..12)
  /\ Schedulable(Principal, Installments)
  /\ Installments <= Horizon
  /\ Installments <= MaxSeq

VARIABLES
  loan,     \* the loan document: status, version, externalSettlement
  row,      \* row[s]: the instalment with seq s
  ledger,   \* ledger[p]: the repayment of period p; seq 0 without one
  slips,    \* the payslips of the employee
  current,  \* status of the payroll run of each period
  runNo,    \* how many runs a period has had: names the current one
  req,      \* req[w]: what request w has read and does next
  mishaps   \* requests that died or began while another was under way

vars == <<loan, row, ledger, slips, current, runNo, req, mishaps>>
world == <<current, runNo>>

Period == INSTANCE PayrollPeriod

NoEntry == [seq |-> 0, amount |-> 0]
NoRow == [status |-> "none", period |-> FirstPeriod, amount |-> 0]

Idle == [step |-> "idle", op |-> "none", v |-> 0, was |-> "approved", paid |-> 0,
         cancel |-> {}, rows |-> <<>>, period |-> FirstPeriod, no |-> 0,
         lines |-> {}, entry |-> NoEntry, closed |-> {}]

Init ==
  /\ loan = [status |-> "approved", v |-> 0, external |-> 0]
  /\ row = [s \in Seqs |-> NoRow]
  /\ ledger = [p \in Periods |-> NoEntry]
  /\ slips = {}
  /\ Period!PeriodInit
  /\ runNo = [p \in Periods |-> 0]
  /\ req = [w \in Workers |-> Idle]
  /\ mishaps = 0

Planned == {s \in Seqs : row[s].status = "planned"}
Total(S) == SumFunctionOnSet([s \in Seqs |-> row[s].amount], S)
Repaid == SumFunctionOnSet([p \in Periods |-> ledger[p].amount], Periods)

\* remainingMinorOf an active loan: its externalSettlement is null.
remainingMinor == Principal - Repaid

-----------------------------------------------------------------------------
(***************************************************************************)
(* Payroll runs.                                                           *)
(***************************************************************************)

OpenRun(p) ==
  /\ runNo[p] < MaxRuns
  /\ SumFunctionOnSet(runNo, Periods) < MaxRunsInAll
  /\ Period!Open(p)
  /\ runNo' = [runNo EXCEPT ![p] = @ + 1]
  /\ UNCHANGED <<loan, row, ledger, slips, req, mishaps>>

\* A paid run, and a closed one, is to a loan an approved run that nobody
\* cancels, so these stages are left out.
MoveRun(p) ==
  /\ \/ Period!Freeze(p) \/ Period!Approve(p) \/ Period!Cancel(p)
  /\ UNCHANGED <<runNo, loan, row, ledger, slips, req, mishaps>>

-----------------------------------------------------------------------------
(***************************************************************************)
(* Requests on the loan.  The version in a request is checked against the  *)
(* document it reads (assertFresh), so it is the version read; a cancel    *)
(* with an older one would only fail at its update.                        *)
(***************************************************************************)

\* A request that begins while another is under way counts as a mishap.
Beside(w) ==
  IF \A v \in Workers \ {w} : req[v] = Idle
    THEN UNCHANGED mishaps
    ELSE mishaps < MaxMishaps /\ mishaps' = mishaps + 1

Begin(w, op, from, step) ==
  /\ req[w].step = "idle"
  /\ loan.status \in from
  /\ req' = [req EXCEPT ![w] = [Idle EXCEPT !.step = step, !.op = op,
                                            !.v = loan.v, !.was = loan.status]]
  /\ Beside(w)
  /\ UNCHANGED <<loan, row, ledger, slips, world>>

StartDisburse(w)   == Begin(w, "disburse", {"approved"}, "plan")
StartCancel(w)     == Begin(w, "cancel", {"approved"}, "update")
StartReschedule(w) == Begin(w, "reschedule", {"active"}, "months")
StartAccelerate(w) == Begin(w, "accelerate", {"active"}, "months")
StartSettle(w)     == Begin(w, "settle", {"active"}, "plan")
StartExit(w)       == Begin(w, "exit", {"approved", "active"}, "plan")

\* await payrollPeriodPort.frozen(), an await before the schedule is read.
ReadMonths(w) ==
  /\ req[w].step = "months"
  /\ req' = [req EXCEPT ![w].step = "plan", ![w].closed = Period!frozenPeriods]
  /\ UNCHANGED <<loan, row, ledger, slips, world, mishaps>>

Plan(w, op) == req[w].step = "plan" /\ req[w].op = op

Proceed(w, step, cancel, rows) ==
  /\ req' = [req EXCEPT ![w].step = step, ![w].cancel = cancel, ![w].rows = rows,
                         ![w].closed = {}]
  /\ UNCHANGED <<loan, row, ledger, slips, world, mishaps>>

\* assertPeriodsOpen, and the same test inside reschedule.
Open(rows, closed) == \A i \in DOMAIN rows : rows[i].period \notin closed

PlanDisburse(w) ==
  LET rows == generateSchedule(Principal, Installments, FirstPeriod) IN
    /\ Plan(w, "disburse")
    /\ Open(rows, Period!frozenPeriods)
    /\ Proceed(w, "write", {}, rows)

\* Math.max(0, ...planned.map((row) => row.seq)) + 1
nextSeq == Max({0} \cup Planned) + 1

\* The rows of a replacement, renumbered from nextSeq, if they fit the model.
Renumbered(rows) == [i \in DOMAIN rows |-> [rows[i] EXCEPT !.seq = nextSeq + i - 1]]

Fits(rows) ==
  /\ nextSeq + Len(rows) - 1 <= MaxSeq
  /\ \A i \in DOMAIN rows : rows[i].period \in Periods

\* reschedule: what is planned in a month that is not frozen is split again.
PlanReschedule(w) ==
  LET locked      == {s \in Planned : row[s].period \in req[w].closed}
      replaceable == Planned \ locked
  IN  /\ Plan(w, "reschedule")
      /\ replaceable # {}
      /\ \E count \in 1..Horizon, first \in Periods :
           /\ Schedulable(Total(replaceable), count)
           /\ LET rows == generateSchedule(Total(replaceable), count, first) IN
                /\ Fits(rows)
                /\ Open(rows, req[w].closed)
                /\ \A i \in DOMAIN rows, s \in locked : rows[i].period # row[s].period
                /\ Proceed(w, "withdraw", replaceable, Renumbered(rows))

\* The order of plannedForLoan.
InOrder(seqs) == \A i, j \in DOMAIN seqs : i < j => seqs[i] < seqs[j]

\* accelerate: the last months that are not frozen give up the extra.
PlanAccelerate(w) ==
  \E s \in Planned, extra \in 1..Principal :
    LET later == {t \in Planned : /\ Before(row[s].period, row[t].period)
                                  /\ row[t].period \notin req[w].closed}
        asRow(t) == [seq |-> t, period |-> row[t].period, amount |-> row[t].amount]
    IN  /\ Plan(w, "accelerate")
        /\ row[s].period \notin req[w].closed
        /\ \E order \in [1..Cardinality(later) -> later] :
             LET tail == [i \in DOMAIN order |-> asRow(order[i])]
                 rows == accelerateTail(asRow(s), tail, extra)
             IN  /\ InOrder(order)
                 /\ CanAbsorb(tail, extra)
                 /\ Fits(rows)
                 /\ Proceed(w, "withdraw", {s} \cup later, Renumbered(rows))

\* Mutant: what payroll has taken is not subtracted.
PlanSettleWholePrincipal(w) ==
  /\ Plan(w, "settle")
  /\ req' = [req EXCEPT ![w].step = "withdraw", ![w].paid = Principal]
  /\ UNCHANGED <<loan, row, ledger, slips, world, mishaps>>

\* Mutant: a settlement of less than what is owed is accepted.
PlanSettlePartly(w) ==
  /\ Plan(w, "settle")
  /\ remainingMinor > 0
  /\ \E paid \in 1..remainingMinor :
       req' = [req EXCEPT ![w].step = "withdraw", ![w].paid = paid]
  /\ UNCHANGED <<loan, row, ledger, slips, world, mishaps>>

\* settleExternally: the amount must equal what is still owed.
PlanSettle(w) ==
  /\ Plan(w, "settle")
  /\ remainingMinor > 0
  /\ req' = [req EXCEPT ![w].step = "withdraw", ![w].paid = remainingMinor]
  /\ UNCHANGED <<loan, row, ledger, slips, world, mishaps>>

\* onEmployeeExited: what is planned after the last month is doomed.
PlanExit(w) ==
  \E last \in Periods :
    /\ Plan(w, "exit")
    /\ Proceed(w, "withdraw", {s \in Planned : Before(last, row[s].period)}, <<>>)

AfterWithdraw(q) ==
  CASE q.op = "settle"                     -> "update"
    [] q.op = "exit" /\ q.was = "active"   -> "balance"
    [] q.op = "exit" /\ q.was = "approved" -> "update"
    [] OTHER                               -> "write"

\* updateMany: by _id, whatever the status has become; a settlement instead
\* withdraws what is planned at that moment.
Withdraw(w) ==
  LET gone == IF req[w].op = "settle" THEN Planned ELSE req[w].cancel IN
    /\ req[w].step = "withdraw"
    /\ row' = [s \in Seqs |->
                 IF s \in gone THEN [row[s] EXCEPT !.status = "cancelled"] ELSE row[s]]
    /\ req' = [req EXCEPT ![w].step = AfterWithdraw(req[w]), ![w].cancel = {}]
    /\ UNCHANGED <<loan, ledger, slips, world, mishaps>>

\* writeSchedule, one upsert under (loanId, seq): an existing row is left as
\* it is, and a second planned row of a month is a duplicate key.
WriteRow(w) ==
  LET r == Head(req[w].rows)
      missing == row[r.seq].status = "none"
      clash == \E t \in Planned : row[t].period = r.period
  IN  /\ req[w].step = "write"
      /\ \/ /\ missing /\ clash
            /\ req' = [req EXCEPT ![w] = Idle]
            /\ UNCHANGED row
         \/ /\ ~ (missing /\ clash)
            /\ row' = IF missing
                        THEN [row EXCEPT ![r.seq] = [status |-> "planned",
                                period |-> r.period, amount |-> r.amount]]
                        ELSE row
            /\ req' = [req EXCEPT
                 ![w].rows = Tail(@),
                 ![w].step = IF Len(req[w].rows) = 1 THEN "update" ELSE @]
      /\ UNCHANGED <<loan, ledger, slips, world, mishaps>>

\* An exit that leaves no balance changes nothing more.
ReadBalance(w) ==
  /\ req[w].step = "balance"
  /\ req' = [req EXCEPT ![w] =
               IF remainingMinor <= 0 THEN Idle ELSE [@ EXCEPT !.step = "update"]]
  /\ UNCHANGED <<loan, row, ledger, slips, world, mishaps>>

\* The status each request writes.  An exit says that a balance is left, and
\* a loan that was never paid out is simply cancelled.
Outcome(q) ==
  CASE q.op = "disburse"                   -> "active"
    [] q.op = "cancel"                     -> "cancelled"
    [] q.op \in {"settle", "pass"}         -> "settled"
    [] q.op = "exit" /\ q.was = "active"   -> "outstandingAtExit"
    [] q.op = "exit" /\ q.was = "approved" -> "cancelled"
    [] OTHER                               -> loan.status

\* A payslip pass turns to its next line, or is over.
NextLine(q) == IF q.lines = {} THEN Idle ELSE [q EXCEPT !.step = "record"]

\* Mutant: updateById without the filter on the version.
FreshAnyway(w) == TRUE

Fresh(w) == loan.v = req[w].v

\* updateById; a reschedule or an acceleration only bumps the version.
Update(w) ==
  /\ req[w].step = "update"
  /\ Fresh(w)
  /\ loan' = [status |-> Outcome(req[w]), v |-> loan.v + 1,
              external |-> loan.external + req[w].paid]
  /\ req' = [req EXCEPT ![w] =
               IF req[w].op = "pass" THEN NextLine(@) ELSE Idle]
  /\ UNCHANGED <<row, ledger, slips, world, mishaps>>

Stale(w) ==
  /\ req[w].step = "update"
  /\ ~ Fresh(w)
  /\ req' = [req EXCEPT ![w] = Idle]
  /\ UNCHANGED <<loan, row, ledger, slips, world, mishaps>>

-----------------------------------------------------------------------------
(***************************************************************************)
(* generateFor: the payslip pass of one employee of one run.               *)
(***************************************************************************)

StartPass(w, p) ==
  /\ req[w].step = "idle"
  /\ current[p] = "frozen"
  /\ req' = [req EXCEPT ![w] = [Idle EXCEPT !.step = "price", !.op = "pass",
                                            !.period = p, !.no = runNo[p]]]
  /\ Beside(w)
  /\ UNCHANGED <<loan, row, ledger, slips, world>>

\* deductionsDueFor
Due(p) ==
  {[seq |-> s, amount |-> row[s].amount] :
     s \in {t \in Seqs : /\ row[t].period = p
                         /\ \/ row[t].status = "planned" /\ loan.status = "active"
                            \/ row[t].status = "deducted"}}

PricePass(w) ==
  /\ req[w].step = "price"
  /\ req' = [req EXCEPT ![w].step = "slip", ![w].lines = Due(req[w].period)]
  /\ UNCHANGED <<loan, row, ledger, slips, world, mishaps>>

\* Mutant: the repayments are recorded by the pass that is about to write
\* the slip, before it is there.
WriteSlipAfterRecording(w) ==
  /\ req[w].step = "slip"
  /\ req' = [req EXCEPT ![w] = NextLine(@)]
  /\ UNCHANGED <<loan, row, ledger, slips, world, mishaps>>

\* The upsert under (runId, employeeId): only the pass that inserted the
\* slip goes on to record what it took.
WriteSlip(w) ==
  LET q == req[w]
      exists == \E x \in slips : x.period = q.period /\ x.no = q.no
  IN  /\ q.step = "slip"
      /\ IF exists
           THEN UNCHANGED slips
           ELSE slips' = slips \cup
                  {[period |-> q.period, no |-> q.no, lines |-> q.lines]}
      /\ req' = [req EXCEPT ![w] = IF exists THEN Idle ELSE NextLine(@)]
      /\ UNCHANGED <<loan, row, ledger, world, mishaps>>

\* Mutant: the instalment is marked even when the ledger already had the
\* month.
RecordEntryAndMark(w) ==
  \E line \in req[w].lines :
    /\ req[w].step = "record"
    /\ ledger' = [ledger EXCEPT ![req[w].period] = IF @ = NoEntry THEN line ELSE @]
    /\ req' = [req EXCEPT ![w].step = "mark", ![w].entry = line, ![w].lines = @ \ {line}]
    /\ UNCHANGED <<loan, row, slips, world, mishaps>>

\* recordDeducted: the ledger row under (loanId, period) ...
RecordEntry(w) ==
  \E line \in req[w].lines :
    LET inserted == ledger[req[w].period] = NoEntry IN
      /\ req[w].step = "record"
      /\ ledger' = IF inserted THEN [ledger EXCEPT ![req[w].period] = line] ELSE ledger
      /\ LET rest == [req[w] EXCEPT !.lines = @ \ {line}] IN
           req' = [req EXCEPT ![w] =
                     IF inserted THEN [rest EXCEPT !.step = "mark", !.entry = line]
                     ELSE NextLine(rest)]
      /\ UNCHANGED <<loan, row, slips, world, mishaps>>

\* Mutant: the instalment gets a status outside its enumeration.
MarkDeductedUnknownStatus(w) ==
  /\ req[w].step = "mark"
  /\ row' = [row EXCEPT ![req[w].entry.seq].status = "repaid"]
  /\ req' = [req EXCEPT ![w].step = "cleared", ![w].entry = NoEntry]
  /\ UNCHANGED <<loan, ledger, slips, world, mishaps>>

\* ... then the instalment, if it is still planned ...
MarkDeducted(w) ==
  LET s == req[w].entry.seq IN
    /\ req[w].step = "mark"
    /\ row' = [row EXCEPT ![s].status = IF @ = "planned" THEN "deducted" ELSE @]
    /\ req' = [req EXCEPT ![w].step = "cleared", ![w].entry = NoEntry]
    /\ UNCHANGED <<loan, ledger, slips, world, mishaps>>

\* ... then settleIfCleared reads the loan and what has been repaid.
settleIfCleared(w) ==
  /\ req[w].step = "cleared"
  /\ req' = [req EXCEPT ![w] =
               IF loan.status = "active" /\ remainingMinor <= 0
                 THEN [@ EXCEPT !.step = "update", !.v = loan.v] ELSE NextLine(@)]
  /\ UNCHANGED <<loan, row, ledger, slips, world, mishaps>>

\* The request dies between two of its writes.
Crash(w) ==
  /\ req[w].step # "idle"
  /\ mishaps < MaxMishaps
  /\ mishaps' = mishaps + 1
  /\ req' = [req EXCEPT ![w] = Idle]
  /\ UNCHANGED <<loan, row, ledger, slips, world>>

\* A check of the request refuses it before anything is written.
Refuse(w) ==
  /\ req[w].step = "plan"
  /\ req' = [req EXCEPT ![w] = Idle]
  /\ UNCHANGED <<loan, row, ledger, slips, world, mishaps>>

-----------------------------------------------------------------------------
Start(w) ==
  \/ StartDisburse(w) \/ StartCancel(w) \/ StartReschedule(w)
  \/ StartAccelerate(w) \/ StartSettle(w) \/ StartExit(w)

\* The steps of a request that has begun.
Serve(w) ==
  \/ ReadMonths(w) \/ PlanDisburse(w) \/ PlanReschedule(w) \/ PlanAccelerate(w)
  \/ PlanSettle(w) \/ PlanExit(w) \/ Refuse(w)
  \/ Withdraw(w) \/ WriteRow(w)
  \/ ReadBalance(w) \/ Update(w) \/ Stale(w)
  \/ PricePass(w) \/ WriteSlip(w) \/ RecordEntry(w)
  \/ MarkDeducted(w) \/ settleIfCleared(w)

Next ==
  \/ \E p \in Periods : OpenRun(p) \/ MoveRun(p)
  \/ \E w \in Workers : Start(w) \/ Serve(w) \/ Crash(w)
  \/ \E w \in Workers, p \in Periods : StartPass(w, p)

Spec == Init /\ [][Next]_vars

\* A request that has begun goes on, and the pass over a frozen run is run
\* again and again: "re-running the pass is the normal case".
Fairness ==
  \A w \in Workers :
    /\ WF_vars(Serve(w))
    /\ \A p \in Periods : SF_vars(StartPass(w, p))

FairSpec == Spec /\ Fairness

-----------------------------------------------------------------------------
(***************************************************************************)
(* Properties.                                                             *)
(***************************************************************************)

LoanStatuses == {"approved", "active", "settled", "cancelled", "outstandingAtExit"}
Entries == [seq : 0..MaxSeq, amount : Nat]

\* The four collections hold what their schemas say.
TypeOK ==
  /\ loan \in [status : LoanStatuses, v : Nat, external : Nat]
  /\ row \in [Seqs -> [status : {"none", "planned", "deducted", "cancelled"},
                       period : Periods, amount : Nat]]
  /\ ledger \in [Periods -> Entries]
  /\ \A x \in slips :
       x.period \in Periods /\ x.no \in 1..MaxRuns /\ x.lines \subseteq Entries
  /\ current \in [Periods -> Period!Stages]

\* "A ledger row claiming a payslip that was never written would be the one
\* inconsistency this whole design exists to prevent" (payslip.service.ts):
\* every repayment is a line of a payslip of its month.
LedgerBacked ==
  \A p \in Periods : ledger[p] # NoEntry =>
    \E x \in slips : x.period = p /\ ledger[p] \in x.lines

\* recordDeducted is "the ONLY thing that turns an intention into a fact":
\* an instalment that says deducted is the one its month's ledger row names,
\* although runs are cancelled and repeated and schedules are rewritten
\* under the pass.
DeductedIsRecorded ==
  \A s \in Seqs : row[s].status = "deducted" =>
    ledger[row[s].period] = [seq |-> s, amount |-> row[s].amount]

\* A loan that says settled has been repaid, through payroll or outside it.
SettledIsRepaid == loan.status = "settled" => Repaid + loan.external >= Principal

\* The payslip of a period that stands: of its latest run, not cancelled.
Stands(x) == x.no = runNo[x.period] /\ current[x.period] # "cancelled"

TakenLines(p) == UNION {x.lines : x \in {y \in slips : y.period = p /\ Stands(y)}}
TakenIn(p) == SumFunctionOnSet([line \in TakenLines(p) |-> line.amount], TakenLines(p))
TakenByPayroll == SumFunctionOnSet([p \in Periods |-> TakenIn(p)], Periods)

OneLine(x) == \A line, other \in x.lines : line = other

\* Nobody is made to repay more than the loan, by the ledger or by what the
\* payslips that stand took: settlements, accelerations, rewritten schedules
\* and second runs of a month included.  It holds of requests served one at a
\* time of which none has died: a pass that dies between the ledger row and the
\* mark on its instalment leaves a row that a reschedule counts as still owed,
\* and so does a pass that overlaps the request that reads what is owed.  What
\* payslips took is excepted when one of them has two lines of the loan: the
\* ledger has one row for the month, and the second line is never recorded.
NeverOverRepaid ==
  mishaps = 0 =>
    /\ Repaid + loan.external <= Principal
    /\ (\A x \in slips : Stands(x) => OneLine(x)) =>
         TakenByPayroll + loan.external <= Principal

\* The status moves along the lifecycle only: a request that had read an
\* older loan never revives a cancelled one or reopens a settled one.
LoanEdges ==
  {<<"approved", "active">>, <<"approved", "cancelled">>,
   <<"active", "settled">>, <<"active", "outstandingAtExit">>}

LoanLifecycle ==
  [][loan'.status # loan.status => <<loan.status, loan'.status>> \in LoanEdges]_vars

\* What the schedule arithmetic promises of every amount, evaluated once, in
\* the first state.  A schedule adds up to the principal over consecutive
\* months.
ScheduleSplitsDebt == Init => SplitsDebt

\* An acceleration moves instalments and never the debt.
AccelerationMovesCalendar == Init => MovesCalendar

Quiet == \A w \in Workers : req[w].step = "idle"

\* "Rescheduling moves instalments; it does not move the debt"
\* (loan-schedule.ts): what an active loan still owes is scheduled.
DebtIsScheduled ==
  loan.status = "active" /\ Quiet => Total(Planned) = remainingMinor

\* "an installment cannot be scheduled into a month that has already been
\* priced" (assertPeriodsOpen): no request is let through with such a row.
OnlyOpenMonths ==
  [][\A w \in Workers : req[w].step = "plan" =>
       \A i \in DOMAIN req'[w].rows :
         current[req'[w].rows[i].period] \notin {"frozen", "approved", "paid", "closed"}]_vars

\* What a payslip took reaches the ledger, if the run stays frozen and the
\* pass is run again: "a slip written and the recording interrupted - is
\* recoverable" (payslip.service.ts).
TakenIsRecorded ==
  \A p \in Periods :
    (\E x \in slips : x.period = p /\ x.no = runNo[p] /\ x.lines # {})
      ~> (ledger[p] # NoEntry \/ current[p] # "frozen")
=============================================================================
