----------------------------- MODULE PayrollRun -----------------------------
(***************************************************************************)
(* The payroll run (apps/api/src/modules/hr/payroll/runs): a run of a      *)
(* period goes draft, frozen, approved, paid, closed, or is cancelled on   *)
(* the way.  Freezing is a sequence of writes to three collections with no *)
(* transaction around them: attendance is stamped, the leave that was      *)
(* consumed in the period is copied, and the versioned write of the status *)
(* is the commit point.  Requests to the API overlap at every await, and   *)
(* any of them may die between two of its steps.                           *)
(*                                                                         *)
(* The leave module is modelled by the three writes the freeze can see: a  *)
(* request is filed, it is settled, and the entry that says what it        *)
(* consumed is appended to the ledger.                                     *)
(***************************************************************************)
EXTENDS Integers, FiniteSets

CONSTANTS
  Runs,      \* ids of payroll runs
  Calls,     \* API calls that may overlap
  Users,
  Periods,   \* months, as integers
  Leaves,    \* leave requests
  Span,      \* Span[l]: the periods the days of l touch
  None       \* null

ASSUME RunAssumption ==
  /\ Periods \subseteq Nat
  /\ Periods # {}
  /\ Runs # {}
  /\ Span \in [Leaves -> SUBSET Periods]
  /\ None \notin Users \cup Runs

VARIABLES
  run,        \* run[r]: the document of run r
  call,       \* call[c]: what call c has read and what it does next
  today,      \* the current month
  stamped,    \* the periods whose attendance rows carry frozenAt
  leave,      \* leave[l]: how far request l has come
  snapshot,   \* rows of hr_payroll_leave_snapshots: <<run, leave>>
  atFreeze    \* history: leave as the freeze that committed r had found it

vars == <<run, call, today, stamped, leave, snapshot, atFreeze>>

\* PAYROLL_RUN_STATUSES; "none" is an id not yet used.
Statuses == {"none", "draft", "frozen", "approved", "paid", "closed", "cancelled"}

\* The statuses a period is occupied by: the filter of ux_live_period.
Live == {"draft", "frozen", "approved", "paid", "closed"}

\* The statuses a run reaches through the freeze.
Priced == {"frozen", "approved", "paid", "closed"}

Ops == {"create", "freeze", "approve", "pay", "close", "cancel"}

\* The statuses each operation accepts, and the one it writes.
From(op) ==
  CASE op = "freeze"  -> {"draft"}
    [] op = "approve" -> {"frozen"}
    [] op = "pay"     -> {"approved"}
    [] op = "close"   -> {"paid"}
    [] op = "cancel"  -> {"draft", "frozen", "approved"}
    [] OTHER          -> {"none"}

To(op) ==
  CASE op = "freeze"  -> "frozen"
    [] op = "approve" -> "approved"
    [] op = "pay"     -> "paid"
    [] op = "close"   -> "closed"
    [] op = "cancel"  -> "cancelled"
    [] OTHER          -> "draft"

\* A request is unused, in flight (LEAVE_BLOCKING_STATUSES), completed with
\* its ledger entry still to be written, consumed, or over without an entry.
LeaveStates == {"none", "open", "completed", "consumed", "void"}

Run == [status : Statuses, v : Nat, period : Periods,
        frozenBy : Users \cup {None}, approvedBy : Users \cup {None}]

Steps == {"idle", "insert", "attendance", "entries", "rows", "write"}

Call == [step : Steps, op : Ops, run : Runs \cup {None}, v : Nat, period : Periods,
         by : Users \cup {None}, seen : [Leaves -> LeaveStates],
         todo : SUBSET Leaves]

Unfiled == [l \in Leaves |-> "none"]

Idle == [step |-> "idle", op |-> "create", run |-> None, v |-> 0,
         period |-> CHOOSE p \in Periods : TRUE, by |-> None,
         seen |-> Unfiled, todo |-> {}]

Init ==
  /\ run = [r \in Runs |->
              [status |-> "none", v |-> 0, period |-> Idle.period,
               frozenBy |-> None, approvedBy |-> None]]
  /\ call = [c \in Calls |-> Idle]
  /\ today \in Periods
  /\ stamped = {}
  /\ leave = Unfiled
  /\ snapshot = {}
  /\ atFreeze = [r \in Runs |-> Unfiled]

-----------------------------------------------------------------------------
(***************************************************************************)
(* The world around payroll.                                               *)
(***************************************************************************)

\* cairoToday() moves into the next month.
NextMonth ==
  /\ today \in Periods
  /\ today' = today + 1
  /\ UNCHANGED <<run, call, stamped, leave, snapshot, atFreeze>>

\* A request is filed; a type's backdateDays lets it reach into the past.
FileLeave(l) ==
  /\ leave[l] = "none"
  /\ leave' = [leave EXCEPT ![l] = "open"]
  /\ UNCHANGED <<run, call, today, stamped, snapshot, atFreeze>>

\* It is rejected or cancelled.
DropLeave(l) ==
  /\ leave[l] = "open"
  /\ leave' = [leave EXCEPT ![l] = "void"]
  /\ UNCHANGED <<run, call, today, stamped, snapshot, atFreeze>>

\* complete() first flips the status of the request ...
CompleteLeave(l) ==
  /\ leave[l] = "open"
  /\ leave' = [leave EXCEPT ![l] = "completed"]
  /\ UNCHANGED <<run, call, today, stamped, snapshot, atFreeze>>

\* ... and consumeForRequest() appends the ledger entry afterwards, or none
\* for a return before the first day.
AppendConsumption(l) ==
  /\ leave[l] = "completed"
  /\ \E s \in {"consumed", "void"} : leave' = [leave EXCEPT ![l] = s]
  /\ UNCHANGED <<run, call, today, stamped, snapshot, atFreeze>>

-----------------------------------------------------------------------------
(***************************************************************************)
(* create                                                                  *)
(***************************************************************************)

Occupies(r, p, statuses) == run[r].period = p /\ run[r].status \in statuses

\* The readable 409 looks for a draft or frozen run only.
StartCreate(c, p) ==
  /\ call[c].step = "idle"
  /\ ~ \E r \in Runs : Occupies(r, p, {"draft", "frozen"})
  /\ call' = [call EXCEPT ![c] =
                [Idle EXCEPT !.step = "insert", !.period = p]]
  /\ UNCHANGED <<run, today, stamped, leave, snapshot, atFreeze>>

\* Mutant: the index still has the filter it had before the lifecycle was
\* widened.
InsertRunNarrowIndex(c, r) ==
  /\ call[c].step = "insert"
  /\ run[r].status = "none"
  /\ IF \E q \in Runs : Occupies(q, call[c].period, {"draft", "frozen"})
       THEN UNCHANGED run
       ELSE run' = [run EXCEPT ![r].status = "draft", ![r].period = call[c].period]
  /\ call' = [call EXCEPT ![c] = Idle]
  /\ UNCHANGED <<today, stamped, leave, snapshot, atFreeze>>

\* Mutant: the document is inserted with a status outside the enumeration.
InsertRunUnknownStatus(c, r) ==
  /\ call[c].step = "insert"
  /\ run[r].status = "none"
  /\ run' = [run EXCEPT ![r].status = "open", ![r].period = call[c].period]
  /\ call' = [call EXCEPT ![c] = Idle]
  /\ UNCHANGED <<today, stamped, leave, snapshot, atFreeze>>

\* The insert, under the partial unique index ux_live_period: a duplicate
\* key ends the call with an error.
InsertRun(c, r) ==
  /\ call[c].step = "insert"
  /\ run[r].status = "none"
  /\ IF \E q \in Runs : Occupies(q, call[c].period, Live)
       THEN UNCHANGED run
       ELSE run' = [run EXCEPT ![r].status = "draft", ![r].period = call[c].period]
  /\ call' = [call EXCEPT ![c] = Idle]
  /\ UNCHANGED <<today, stamped, leave, snapshot, atFreeze>>

-----------------------------------------------------------------------------
(***************************************************************************)
(* The transitions: getById, the guards, the work, the versioned write.    *)
(* v is the version the client had seen when it sent the request, so it is *)
(* never above the one getById finds.  Who pays, closes or cancels decides *)
(* nothing, so only the freezer and the approver are named.                *)
(***************************************************************************)

Begin(c, op, r, v, u, step) ==
  /\ call[c].step = "idle"
  /\ run[r].status \in From(op)
  /\ v <= run[r].v
  /\ call' = [call EXCEPT ![c] =
                [step |-> step, op |-> op, run |-> r, v |-> v,
                 period |-> run[r].period, by |-> u, todo |-> {},
                 seen |-> IF op = "freeze" THEN leave ELSE Unfiled]]
  /\ UNCHANGED <<run, today, stamped, leave, snapshot, atFreeze>>

\* unsettledRequestsIn
Unsettled(p) == {l \in Leaves : leave[l] = "open" /\ p \in Span[l]}

\* consumedIn
Consumed(p) == {l \in Leaves : leave[l] = "consumed" /\ p \in Span[l]}

\* Mutant: attendance is left out of the freeze.
StartFreezeNoAttendance(c, r, v, u) ==
  /\ Begin(c, "freeze", r, v, u, "entries")
  /\ run[r].period < today
  /\ Unsettled(run[r].period) = {}

\* 1 of the freeze: check everything first.
StartFreeze(c, r, v, u) ==
  /\ Begin(c, "freeze", r, v, u, "attendance")
  /\ run[r].period < today
  /\ Unsettled(run[r].period) = {}

\* Mutant: whoever froze the run may approve it.
StartApproveAnyone(c, r, v, u) == Begin(c, "approve", r, v, u, "write")

StartApprove(c, r, v, u) ==
  /\ Begin(c, "approve", r, v, u, "write")
  /\ run[r].frozenBy # u

StartPay(c, r, v) == Begin(c, "pay", r, v, None, "write")

StartClose(c, r, v) == Begin(c, "close", r, v, None, "write")

StartCancel(c, r, v) == Begin(c, "cancel", r, v, None, "write")

\* 2: attendanceFreezePort.freeze, idempotent.
FreezeAttendance(c) ==
  /\ call[c].step = "attendance"
  /\ stamped' = stamped \cup {call[c].period}
  /\ call' = [call EXCEPT ![c].step = "entries"]
  /\ UNCHANGED <<run, today, leave, snapshot, atFreeze>>

\* 3: the ledger is read once ...
ReadEntries(c) ==
  /\ call[c].step = "entries"
  /\ call' = [call EXCEPT ![c].step = "rows", ![c].todo = Consumed(call[c].period)]
  /\ UNCHANGED <<run, today, stamped, leave, snapshot, atFreeze>>

\* Mutant: the key of a snapshot row does not name its run.
SnapshotRowSharedKey(c, l) ==
  /\ call[c].step = "rows"
  /\ l \in call[c].todo
  /\ IF \E r \in Runs : <<r, l>> \in snapshot
       THEN UNCHANGED snapshot
       ELSE snapshot' = snapshot \cup {<<call[c].run, l>>}
  /\ call' = [call EXCEPT ![c].todo = @ \ {l}]
  /\ UNCHANGED <<run, today, stamped, leave, atFreeze>>

\* ... and copied row by row, each an upsert under (run, entry, from).
SnapshotRow(c, l) ==
  /\ call[c].step = "rows"
  /\ l \in call[c].todo
  /\ snapshot' = snapshot \cup {<<call[c].run, l>>}
  /\ call' = [call EXCEPT ![c].todo = @ \ {l}]
  /\ UNCHANGED <<run, today, stamped, leave, atFreeze>>

SnapshotDone(c) ==
  /\ call[c].step = "rows"
  /\ call[c].todo = {}
  /\ call' = [call EXCEPT ![c].step = "write"]
  /\ UNCHANGED <<run, today, stamped, leave, snapshot, atFreeze>>

\* Mutant: the update is not filtered on the version.
VersionMatchesAnything(c) == run[call[c].run].v >= call[c].v

\* The filter of updateById.
VersionMatches(c) == run[call[c].run].v = call[c].v

\* 4, and the only write of the other transitions: updateById.
WriteStatus(c) ==
  /\ call[c].step = "write"
  /\ VersionMatches(c)
  /\ LET op == call[c].op
         r  == call[c].run
     IN /\ run' = [run EXCEPT
                     ![r].status = To(op),
                     ![r].v = @ + 1,
                     ![r].frozenBy = IF op = "freeze" THEN call[c].by ELSE @,
                     ![r].approvedBy = IF op = "approve" THEN call[c].by ELSE @]
        /\ atFreeze' = IF op = "freeze"
                         THEN [atFreeze EXCEPT ![r] = call[c].seen] ELSE atFreeze
  /\ call' = [call EXCEPT ![c] = Idle]
  /\ UNCHANGED <<today, stamped, leave, snapshot>>

\* The filter found nothing: StaleDocumentError.
StaleWrite(c) ==
  /\ call[c].step = "write"
  /\ ~ VersionMatches(c)
  /\ call' = [call EXCEPT ![c] = Idle]
  /\ UNCHANGED <<run, today, stamped, leave, snapshot, atFreeze>>

\* The process dies, or a call to the database fails, between two steps:
\* what was written stays.
Interrupt(c) ==
  /\ call[c].step # "idle"
  /\ call' = [call EXCEPT ![c] = Idle]
  /\ UNCHANGED <<run, today, stamped, leave, snapshot, atFreeze>>

-----------------------------------------------------------------------------
LeaveNext(l) ==
  \/ FileLeave(l) \/ DropLeave(l) \/ CompleteLeave(l) \/ AppendConsumption(l)

CallNext(c) ==
  \/ \E p \in Periods : StartCreate(c, p)
  \/ \E r \in Runs : InsertRun(c, r)
  \/ \E r \in Runs : \E v \in 0..run[r].v :
       \/ \E u \in Users : StartFreeze(c, r, v, u) \/ StartApprove(c, r, v, u)
       \/ StartPay(c, r, v) \/ StartClose(c, r, v) \/ StartCancel(c, r, v)
  \/ FreezeAttendance(c) \/ ReadEntries(c) \/ SnapshotDone(c)
  \/ \E l \in Leaves : SnapshotRow(c, l)
  \/ WriteStatus(c) \/ StaleWrite(c) \/ Interrupt(c)

Next ==
  \/ NextMonth
  \/ \E l \in Leaves : LeaveNext(l)
  \/ \E c \in Calls : CallNext(c)

Spec == Init /\ [][Next]_vars

-----------------------------------------------------------------------------
(***************************************************************************)
(* Properties.                                                             *)
(***************************************************************************)

\* The documents hold what their schemas say.
TypeOK ==
  /\ run \in [Runs -> Run]
  /\ call \in [Calls -> Call]
  /\ today \in Nat
  /\ stamped \subseteq Periods
  /\ leave \in [Leaves -> LeaveStates]
  /\ snapshot \subseteq Runs \X Leaves
  /\ atFreeze \in [Runs -> [Leaves -> LeaveStates]]

\* "A period has ONE run that is not cancelled, whatever stage it has
\* reached" (payroll-run.model.ts), although create() itself only looks for
\* a draft or frozen one and does so an await before it inserts.
OneLiveRun ==
  \A r, q \in Runs :
    /\ run[r].status \in Live
    /\ run[q].status \in Live
    /\ run[r].period = run[q].period
    => r = q

\* "TWO PEOPLE": a run that went past its freeze was approved by somebody
\* other than the one who froze it, however the calls interleaved.
TwoPeople ==
  \A r \in Runs : run[r].status \in {"approved", "paid", "closed"} =>
    /\ run[r].frozenBy # None
    /\ run[r].approvedBy # None
    /\ run[r].approvedBy # run[r].frozenBy

\* The attendance half of "a run is `frozen` only when every fact behind it
\* is": the status never runs ahead of the stamp.
FrozenAttendance ==
  \A r \in Runs : run[r].status \in Priced => run[r].period \in stamped

\* The leave half, for what had been consumed before the freeze began: it
\* is in the run's own snapshot, through interrupted freezes, a freeze that
\* another call repeats, and a cancelled run of the same period.
SnapshotComplete ==
  \A r \in Runs : run[r].status \in Priced =>
    \A l \in Leaves :
      atFreeze[r][l] = "consumed" /\ run[r].period \in Span[l]
        => <<r, l>> \in snapshot

\* The leave half for every request the freeze knew of: "freezing around it
\* would snapshot a silent hole" (freeze(), payroll-run.service.ts).
NoSilentHole ==
  \A r \in Runs : run[r].status \in Priced =>
    \A l \in Leaves :
      /\ atFreeze[r][l] \in {"completed", "consumed"}
      /\ leave[l] = "consumed"
      /\ run[r].period \in Span[l]
      => <<r, l>> \in snapshot

\* A step moves a run along the lifecycle or not at all: what is paid is
\* never cancelled, what is cancelled never comes back, and nothing is paid
\* that was not approved, whatever a call had read before it wrote.
Edge(s, t) ==
  \E op \in Ops : s \in From(op) /\ t = To(op)

Lifecycle ==
  [][\A r \in Runs : run'[r].status # run[r].status
                       => Edge(run[r].status, run'[r].status)]_vars

\* Seen from outside, a period has the status of the one run that occupies
\* it.
Current ==
  [p \in Periods |->
     IF \E r \in Runs : Occupies(r, p, Live)
       THEN run[CHOOSE r \in Runs : Occupies(r, p, Live)].status
       ELSE "none"]

Period == INSTANCE PayrollPeriod WITH current <- Current

\* Runs, calls, versions and crashes implement PayrollPeriod: no interleaving
\* shows another module a period that skips a stage, or that is open again
\* after it was paid.
ImplementsPayrollPeriod == Period!PeriodSpec

=============================================================================
