# Verification of the ECMS API: events, payroll, loans, attendance, leave

TLA+ models of the parts of `apps/api` in which several documents have to stay
consistent although requests overlap, processes die and jobs are retried. Each
module is translated from the source files named in `PROJECT.json` ("map").
Paths below are relative to `src/apps/api/src/`.

## 1. The system

ECMS is a TypeScript monorepo: an HTTP API and a worker (`apps/api`), a web
application (`apps/web`) and shared schemas (`packages/contracts`). State is in
MongoDB; jobs go through BullMQ on Redis. A request handler is a sequence of
awaited database calls, so requests, jobs and event handlers interleave at every
`await`, and a process may die there. Only a few operations use a transaction;
the others rely on three devices:

* **the version filter**: `BaseRepository.updateById` updates
  `{ _id, __v: version }` and reports a stale document otherwise;
* **unique indexes**, often partial, with `$setOnInsert` upserts;
* **an order of writes with a commit point**: the status is written last.

Where one of the three is missing (a rule about several documents with only a
query before the write, a status written first, an update by `_id` alone) the
models show what holds nevertheless and what does not.

### Inventory

| Component | State | Operations | Hard behaviour | What makes it correct |
|---|---|---|---|---|
| Event bus, `platform/kernel` | outbox rows, processed-event markers, jobs | `emit`, `relayOutbox`, `dispatchReliable` | overlapping relays, retries, crashes between enqueue and mark | a committed event reaches every handler; no handler runs twice |
| Job queue, `infrastructure/queue` | BullMQ queues | `enqueue`, workers | retry after a partial attempt | used by the bus as above |
| Payroll run, `modules/hr/payroll/runs` | run, leave snapshot, attendance stamps | create, freeze, approve, pay, close, cancel | a freeze is many writes; overlapping calls; leave moves meanwhile | one live run a period, two people, facts pinned before the status |
| Compensation, `modules/hr/payroll/compensation`, `runs/leave-allocation.ts` | none (pure) | slice, count, prorate, price, total | month boundaries, half days, a mid-month change, rehire | a day is paid and charged once, in its month, at its rate |
| Payslips, `modules/hr/payroll/payslips` | payslips | `generateFor` | repeated and interrupted passes | one slip a run and employee, each taken line recorded |
| Employee loans, `modules/hr/employee-loans` | loan, instalments, repayment ledger | create, submit, decide, disburse, cancel, reschedule, accelerate, settle, exit, record | four collections, no transaction; payroll reads while a schedule is rewritten; one live loan an employee with no index | two people, what is decided is what was submitted; debt neither grows nor shrinks; settled means repaid |
| Loan schedule arithmetic | none (pure) | `generateSchedule`, `accelerateTail` | remainders, year end | sums are exact |
| Attendance, `modules/hr/attendance` | punches, day records, regularizations | compute, freeze, feed, approve overtime, regularize | a recomputation reads, then writes, while the day is frozen, granted or corrected | what payroll was fed does not move; overtime has its ceiling; a correction counts once |
| Leave, `modules/hr/leave-management` | requests, balances, leave ledger | file, decide, activate, complete, cancel, return early | status, cache and ledger are separate writes; two jobs and the users race | no day promised twice, each request holds its days, the cache is the ledger |
| Personnel actions, `modules/hr/employee-management/employee-actions` | actions, employee document | create, apply, apply what is scheduled; `driveLeaveAction` for leave | the check and the save are awaits apart; two drives, the scheduler and a dying call meet on one document | nobody is left on leave, an active leave shows |
| Approvals, `platform/approvals` | approval requests | submit, decide, delegate | concurrent decisions | each step decided once |
| Sessions, `platform/auth` | sessions, token hashes | login, refresh, revoke | two refreshes with one token | one valid token a session |
| Scheduler, `platform/scheduler` | task registry | declare, pause, resume, run | restart between registry and queue | a paused task does not fire |
| Gold, operations, fleet, atm, it | custody and registers | many | transfers of custody between documents | an item is in one place |
| Audit, notifications, files, rbac, settings | records | append, send, store | best effort after the commit point | not part of the consistency argument |

Interactions: payroll reads leave and stamps attendance through ports; the
attendance feed is what payroll prices from; loans ask payroll which months are
frozen and payroll asks loans what is due and hands back what a payslip took; a
leave drives the employee's status through a personnel action; services publish on the bus after their
commit point; the scheduler runs the outbox sweep and the two leave jobs.

The hazards (what is hard to test) are listed in `PROJECT.json`, each at its line
with the properties that would catch it.

## 2. Modules

| Module | Models | Composes |
|---|---|---|
| `EventBus` | both tiers of the bus, relay, dispatch job, markers | |
| `PayrollPeriod` | abstract: what other modules may rely on about the run of a period | |
| `PayrollRun` | runs, overlapping calls, the four steps of a freeze, leave as the freeze sees it | refines `PayrollPeriod` |
| `LeaveAllocation`, `Compensation` | the engine that prices a month, as operators | |
| `CompensationMeaning` | reference definitions for the two | `Compensation` |
| `LoanRequest` | the loans of one employee up to the decision and by status after it | |
| `LoanLedger` | one loan from approval on, with the payslip pass | `LoanScheduleMeaning`, `PayrollPeriod` |
| `LoanSchedule` | the arithmetic of a schedule, as operators | |
| `LoanScheduleMeaning` | reference definitions for it | `LoanSchedule` |
| `AttendanceDay` | one day of one employee: row, punches, freeze, feed, overtime, regularizations | |
| `Leave` | one employee's requests, balances and ledger over a new year, and the jobs | |
| `LeaveStatus` | what activation and completion do to the employee's status, through personnel actions and their scheduler | |
| `MC*` | values for TLC | |
| `EventBusProofs`, `PayrollRunProofs`, `LoanRequestProofs`, `LoanLedgerProofs`, `AttendanceDayProofs`, `LeaveProofs`, `CompensationProofs` | theorems | |
| `FoldTheorems` | lemmas: recursion and sums over finite sets | |

In every state machine a request being served is a record of what it has read
and what it does next, and an action is what happens between two awaits. History
variables are named as such where they are declared.

### EventBus

`outbox[e]` is the status of the row of event `e`, `relay[r]` one execution of
`relayOutbox` with what is left of its snapshot, `jobs[j]` a dispatch job with
its place in the subscription list, `processed` the markers, `handled` a history
of completed handler runs. Each await of `relayOutbox` and `dispatchReliable` is
an action of its own. Faults are a budget (`MaxFaults`) of named kinds: the queue
is unreachable, the marker insert fails (with or without effect), a handler
throws, a process dies. A dead worker's job is handed out again or given up,
which is what BullMQ does with a stalled job. A marker expires only when no relay
and no job can touch its event: thirty days are far beyond both.

### PayrollRun

`run[r]` is the document, `call[c]` an API call with what it has read. A call
carries any version the run has had, since a client may have seen an old one. A
transition is a start (read and guards) and one versioned write; a freeze stamps
attendance, reads the consumption ledger, copies it row by row, then writes.
`Interrupt` ends a call between any two steps and leaves what it wrote. Audit
rows, events and notices come after the commit point and change nothing here.
A leave request is abstracted to the writes a freeze can see; its slices in a
period are one snapshot row. `atFreeze[r]` is a history variable: leave as the
freeze that committed `r` found it.

### LeaveAllocation, Compensation

Operators without state. Dates are day numbers, amounts minor units. A
consumption counts half days, a slice hundredths of a day (what `round2` keeps);
the fractions in between are exact integers over the days of the span, so the
noise of floating point is the one thing left out of the rounding. The tier walk
of `takeBreakdown` is a fold with the loop's own state. A value that may be null
is a sequence of at most one element. Labels, the order of lines and warnings are
left out.

### LoanRequest

`loan[l]` is the document with its version, `req[w]` a request with the version
its caller had on the screen. `findLive` and the write of `submit` are two steps.
After the decision a loan only moves by status (`disburse`, `settle`, `exit`);
its instalments are the subject of `LoanLedger`. `asked[l]` remembers what was
last submitted and `together` the pairs of loans whose submits overlapped.

### LoanLedger

`loan`, `row` (instalments by `seq`), `ledger` (by period, its unique key) and
`slips` are the four collections; `req[w]` is a request being served. Runs of the
periods move as `PayrollPeriod` allows and a period may have several runs, one
after the other (`runNo`); paid and closed are left out of their stages, since to
a loan such a run is an approved one that nobody cancels. A request reads, plans, withdraws rows, writes rows one
by one and updates the loan; a payslip pass prices, writes the slip, and for each
line records the ledger row, marks the instalment and settles the loan if it is
cleared. `mishaps` counts, up to `MaxMishaps`, requests that began beside another
(`Beside`) and requests that died (`Crash`): it bounds the overlap in the run, and
what overlap breaks is stated of states with none. Abstractions: all months of the model lie in one employment span;
`deductionsDueFor` reads rows and loans in one step, which loses no outcome
because a withdrawn or closed loan gives the same empty answer whichever read is
first; the loan starts approved; `Refuse` stands for the checks on data left out.
Which months a schedule may use is bounded by `Horizon`, and `FirstPeriod` is a
month of some year (`LoanAssumption`). What the arithmetic promises is evaluated
once, in the first state.

### AttendanceDay

`day` is the row, `active` the punches nothing has superseded, `work[w]` a
request. `computeDay` is the steps existing, (left, delete,) inputs, upsert,
clamp: the row is read, the punches are read, the derivation is written, and the
overtime ceiling is a second write from the row the first one returned.
`freezeDays` is `computeDay` followed by the stamp, `readFrozenFeed` is the count
of unfrozen rows followed by the find. `approve` of overtime and the `apply` of a
regularization (supersede, insert, recompute or flag) are request kinds of their
own. What a day derives is abstracted to its overtime minutes and the punches it
was derived from (`basis`); `doubt` is a history mark on rows whose ceiling write
met another writer, and `alone` on regularizations applied with no derivation
under way. A day's punches, the employment dates and the end of the period move
by themselves.

### Leave

`doc[r]` is the request's status, `book[y]` the cached balance of a year,
`ledger[r][kind][y]` the unique ledger entry of a request, kind and year, and
`todo[w]` what a call still has to do: a list of tasks, one per database call.
`CatchUp` is the activation that follows an approval on or after the first day.
The two jobs are servers of their own. A mishap is a call that fails at any task
or a request that is moved (decided, cancelled, started) while it is being
submitted or, if that submit failed, before all its days are in the ledger;
`hasty` remembers the second kind. Every day counts as one. The drive of the
employee's status is left to `LeaveStatus`, and costs the balance nothing: an
error of it is caught where it is called.

### LeaveStatus

`doc[r]` and `outcome[r]` are the status and the `statusDriveOutcome` of a
request, `onLeave` the employee's status, `acts` the personnel actions by their
number, `todo[w]` the tasks of a call, one per await that reads or writes what
another call may touch. A drive is nine of them at most: `Read` (the employee,
`driveLeaveAction`), `Check` (`createAction` reads her again and compares version
and status), `Allocate` (the number), `Create` (the action, as scheduled),
`Reread` (`apply`), `Save` (the employee, under the version just read), `Stamp`
(the action, under its own version), `Mark` (`markFailed`), and for a start
`SaveOutcome`. `fresh` is the version filter: the servers whose copy of the
employee nobody has saved over since it was read. A flip by `Activate` or
`Complete` precedes the drive. The three jobs (activate, complete, apply what is
scheduled) are servers, each with one run at a time, which read their list once
and go through it in the order the code sorts it by. `Fail` is a database call
that fails, or a process that dies, at any task; `Caught` is where the code goes
on from there. `MaxCalls` bounds the calls under way at once, `MaxFaults` the
failures and `LastDay` the calendar. History: `holder` is the request that put
the employee on leave last, `blind` and `doubled` are starts that passed their
check before another was saved, `twice` the requests with an action the scheduler
swept while its own call was applying it, `hurried` those completed before their
outcome was saved, `broken` those of calls that failed. Left out are cancelled
and deleted requests, the other statuses of an employee and the other actions on
her; such an action that saves her during a drive fails the drive, as `Fail`
does.

## 3. Runs

| Run | Bounds | Shows |
|---|---|---|
| `bus_faults` | one reliable event with two handlers, one in-process event, 2 relays, 1 fault of any kind, 3 jobs of 2 attempts | no handler twice; no row marked without a job; every committed row is carried to the end or to the failed set; without the fault, every handler ran |
| `bus_at_least_once` (violation) | 1 event, 1 handler failure | the retry skips the handler that threw |
| `payroll_run` | 2 runs of one period, 2 calls, 2 users, 1 leave; for the arithmetic every entry, assignment and pair of employment spans in months of 3, 4 and 2 days | uniqueness, two people, stamp and snapshot before the status, refinement of `PayrollPeriod`; slices share out their entry, prorated days are counted days, a mid-month change pays the same, a leave day is charged once |
| `run_hole` (violation) | 1 run, 1 call, 1 leave | a freeze inside `complete()` misses the leave |
| `loan_request` | 2 loans with 4 and 1 writes, 2 users, 2 requests, 2 sets of terms | one live loan unless submits overlapped, a second person decides, what was submitted is decided, lifecycle |
| `loan_ledger` | 2 requests, 1 mishap, 2 months, 3 rows, 2 runs a month and 3 in all; for the schedule amounts to 13 and up to 4 rows of 1 to 3 | ledger backed by slips, a deducted instalment is its month's ledger row, settled means repaid, lifecycle; without the mishap, neither the ledger nor the payslips take more than the principal; exact split, and acceleration equals its definition |
| `loan_debt`, `loan_months` (violations) | 1 request at a time, 3 months, 4 rows | see Findings |
| `loan_slip` (violation) | 1 request at a time, 1 crash, fair | see Findings |
| `attendance_day` | 2 requests, 1 regularization, 2 rows, 1 grant, 1 correction of the employment, 3 minutes | what was fed does not move, a frozen row stays, the ceiling holds, a regularization counts once |
| `leave` | 2 overlapping requests across the turn of a year, 2 calls and 2 jobs, 3 days, 1 mishap | no day promised twice, days held exactly, cache equals ledger, no overlapping leave |
| `leave_status` | 2 leaves of a day, one after the other, 3 days, 1 user's call and 3 jobs of which 2 at once, 1 failure | nobody is left on leave, an active leave whose start was recorded shows |

Why the bounds are enough to be interesting: two relays are needed for a
duplicate job and two jobs for a duplicate handler run; two runs of one period
are a run and the one that replaces it after a cancellation, and two calls give
every pairwise race on a version (more calls, runs and periods are covered by the
proofs). Four writes let a loan be created, submitted, rejected and submitted
again, and the second loan gets in its way. A loan of two minor units over two
months has a row to withdraw, a row to keep and one to replace either, across the
turn of the year; the mishap of `loan_ledger` is one request that begins beside
another, or one death, and without it every sequence of requests, passes, second
runs and reschedules is met. Two rows of a day are a deleted one and
its successor, the regularization and the device disagree on the minute, and two
requests are every pair of recomputation, freeze, feed, grant and correction. In
`leave` one request crosses the year and the other is the first day of the second
year, whose balance has room for one of them or for both. In `leave_status` the
second leave begins when the first has to end, so that two starts, an end and a
start, a start and the sweep of its own action, and a return and its activation
meet. Months of 3, 4 and 2
days hold a leave of eight days across a boundary, whose shares do not round
evenly; its one or two tiers have rates that fall and rates that rise. Every bound is a constant of its module or named in it. Symmetry is used
for values no definition tells apart, in runs that check invariants and step
properties, never under fairness. `CHECK_DEADLOCK FALSE` is set where the system
may really come to rest: all runs closed or cancelled, all months used, all
requests ended.

### Fairness

`EventBus`: weak fairness of each relay and each job, because the scheduler
declares `platform.outboxSweep` every minute and workers take waiting jobs
forever. Nothing obliges a service to emit and faults are not fair.
`LoanLedger` (used by `loan_slip` only): weak fairness of a request that has begun
(node runs it on), strong fairness of the start of a pass over a frozen run, which
is what the comment in `payslip.service.ts` relies on ("re-running the pass is the
normal case"). A crash is never fair. The other modules state safety only:
nothing obliges a user to decide or a client to retry.

### Findings

* `bus_at_least_once`: ADR-008 promises at-least-once; the marker is written
  before the handler runs, so a handler that throws is skipped by the retry.
* `run_hole`: a leave being completed is neither in flight nor in the ledger for
  a moment, and a freeze in that moment leaves it out.
* `loan_debt`: a reschedule numbers its rows from the planned rows only, and an
  instalment that meets a used number is silently not written.
* `loan_months`: the months reported as closed are those whose run is frozen now;
  an approved or paid month is open to new instalments.
* `loan_slip`: recording happens only in the pass that inserted the slip, so an
  interrupted recording is not repaired by running the pass again.

### Limits met

Properties hold up to exceptions that the models showed to be necessary. Each is
written into the property, with a history variable where it needs one.

* Loans: two submits that overlap give an employee two live loans
  (`OneLoanAtATime`). A pass that dies between the ledger row and the mark on its
  instalment leaves the instalment planned, no later call marks it, and a
  reschedule charges it again; a settlement beside a pass that has priced the month
  takes the instalment twice. So `NeverOverRepaid` is stated where no request died
  or began beside another (`mishaps = 0`).
* Loans: `loan-repayment.model.ts:13-15` says that one loan owes at most one
  instalment in one month. The index behind it covers planned rows only
  (`loan-installment.model.ts:52`). When a month's run took its instalment and was
  cancelled, a reschedule may plan another in that month; the payslip of the next
  run takes both, and `recordDeducted` (`employee-loan.service.ts:765`) finds the
  month's ledger row and returns, so the second stays planned and is owed again.
  `NeverOverRepaid` therefore counts the ledger always, and what the payslips took
  where none that stands has two lines of the loan.
* Attendance: a `computeDay` that read an unfrozen row before the employment was
  corrected deletes it by `_id` even if it has been frozen meanwhile
  (`FrozenForGood`). The feed counts and then finds, so a row inserted in between
  is handed out unfrozen (`FeedNeverMoves` is about rows that were there). The
  ceiling of overtime is a second write: a freeze, grant or derivation in between
  can leave more released than derived (`CeilingHolds`, `doubt`). A
  regularization applied while a freeze or a derivation is under way may end up
  neither in the row nor flagged, or both (`RegularizedOnce`, `alone`).
* Leave: a request can be decided or cancelled before its reservation is
  answered; its release then has nothing to release, and every balance property
  excepts it. The same holds of a request whose submit died halfway: with two
  failures allowed TLC finds it decided days later and the cache below the
  ledger, a case the proof of `NeverOverbooked` pointed at. A shortfall in the second year undoes the first year in the cache
  only, so rows of a deleted request stay in the ledger. A call that dies after
  its status flip holds its days for good.
* The status of the employee (`StatusReturns`, `StatusShown`):
  - `employee-action.service.ts:254` says that apply validates again what is checked
    at create time; apply lets an employee who is on leave already pass (line 362).
    Two starts checked before either is saved are both applied, and the end of the
    one clears the status of the other (`doubled`).
  - `createAction` inserts an immediate action as scheduled (line 221), so
    `applyDueScheduled` (line 1159) may apply it too. Whichever stamps it second
    fails; if that is the drive, the request records `failed` and reports that the
    status is unchanged (`leave-request.service.ts:778`), although the employee is on
    leave, and its completion does not drive the status back (`twice`).
  - `activate` makes the request active before the drive and saves the outcome after
    it; a return that flips the request in between reads no outcome, and nothing
    takes the employee off leave (`hurried`, lines 785 and 876).
  - A `leaveEnd` that fails is logged and not tried again (line 888, `broken`).
  - A leave that starts the day after another may be activated before the first is
    completed: its start is refused and recorded as failed, and it is not shown.
    `StatusShown` is about starts that were applied.
* Compensation: the code says that employment spans never overlap, and a rehire
  dated on or before the exit makes them; then the days employed twice are
  prorated twice and counted once (`ForceIsCountedDays` states the difference).
  The comment in `leave-allocation.ts` says that slices sum to the entry exactly:
  with half or free days they do so to a hundredth of a day for each slice, for
  instance 7.5 days over eight, two of them in the first month, become 1.88 and
  5.63. The same comment carries a half day on its own calendar day; the code
  spreads it over all days of the entry.

## 4. Proofs

TLAPS checks, for every value of the constants that satisfies the assumptions
(`BusAssumption`, `RunAssumption`, `RequestAssumption`, `LoanAssumption`,
`DayAssumption`, `NullAssumption`, `LeaveAssumption`):

* `EventBusProofs`: `TypeCorrect`, `HandlersRunAtMostOnce`,
  `DispatchedRowsHaveJobs`, `NothingLostWithoutFaults`. At-most-once is not inductive: two jobs of one event
  must not both be about to run one handler. The invariant says that a job about
  to run a handler holds its marker alone, that the handler has not completed
  yet, and that a completed handler has its marker as long as anything could
  still deliver the event, which is what makes the expiry of markers harmless.
  Fault-free delivery rests on `CoverInv`: while nothing has failed, a marker
  stands for a call that was made or is about to be made, and a job has passed
  only handlers so covered, by itself or by the job whose marker it met.
* `PayrollRunProofs`: `RunTypeCorrect`, `OneRunPerPeriod`,
  `FreezerNeverApproves`, `FrozenPeriodsAreStamped`, `FreezePinsFacts`,
  `RunLifecycle` and `RunsImplementPeriods`, all from `RunInv`.
  Its heart is `GuardInv`: while a run still has the version a call carries, the
  guards the call passed are still true. That is why the version filter of
  `updateById` replaces a lock. `PinInv` follows a freeze: after its attendance
  step the period is stamped, and every entry it found is still to be copied or
  in the snapshot. The refinement uses `OneLiveRun` for the mapping: the status
  shown for a period is that of the run `CHOOSE` picks, and it is well defined
  because there is only one to pick. A versioned write then moves that period as
  `PayrollPeriod` allows, an insert opens it, and every other step is invisible.
* `LoanRequestProofs`: `RequestTypes`, `TwoPeopleOnEveryLoan`,
  `ApprovedIsWhatWasSubmitted`, `LoansKeepToTheirPath` and
  `OneLoanUnlessSubmitsOverlap`. The first four are the version filter again.
  The last needs more: a request about to write a submit has seen no live loan,
  and any loan that became live since was submitted beside it, so the pair is in
  `together`.
* `LoanLedgerProofs`: `RepaymentsHaveSlips`, `DeductedRowsAreRecorded`,
  `LoanFollowsLifecycle`, from `LoanInv` (`LoanInvariant`). A request's plan is
  sound when what it is about to record is backed: a pass that records has its
  slip, the line it carries is the amount the row had, and a row is marked only
  after its ledger entry. The proof has one lemma per request step that the plan
  stays sound and one that the four collections keep what they have.
  `LoanTypes` and `SettledLoansAreRepaid` come from `LoanData`
  (`LoanDataInvariant`), inductive relative to `LoanInv`: the rows a request holds
  fit the collections, and a request about to settle has seen the whole principal
  repaid, which stays true because the ledger only grows. `SchedulesSplitTheDebt`
  and `AccelerationsMoveTheCalendar` are for every amount and every list: a
  schedule of `base` a month and the remainder at the end is summed month by
  month, and the walk of `accelerateTail` is followed from the end of the list: a
  month is gone when the extra reaches past it, so the months kept are the first
  ones, and together they owe what was owed less the extra.
  `OneRequestNeverOverRepays` is about states of any number of workers in which no
  request has died or begun beside another. Its invariant `LoanBudget` says that
  then at most one is being served (`Turn`), and adds up what is repaid, what is
  planned and neither about to be withdrawn nor about to be marked, and what that
  request is about to write: the sum never exceeds the principal, because a plan
  costs what it withdraws, an instalment leaves the planned ones as its amount
  enters the ledger, and a settlement is what is still owed. It needs that a pass carries only lines that are planned
  while their month has no entry, that instalments are worth at least one unit,
  and that the rows of the first schedule have months of their own, so that none
  of them is refused as a duplicate and left out. What the payslips took is compared
  with the ledger by `SlipBook`: the only line of a slip is its month's ledger row,
  also when a second run prices the month again, or is about to become it while its
  instalment is still planned. So the slips that stand took at most what is repaid
  and that one instalment, which the budget still has.
* `AttendanceDayProofs`: `DayTypes`, `FeedOfAFrozenPeriod`, `FrozenRowsStay` and
  `OvertimeCeiling`. A row above its ceiling and not in doubt always has a
  remedy under way: some request still has the second write to do and holds the
  very row. A feed past its count knows the row is frozen, and a frozen row
  changes by no write but the deletion named in the property.
  `AppliedOnce` comes from an invariant of its own, `RegInv`. A regularization
  that was alone is followed through its request: nothing else derives or freezes the
  day meanwhile, so what the request read is what it writes over. What it leaves,
  a flag when the row was frozen and else a punch that every later derivation
  counts, no other step undoes.
* `LeaveProofs`: `OverlappingLeaveIsRejected`, `Typed`, `HoldingExact`,
  `CacheExact`, `GateKeepsWithinGrant`. Of two standing
  overlapping requests one is still to be rechecked, or the pair is one whose
  smaller id came after the larger had looked. The accounts need a chain of
  invariants, each inductive relative to the ones before: `Lists` (the tasks of a
  call are in the order the code does them, and one call does not do the same
  thing twice), `Fresh` (a request is inserted and its days are entered once),
  `Sole` (the tasks that keep the accounts of a request are all in one call,
  unless it was moved too early), `Phases` (its status, its ledger and those
  tasks agree: a row is there or about to be written) and `Balance` (the cache is
  the sum, over the requests, of what the ledger says and of what their tasks
  have written to the one and not yet to the other). A step of a call moves the
  share of one request and the sum by the same amount.
* `CompensationProofs`: theorems about the operators and not about steps.
  `ProrationIsCounting` and `ReplacementKeepsPay` hold for every month
  (`IsMonth`), item (`IsItem`) and number of employment spans. Days are counted as sets: `daysWithin` adds up the
  sizes of sets that are disjoint when the spans are, which is the size of their
  union, and a quantity of attended days is the size of the set of rows counted
  when there is one attended row a day (`AttendedDaily`). For two spans that
  overlap the difference is the overlap, as the property says. When an item is
  replaced, the days of the halves partition the days of the whole, so a count
  splits exactly and a rate by the rounding lemma: two amounts rounded apart and
  added are within one unit of the sum rounded once. Percentages are of a basic
  salary, leave costs the same whole number in both, and the totals differ by
  what their lines do.

  `SlicesShareOut` holds for every entry (`IsEntry`: any number of tiers whose
  half days add up to the entry's) with no two tiers at one rate (`ToldApart`)
  and every list of months that follow each other and cover it (`IsCalendar`). A
  rate is all a part of a slice says of its tier, so what the property says of
  one tier cannot be read off the slices when two share a rate; an entry whose
  leave type is configured with two such tiers is outside this theorem, and
  inside the next. The argument: laid end to end the tiers have `Ends` in grains (a
  hundredth of a day times the days of the span, so that all are integers); the
  walk of `takeBreakdown` meets tier i in exactly the `Share` of the slice that
  lies between two ends (`Walked`, carried over the fold). What it `Kept` of a
  share is rounded, and nothing below half a hundredth; over a month the kept
  amounts are a `Near` of what the entry `Reach`es in its days, exactly when it
  has whole days only, since every share is then a multiple of the grains. Over
  the months these differences telescope, and so do their bounds. A part lies
  between the two ends of its tier, so parts of later days belong to later tiers.

  `LeaveIsCharged` has two halves. For every list of slices (`IsLeave`), salary
  and month of at least a day, what the lines charge is what the slices leave
  unpaid, to half a unit a line: the rows of all slices, collected by a left fold
  (`Collected`), owe together what the slices do; the sum of the rows taken key
  by key is the sum over the shortfalls (`ShortfallsOwe`), so no grouping loses
  or repeats a day; a shortfall that has no line owes nothing; and each line is
  one rounding (`LineRounds`). For every entry of whole days with rates in
  percent, any tiers, equal rates too, and every month, its slice leaves unpaid
  what its days in that month do, each at the rate of its own tier
  (`LeaveOfMonth`): what is kept of a tier is then exactly 50 times the half days
  of the tier that lie in the month, and what other leave the month has is added
  to it (`UnpaidTogether`). Entries with half or free days have no day at one
  rate to compare with; for them the first half holds as it is and
  `SlicesShareOut` bounds the slices.
* `FoldTheorems`: what the others need of sums. A function defined by recursion
  over the subsets of a finite set exists and is unique, by induction over
  subsets stated with a set of good ones in place of an operator; from it the
  sum over a finite set is that of a set less one element plus that element, is
  monotonic, and changes by what one of its terms changes. `SumUnfolds` carries
  this to the sum of the community modules, and so to the operators of
  `Compensation`. A left fold over a sequence passes through the states of a
  chain that starts at its base and follows its steps, so it has whatever holds
  all along (`LeftFoldPasses`: the invariant is a set and not an operator). Sums
  telescope, scale, stay as close as their terms, join end to end, and may be
  taken key by key.

Only model-checked: liveness (`EventuallySettled`), which this prover does not
reach, and the two properties of `LeaveStatus`. Every other invariant and step
property of the passing runs is a theorem.

## 5. Not modelled

* Everywhere: permissions and scopes of routes, audit rows, notifications, file
  attachments, PDF and spreadsheet output, and the user interface. They do not
  feed back into the state above.
* Leave: the configured approval chain (a request is pending with the manager or
  with HR), the exit handler, `adjust`, grants, carry-over and expiry,
  `rebuildFor`, half days, weekends and holidays, yearly caps, types without a
  balance.
* The employee's status: what else writes it (other personnel actions, exit and
  rehire), a leave cancelled while it is active, the propagation of an action.
* Attendance: a punch recorded by hand that supersedes another one
  (`punch.service.ts:93-132`), devices and imports beyond the punch they record, shifts and the
  calendar, enrolments, exports.
* Compensation: the reads of `compensation.service.ts`, salary history, the
  paid-days figures shown next to the lines, warnings.
* Approvals, sessions, the scheduler's registry, gold and operations: see the
  plan. Most of the repository beyond these (the web application, contracts,
  fleet, atm, it, recruitment) is forms, lists and registers of independent
  documents: single-document writes whose correctness is validation, not
  interleaving.

## 6. Plan

Done: `EventBus`, `PayrollPeriod`, `PayrollRun`, `LoanSchedule`, `LoanRequest`,
`LoanLedger`, `AttendanceDay`, `Leave`, `LeaveStatus`, `LeaveAllocation`,
`Compensation`, and proofs about these state machines but `LeaveStatus`. Next, in
this order:

1. `Session`: refresh rotation, reuse detection, revocation.
2. `Employment`: exit, rehire and correction of dates as a state machine whose
   spans `Compensation` relies on.
3. `Approval` (the engine) and the approval chain of `Leave`.
4. `AttendanceDay` in place of `stamped` in `PayrollRun`, and `Leave` in place of
   its three writes.
5. `Scheduler` (registry against repeatable jobs); leave grants and carry-over.
6. Gold: a bar is in one vault through transfers and deliveries.
