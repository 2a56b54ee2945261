--------------------------- MODULE AttendanceDay ---------------------------
(***************************************************************************)
(* One employee-day of attendance: the row computeDay derives from the     *)
(* punches, the freeze that pins it and the feed payroll reads             *)
(* (attendance/day-records/day-record.service.ts), the overtime approval   *)
(* that writes the same row (overtime/overtime.service.ts) and the         *)
(* regularizations that change its punches                                 *)
(* (regularizations/regularization.service.ts).                            *)
(*                                                                         *)
(* Each request is a worker that stops between two calls of the database.  *)
(* The employee's other days take part only in the feed's count and are    *)
(* left out, as are leave, holidays and shifts: the inputs of a derivation *)
(* are the punches.  Left out too is the punch another one, recorded by    *)
(* hand, names as superseded: record stamps it after its insert, which     *)
(* would take it from active.                                              *)
(***************************************************************************)
EXTENDS Naturals, FiniteSets

CONSTANTS
  Regs,       \* regularizations filed for the day
  Workers,    \* requests being served
  Device,     \* the source of a punch no regularization made
  LastMinute, \* the last minute past the end of the shift that is the day's
  Clocked,    \* the ones a device or an import records
  Proposal,   \* Proposal[r]: the minute at which r says the employee left
  MaxRows,    \* bound: rows ever inserted for the day
  MaxGrants,  \* bound: overtime approvals written to a row
  MaxMoves,   \* bound: corrections of the employment
  None        \* null

\* The instants a punch may have: minutes past the end of the shift.
Minutes == 0..LastMinute

ASSUME DayAssumption ==
  /\ LastMinute \in Nat
  /\ Clocked \subseteq Minutes
  /\ Proposal \in [Regs -> Minutes]
  /\ {MaxRows, MaxGrants, MaxMoves} \subseteq Nat
  /\ Device \notin Regs

VARIABLES
  day,       \* the row, or None
  active,    \* the punches nothing has superseded, <<source, minute>>
  employed,  \* is the day inside the employment, as HR has recorded it
  over,      \* has the last day of the period passed
  reg,       \* reg[r]: the regularization
  work,      \* work[w]: what request w holds and does next
  rows,      \* rows inserted so far, the source of fresh ids
  moves,     \* corrections of the employment so far
  fed        \* history: the first row payroll was given, or None

vars == <<day, active, employed, over, reg, work, rows, moves, fed>>
env == <<employed, over, moves>>

Punches == (Regs \cup {Device}) \X Minutes
Open == {"pendingManager", "pendingHr"}
Frozen == day # None /\ day.frozen

Idle == [step |-> "idle", op |-> None, reg |-> None, row |-> None, punches |-> {},
         minutes |-> 0]

\* The requests that derive the day.
Computing == {w \in Workers : work[w].op \in {"compute", "freeze", "apply"}}

Init ==
  /\ day = None
  /\ active = {<<Device, 0>>}   \* the employee has clocked in
  /\ employed = TRUE
  /\ over = FALSE
  /\ reg = [r \in Regs |-> [status |-> "none", postFreeze |-> FALSE, alone |-> FALSE]]
  /\ work = [w \in Workers |-> Idle]
  /\ rows = 0
  /\ moves = 0
  /\ fed = None

-----------------------------------------------------------------------------
(***************************************************************************)
(* The world: punches arrive, HR corrects the employment, the month ends.  *)
(***************************************************************************)
\* A punch that supersedes none.
RecordPunch(m) ==
  /\ active' = active \cup {<<Device, m>>}
  /\ UNCHANGED <<day, env, reg, work, rows, fed>>

CorrectEmployment ==
  /\ moves < MaxMoves
  /\ moves' = moves + 1
  /\ employed' = ~employed
  /\ UNCHANGED <<day, active, over, reg, work, rows, fed>>

PeriodEnds ==
  /\ ~over
  /\ over' = TRUE
  /\ UNCHANGED <<day, active, employed, reg, work, rows, moves, fed>>

-----------------------------------------------------------------------------
(***************************************************************************)
(* computeDay, for a recompute, the freeze or an approved regularization.  *)
(***************************************************************************)
Hold(w, step, row, punches) ==
  work' = [work EXCEPT ![w] = [@ EXCEPT !.step = step, !.row = row, !.punches = punches]]
Step(w, step) == Hold(w, step, None, {})
Leave(w) == work' = [work EXCEPT ![w] = Idle]

\* The requests another derivation starts beside are no longer alone; this
\* is history for RegularizedOnce.
Meets(w) == {r \in Regs : \E x \in Workers \ {w} : work[x].op = "apply" /\ work[x].reg = r}
Disturbed(w) == [r \in Regs |-> [reg[r] EXCEPT !.alone = @ /\ r \notin Meets(w)]]

\* computeDay first reads the employee; nothing else of it depends on when.
Entry == IF employed THEN "existing" ELSE "left"

\* recompute, the nightly sweep, an event's span: each is one computeDay.
BeginCompute(w) ==
  /\ work[w].step = "idle"
  /\ work' = [work EXCEPT ![w].op = "compute", ![w].step = Entry]
  /\ reg' = Disturbed(w)
  /\ UNCHANGED <<day, active, env, rows, fed>>

\* freezePeriod derives first ...
BeginFreeze(w) ==
  /\ work[w].step = "idle"
  /\ over
  /\ work' = [work EXCEPT ![w].op = "freeze", ![w].step = Entry]
  /\ reg' = Disturbed(w)
  /\ UNCHANGED <<day, active, env, rows, fed>>

\* What follows computeDay in the request that called it.
Return(w) == IF work[w].op = "freeze" THEN Step(w, "stamp") ELSE Leave(w)

\* The §4 guard: a frozen day is not derived again.
ReadExisting(w) ==
  /\ work[w].step = "existing"
  /\ IF Frozen THEN Return(w) ELSE Step(w, "inputs")
  /\ UNCHANGED <<day, active, env, reg, rows, fed>>

\* Not employed: a row that is there and not frozen goes ...
ReadLeft(w) ==
  /\ work[w].step = "left"
  /\ IF Frozen \/ day = None THEN Return(w)
     ELSE Hold(w, "delete", day, {})
  /\ UNCHANGED <<day, active, env, reg, rows, fed>>

\* ... by its id alone.
DeleteDay(w) ==
  /\ work[w].step = "delete"
  /\ day' = IF day # None /\ day.id = work[w].row.id THEN None ELSE day
  /\ Return(w)
  /\ UNCHANGED <<active, env, reg, rows, fed>>

ReadInputs(w) ==
  /\ work[w].step = "inputs"
  /\ Hold(w, "upsert", None, active)
  /\ UNCHANGED <<day, active, env, reg, rows, fed>>

\* Mutant: the minute the employee left is counted too.
DerivedInclusive(ps) ==
  IF Cardinality(ps) < 2 THEN 0
  ELSE (CHOOSE m \in {p[2] : p \in ps} : \A p \in ps : p[2] <= m) + 1

\* deriveDay: one punch is an incomplete day; of two or more the last one
\* says when the employee left.
Derived(ps) ==
  IF Cardinality(ps) < 2 THEN 0
  ELSE CHOOSE m \in {p[2] : p \in ps} : \A p \in ps : p[2] <= m

\* The row the upsert leaves; the version is not bumped.  A frozen row does
\* not match the filter and the insert runs into ux_employee_workDate.
\* "basis" and "doubt" are history: the punches the row was derived from, and
\* whether a write since the last clean derivation was based on an older row.
Upserted(ps) ==
  IF day = None THEN [id |-> rows + 1, v |-> 0, frozen |-> FALSE, approved |-> 0,
                      overtime |-> Derived(ps), basis |-> ps, doubt |-> FALSE]
  ELSE IF day.frozen THEN None
  ELSE [day EXCEPT !.overtime = Derived(ps), !.basis = ps]

Upsert(w) ==
  LET new == Upserted(work[w].punches) IN
  /\ work[w].step = "upsert"
  /\ day = None => rows < MaxRows
  /\ rows' = IF day = None THEN rows + 1 ELSE rows
  /\ IF new = None
     THEN Leave(w) /\ UNCHANGED day   \* duplicate key: the whole request fails
     ELSE day' = new /\ Hold(w, "clamp", new, {})
  /\ UNCHANGED <<active, env, reg, fed>>

\* Mutant: what was approved stays approved.
ReleasableAll(row, required) == IF required THEN row.approved ELSE row.overtime

\* D5: at most what was derived, and all of it if nobody has to approve.
Releasable(row, required) ==
  IF required /\ row.approved <= row.overtime THEN row.approved ELSE row.overtime

\* The second write of computeDay, from the row the first one returned.
Clamp(w) ==
  /\ work[w].step = "clamp"
  /\ \E required \in BOOLEAN :
       LET row == work[w].row
           amount == Releasable(row, required)
           clean == day = row
       IN day' = IF day = None \/ Frozen \/ day.id # row.id THEN day
                 ELSE IF amount = row.approved THEN [day EXCEPT !.doubt = @ /\ ~clean]
                 ELSE [day EXCEPT !.approved = amount, !.doubt = ~clean]
  /\ Return(w)
  /\ UNCHANGED <<active, env, reg, rows, fed>>

-----------------------------------------------------------------------------
(***************************************************************************)
(* The freeze and the feed.                                                *)
(***************************************************************************)
\* ... and stamps what is not frozen yet.
Stamp(w) ==
  /\ work[w].step = "stamp"
  /\ day' = IF day = None \/ Frozen THEN day
            ELSE [day EXCEPT !.frozen = TRUE,
                             !.doubt = @ \/ \E x \in Workers : work[x].step = "clamp"]
  /\ Leave(w)
  /\ UNCHANGED <<active, env, reg, rows, fed>>

\* Mutant: rows still fluid are fed.
CountAnyway(w) ==
  /\ work[w].step = "idle"
  /\ work' = [work EXCEPT ![w].op = "feed", ![w].step = "find", ![w].row = day]
  /\ UNCHANGED <<day, active, env, reg, rows, fed>>

\* readFrozenFeed refuses a period with a row that is not frozen ...
CountUnfrozen(w) ==
  /\ work[w].step = "idle"
  /\ day = None \/ Frozen
  /\ work' = [work EXCEPT ![w].op = "feed", ![w].step = "find", ![w].row = day]
  /\ UNCHANGED <<day, active, env, reg, rows, fed>>

\* ... and then reads whatever rows there are.  The history keeps the first
\* one that was there at the count.
FindRows(w) ==
  /\ work[w].step = "find"
  /\ fed' = IF fed = None /\ day # None /\ work[w].row # None /\ work[w].row.id = day.id
            THEN day ELSE fed
  /\ Leave(w)
  /\ UNCHANGED <<day, active, env, reg, rows>>

-----------------------------------------------------------------------------
(***************************************************************************)
(* Overtime approval.                                                      *)
(***************************************************************************)
\* The version is the one its caller saw: an older one can only fail.
ReadForApproval(w, m) ==
  /\ work[w].step = "idle"
  /\ day # None
  /\ ~day.frozen
  /\ m <= day.overtime
  /\ day.v < MaxGrants
  /\ work' = [work EXCEPT ![w].op = "approve", ![w].step = "grant", ![w].row = day,
                          ![w].minutes = m]
  /\ UNCHANGED <<day, active, env, reg, rows, fed>>

\* Mutant: the repository's write conditions are forgotten.
GrantableByVersion(row) == day # None /\ day.id = row.id /\ day.v = row.v

\* updateById: the same row, the same version, and not frozen.
Grantable(row) == day # None /\ day.id = row.id /\ day.v = row.v /\ ~day.frozen

ApproveOvertime(w) ==
  /\ work[w].step = "grant"
  /\ day' = IF ~Grantable(work[w].row) THEN day
            ELSE [day EXCEPT !.approved = work[w].minutes, !.v = @ + 1,
                             !.doubt = @ \/ day.overtime # work[w].row.overtime]
  /\ Leave(w)
  /\ UNCHANGED <<active, env, reg, rows, fed>>

-----------------------------------------------------------------------------
(***************************************************************************)
(* Regularizations.                                                        *)
(***************************************************************************)
\* create: the query for an open one and the insert are two steps.
BeginFile(w, r) ==
  /\ work[w].step = "idle"
  /\ reg[r].status = "none"
  /\ \A k \in Regs : reg[k].status \notin Open
  /\ \A x \in Workers : work[x].reg # r   \* r is the document this request makes
  /\ work' = [work EXCEPT ![w].op = "file", ![w].step = "create", ![w].reg = r]
  /\ UNCHANGED <<day, active, env, reg, rows, fed>>

\* With a manager it starts at the first step; without one, or when HR files
\* it, at the second.
FileRegularization(w) ==
  /\ work[w].step = "create"
  /\ \E status \in Open : reg' = [reg EXCEPT ![work[w].reg].status = status]
  /\ Leave(w)
  /\ UNCHANGED <<day, active, env, rows, fed>>

\* decide and cancel write with a filter on the status and the version they
\* read, so each is one step.  The manager's approval is not the last one.
DecideRegularization(r, status) ==
  /\ \/ reg[r].status \in Open /\ status \in {"rejected", "cancelled"}
     \/ reg[r].status = "pendingManager" /\ status = "pendingHr"
  /\ reg' = [reg EXCEPT ![r].status = status]
  /\ UNCHANGED <<day, active, env, work, rows, fed>>

\* HR's approval goes on to apply.
ApproveRegularization(w, r) ==
  /\ work[w].step = "idle"
  /\ reg[r].status = "pendingHr"
  /\ reg' = [Disturbed(w) EXCEPT ![r].status = "approved", ![r].alone = (Computing = {})]
  /\ work' = [work EXCEPT ![w].op = "apply", ![w].step = "previous", ![w].reg = r]
  /\ UNCHANGED <<day, active, env, rows, fed>>

ReadPrevious(w) ==
  /\ work[w].step = "previous"
  /\ Hold(w, "in", None, active)
  /\ UNCHANGED <<day, active, env, reg, rows, fed>>

\* The proposed punches are inserted one after the other ...
InsertPunch(w) ==
  LET r == work[w].reg IN
  /\ work[w].step \in {"in", "out"}
  /\ active' = active \cup {<<r, IF work[w].step = "in" THEN 0 ELSE Proposal[r]>>}
  /\ Hold(w, IF work[w].step = "in" THEN "out" ELSE "supersede", None, work[w].punches)
  /\ UNCHANGED <<day, env, reg, rows, fed>>

\* ... and supersede the ones that were read.
SupersedePrevious(w) ==
  /\ work[w].step = "supersede"
  /\ active' = active \ work[w].punches
  /\ Step(w, "frozen")
  /\ UNCHANGED <<day, env, reg, rows, fed>>

\* Mutant: the row is derived in every case and nothing is flagged.
AfterApplyAlways == Entry

\* A frozen day keeps its row and the regularization is flagged; any other
\* is derived again.
AfterApply == IF Frozen THEN "flag" ELSE Entry

ReadFrozen(w) ==
  /\ work[w].step = "frozen"
  /\ Step(w, AfterApply)
  /\ UNCHANGED <<day, active, env, reg, rows, fed>>

FlagPostFreeze(w) ==
  /\ work[w].step = "flag"
  /\ reg' = [reg EXCEPT ![work[w].reg].postFreeze = TRUE]
  /\ Leave(w)
  /\ UNCHANGED <<day, active, env, rows, fed>>

-----------------------------------------------------------------------------
World == (\E m \in Clocked : RecordPunch(m)) \/ CorrectEmployment \/ PeriodEnds

ComputeDay(w) ==
  \/ BeginCompute(w) \/ ReadExisting(w) \/ ReadLeft(w)
  \/ DeleteDay(w) \/ ReadInputs(w) \/ Upsert(w) \/ Clamp(w)

FreezeAndFeed(w) == BeginFreeze(w) \/ Stamp(w) \/ CountUnfrozen(w) \/ FindRows(w)

Overtime(w) == (\E m \in Minutes : ReadForApproval(w, m)) \/ ApproveOvertime(w)

Regularize(w) ==
  \/ \E r \in Regs : BeginFile(w, r) \/ ApproveRegularization(w, r)
  \/ FileRegularization(w) \/ ReadPrevious(w) \/ InsertPunch(w)
  \/ SupersedePrevious(w) \/ ReadFrozen(w) \/ FlagPostFreeze(w)

Decide == \E r \in Regs, s \in {"pendingHr", "rejected", "cancelled"} : DecideRegularization(r, s)

Next ==
  \/ World
  \/ \E w \in Workers : ComputeDay(w) \/ FreezeAndFeed(w) \/ Overtime(w) \/ Regularize(w)
  \/ Decide

Spec == Init /\ [][Next]_vars

-----------------------------------------------------------------------------
Rows == [id : 1..MaxRows, v : Nat, frozen : BOOLEAN, approved : Minutes,
         overtime : Minutes, basis : SUBSET Punches, doubt : BOOLEAN]

\* null is no row and no operation.
ASSUME NullAssumption ==
  /\ None \notin Rows
  /\ None \notin {"compute", "freeze", "apply", "file", "feed", "approve"}

Steps == {"idle", "existing", "left", "delete", "inputs", "upsert", "clamp",
          "stamp", "find", "grant", "create", "previous", "in", "out", "supersede",
          "frozen", "flag"}

Statuses == {"none", "approved", "rejected", "cancelled"} \cup Open

Applying == {"previous", "in", "out"}
Holding == {"delete", "clamp", "grant"}

Requests ==
  {q \in [step : Steps, reg : Regs \cup {None}, row : Rows \cup {None},
          op : {None, "compute", "freeze", "apply", "file", "feed", "approve"},
          punches : SUBSET Punches, minutes : Minutes] :
    /\ q.step \in Applying => q.reg \in Regs
    /\ q.step \in Holding => q.row \in Rows}

(***************************************************************************)
(* The shape of the state: a request that will write back a row has read   *)
(* one, and one that inserts punches does it for a regularization.         *)
(***************************************************************************)
TypeOK ==
  /\ day \in Rows \cup {None}
  /\ active \subseteq Punches
  /\ employed \in BOOLEAN /\ over \in BOOLEAN
  /\ reg \in [Regs -> [status : Statuses, postFreeze : BOOLEAN, alone : BOOLEAN]]
  /\ work \in [Workers -> Requests]
  /\ rows \in 0..MaxRows /\ moves \in 0..MaxMoves
  /\ fed \in Rows \cup {None}

(***************************************************************************)
(* "The feed of a frozen period never moves" (overtime.service.ts): the    *)
(* row payroll was given is frozen, and as long as it exists another read  *)
(* finds it the same.  This holds for a read that counted the row it       *)
(* returned: readFrozenFeed counts first and finds later, so a row         *)
(* inserted in between is handed over while it can still change.           *)
(***************************************************************************)
FeedNeverMoves ==
  fed # None =>
    /\ fed.frozen
    /\ day # None /\ day.id = fed.id => day = fed

(***************************************************************************)
(* There is no unfreeze: whatever request is at work, a frozen row stays   *)
(* exactly as it is.  One hole remains: a computeDay that found the day    *)
(* outside the employment before the freeze deletes the row after it,      *)
(* because deleteOne does not repeat the condition.                        *)
(***************************************************************************)
FrozenForGood ==
  [][Frozen => \/ day' = day
               \/ \E w \in Workers : work[w].step = "delete" /\ ~work[w].row.frozen
                                     /\ day' = None]_vars

(***************************************************************************)
(* "The ceiling is absolute - never above the derived minutes": outside    *)
(* the window between the two writes of computeDay, more overtime than was *)
(* derived can only be released on a row where a grant or a clamp was      *)
(* based on an older row, or the freeze fell into that window.  The next   *)
(* undisturbed derivation of an unfrozen day repairs it.                   *)
(***************************************************************************)
CeilingHolds ==
  day # None /\ (\A w \in Workers : work[w].step # "clamp") =>
    day.approved <= day.overtime \/ day.doubt

(***************************************************************************)
(* A regularization counts once: on a frozen day its punch is in the row   *)
(* or it is flagged to flow forward, not both and not neither.  This holds *)
(* for one applied while no derivation or freeze was under way, and whose  *)
(* punch is still the truth.                                               *)
(***************************************************************************)
RegularizedOnce ==
  \A r \in Regs :
    LET punch == <<r, Proposal[r]>> IN
    /\ reg[r].status = "approved" /\ reg[r].alone
    /\ \A w \in Workers : ~(work[w].op = "apply" /\ work[w].reg = r)
    /\ punch \in active
    /\ Frozen
    => reg[r].postFreeze = (punch \notin day.basis)
=============================================================================
