------------------------- MODULE AttendanceDayProofs -------------------------
(***************************************************************************)
(* Proofs about AttendanceDay, for any number of requests and              *)
(* regularizations and any length of the day.                              *)
(***************************************************************************)
EXTENDS AttendanceDay, FiniteSetTheorems, WellFoundedInduction, TLAPS

\* A set of naturals that is not empty has a least element.
LEMMA LeastNatural ==
  ASSUME NEW S \in SUBSET Nat, S # {}
  PROVE  \E x \in S : \A y \in S : x <= y
<1> DEFINE R == {ss \in Nat \X Nat : ss[1] < ss[2]}
<1>1. OpToRel(<, Nat) = R
  BY DEF OpToRel
<1>2. IsWellFoundedOn(R, Nat)
  BY <1>1, NatLessThanWellFounded, Zenon
<1>3. PICK x \in S : \A y \in S : ~ (<<y, x>> \in R)
  <2> HIDE DEF R
  <2> QED
    BY <1>2, WFMin
<1>4. ASSUME NEW y \in S PROVE x <= y
  <2>1. ~(y < x)
    <3> SUFFICES ASSUME y < x PROVE <<y, x>> \in R
      BY <1>3
    <3> QED
      OBVIOUS
  <2> QED
    BY <2>1
<1> QED
  BY <1>4

\* deriveDay returns an instant of the day.
LEMMA DerivedIsAMinute ==
  ASSUME NEW ps \in SUBSET Punches
  PROVE  Derived(ps) \in Minutes
<1>1. CASE Cardinality(ps) < 2
  BY <1>1, DayAssumption DEF Derived, Minutes
<1>2. CASE ~(Cardinality(ps) < 2)
  <2> DEFINE T == {p[2] : p \in ps}
             Above == {u \in Minutes : \A p \in ps : p[2] <= u}
  <2>1. ps # {}
    BY <1>2, FS_EmptySet
  <2>2. \A p \in ps : p[2] \in Minutes
    BY DEF Punches
  <2>3. LastMinute \in Above /\ Above \subseteq Nat
    BY <2>2, DayAssumption DEF Minutes
  <2>4. PICK x \in Above : \A y \in Above : x <= y
    BY <2>3, LeastNatural
  <2>5. x \in T
    <3> SUFFICES ASSUME x \notin T PROVE FALSE
      OBVIOUS
    <3>1. \A p \in ps : p[2] < x
      BY <2>2, <2>4 DEF Minutes
    <3>2. PICK p \in ps : TRUE
      BY <2>1
    <3>3. x - 1 \in Minutes
      <4>1. p[2] \in Nat /\ p[2] < x
        BY <3>1, <3>2, <2>2 DEF Minutes
      <4>2. x \in Minutes
        BY <2>4
      <4> QED
        BY <4>1, <4>2, DayAssumption DEF Minutes
    <3>4. x - 1 \in Above
      BY <3>1, <3>3, <2>2 DEF Minutes
    <3> QED
      BY <3>4, <2>4 DEF Minutes
  <2>6. \E m \in T : \A p \in ps : p[2] <= m
    BY <2>5, <2>4
  <2> QED
    BY <1>2, <2>6, <2>2 DEF Derived
<1> QED
  BY <1>1, <1>2
-----------------------------------------------------------------------------

\* A request that goes on, and one that is over, keep their types.
LEMMA HoldTypes ==
  ASSUME TypeOK, NEW w \in Workers, NEW step \in Steps, NEW row \in Rows \cup {None},
         NEW ps \in SUBSET Punches, Hold(w, step, row, ps),
         step \in Applying => work[w].step \in Applying,
         step \in Holding => row \in Rows
  PROVE  work' \in [Workers -> Requests]
<1>1. PICK q : q = [work[w] EXCEPT !.step = step, !.row = row, !.punches = ps]
  OBVIOUS
<1>2. work[w] \in Requests
  BY DEF TypeOK
<1>3. q \in Requests
  BY <1>1, <1>2 DEF Requests
<1>4. work' = [work EXCEPT ![w] = q]
  BY <1>1 DEF Hold
<1> QED
  BY <1>3, <1>4 DEF TypeOK

LEMMA StepTypes ==
  ASSUME TypeOK, NEW w \in Workers, NEW step \in Steps \ (Applying \cup Holding),
         Step(w, step)
  PROVE  work' \in [Workers -> Requests]
<1>1. Hold(w, step, None, {})
  BY DEF Step
<1> QED
  BY <1>1, HoldTypes

LEMMA LeaveTypes ==
  ASSUME TypeOK, NEW w \in Workers, Leave(w)
  PROVE  work' \in [Workers -> Requests]
<1>1. Idle \in Requests
  BY DayAssumption DEF Idle, Requests, Steps, Minutes, Applying, Holding
<1> QED
  BY <1>1 DEF Leave, TypeOK

LEMMA ReturnTypes ==
  ASSUME TypeOK, NEW w \in Workers, Return(w)
  PROVE  work' \in [Workers -> Requests]
<1>1. CASE Step(w, "stamp")
  BY <1>1, StepTypes DEF Steps, Applying, Holding
<1>2. CASE Leave(w)
  BY <1>2, LeaveTypes
<1> QED
  BY <1>1, <1>2 DEF Return

\* What the upsert writes is a row or, over a frozen one, nothing.
LEMMA UpsertedTypes ==
  ASSUME TypeOK, NEW ps \in SUBSET Punches, day = None => rows < MaxRows
  PROVE  Upserted(ps) \in Rows \cup {None}
<1>1. Derived(ps) \in Minutes
  BY DerivedIsAMinute
<1>2. CASE day = None
  BY <1>1, <1>2, DayAssumption DEF Upserted, Rows, TypeOK, Minutes
<1>3. CASE day # None
  BY <1>1, <1>3 DEF Upserted, Rows, TypeOK
<1> QED
  BY <1>2, <1>3

\* The bookkeeping of RegularizedOnce leaves the regularizations as they are.
LEMMA DisturbedTypes ==
  ASSUME TypeOK, NEW w \in Workers
  PROVE  Disturbed(w) \in [Regs -> [status : Statuses, postFreeze : BOOLEAN, alone : BOOLEAN]]
BY DEF Disturbed, TypeOK

\* The row, the regularizations and the requests keep their types.
THEOREM DayTypes == Spec => []TypeOK
<1>1. Init => TypeOK
  <2> SUFFICES ASSUME Init PROVE TypeOK
    OBVIOUS
  <2>1. Idle \in Requests
    BY DayAssumption DEF Idle, Requests, Steps, Minutes, Applying, Holding
  <2>2. <<Device, 0>> \in Punches
    BY DayAssumption DEF Punches, Minutes
  <2> QED
    <3>1. reg \in [Regs -> [status : Statuses, postFreeze : BOOLEAN, alone : BOOLEAN]]
      BY DEF Init, Statuses
    <3>2. work \in [Workers -> Requests]
      BY <2>1 DEF Init
    <3>3. rows \in 0..MaxRows /\ moves \in 0..MaxMoves
      BY DayAssumption DEF Init
    <3> QED
      BY <2>2, <3>1, <3>2, <3>3 DEF Init, TypeOK
<1>2. TypeOK /\ [Next]_vars => TypeOK'
  <2> SUFFICES ASSUME TypeOK, [Next]_vars PROVE TypeOK'
    OBVIOUS
  <2>1. ASSUME NEW m \in Clocked, RecordPunch(m) PROVE TypeOK'
    BY <2>1, DayAssumption DEF RecordPunch, TypeOK, Punches, env
  <2>2. CASE CorrectEmployment
    BY <2>2, DayAssumption DEF CorrectEmployment, TypeOK
  <2>3. CASE PeriodEnds
    BY <2>3 DEF PeriodEnds, TypeOK
  <2>4. ASSUME NEW w \in Workers, ComputeDay(w) PROVE TypeOK'
    <3>1. CASE BeginCompute(w)
      <4>1. work' \in [Workers -> Requests]
        BY <3>1 DEF BeginCompute, TypeOK, Requests, Entry, Steps, Applying, Holding
      <4> QED
        BY <3>1, <4>1, DisturbedTypes DEF BeginCompute, TypeOK, env
    <3>2. CASE ReadExisting(w)
      <4>1. Return(w) \/ Step(w, "inputs")
        BY <3>2 DEF ReadExisting
      <4>2. work' \in [Workers -> Requests]
        BY <4>1, ReturnTypes, StepTypes DEF Steps, Applying, Holding
      <4> QED
        BY <3>2, <4>2 DEF ReadExisting, TypeOK, env
    <3>3. CASE ReadLeft(w)
      BY <3>3, ReturnTypes, HoldTypes DEF ReadLeft, TypeOK, env, Steps, Applying, Holding
    <3>4. CASE DeleteDay(w)
      BY <3>4, ReturnTypes DEF DeleteDay, TypeOK, env
    <3>5. CASE ReadInputs(w)
      BY <3>5, HoldTypes DEF ReadInputs, TypeOK, env, Steps, Applying, Holding
    <3>6. CASE Upsert(w)
      <4>1. work[w].punches \in SUBSET Punches
        BY DEF TypeOK, Requests
      <4>2. PICK new : new = Upserted(work[w].punches)
        OBVIOUS
      <4>3. new \in Rows \cup {None} /\ rows' \in 0..MaxRows
        BY <3>6, <4>1, <4>2, UpsertedTypes, DayAssumption DEF Upsert, TypeOK
      <4>4. work' \in [Workers -> Requests] /\ day' \in Rows \cup {None}
        BY <3>6, <4>2, <4>3, LeaveTypes, HoldTypes DEF Upsert, TypeOK, Steps, Applying, Holding
      <4> QED
        BY <3>6, <4>3, <4>4 DEF Upsert, TypeOK, env
    <3>7. CASE Clamp(w)
      <4>1. day' \in Rows \cup {None}
        <5>1. work[w].row \in Rows
          BY <3>7 DEF Clamp, TypeOK, Requests, Holding
        <5>2. PICK amount :
                /\ \E required \in BOOLEAN : amount = Releasable(work[w].row, required)
                /\ day' = IF day = None \/ Frozen \/ day.id # work[w].row.id THEN day
                          ELSE IF amount = work[w].row.approved
                               THEN [day EXCEPT !.doubt = @ /\ ~(day = work[w].row)]
                          ELSE [day EXCEPT !.approved = amount, !.doubt = ~(day = work[w].row)]
          BY <3>7 DEF Clamp
        <5>3. amount \in Minutes
          BY <5>1, <5>2 DEF Releasable, Rows
        <5>4. CASE day = None
          BY <5>2, <5>4
        <5>5. CASE day \in Rows
          BY <5>2, <5>3, <5>5 DEF Rows
        <5> QED
          BY <5>4, <5>5 DEF TypeOK
      <4> QED
        BY <3>7, <4>1, ReturnTypes DEF Clamp, TypeOK, env
    <3> QED
      BY <2>4, <3>1, <3>2, <3>3, <3>4, <3>5, <3>6, <3>7 DEF ComputeDay
  <2>5. ASSUME NEW w \in Workers, FreezeAndFeed(w) PROVE TypeOK'
    <3>1. CASE BeginFreeze(w)
      <4>1. work' \in [Workers -> Requests]
        BY <3>1 DEF BeginFreeze, TypeOK, Requests, Entry, Steps, Applying, Holding
      <4> QED
        BY <3>1, <4>1, DisturbedTypes DEF BeginFreeze, TypeOK, env
    <3>2. CASE Stamp(w)
      <4>1. day' \in Rows \cup {None}
        <5>1. CASE day = None
          BY <3>2, <5>1 DEF Stamp, Frozen
        <5>2. CASE day \in Rows
          <6>1. PICK d \in BOOLEAN : day' = day \/ day' = [day EXCEPT !.frozen = TRUE, !.doubt = d]
            BY <3>2, <5>2 DEF Stamp, Rows
          <6> QED
            BY <5>2, <6>1 DEF Rows
        <5> QED
          BY <5>1, <5>2 DEF TypeOK
      <4> QED
        BY <3>2, <4>1, LeaveTypes DEF Stamp, TypeOK, env
    <3>3. CASE CountUnfrozen(w)
      <4>1. work' \in [Workers -> Requests]
        BY <3>3 DEF CountUnfrozen, TypeOK, Requests, Steps, Applying, Holding
      <4> QED
        BY <3>3, <4>1 DEF CountUnfrozen, TypeOK, env
    <3>4. CASE FindRows(w)
      BY <3>4, LeaveTypes DEF FindRows, TypeOK, env
    <3> QED
      BY <2>5, <3>1, <3>2, <3>3, <3>4 DEF FreezeAndFeed
  <2>6. ASSUME NEW w \in Workers, Overtime(w) PROVE TypeOK'
    <3>1. ASSUME NEW m \in Minutes, ReadForApproval(w, m) PROVE TypeOK'
      <4>1. work' \in [Workers -> Requests]
        BY <3>1 DEF ReadForApproval, TypeOK, Requests, Steps, Applying, Holding
      <4> QED
        BY <3>1, <4>1 DEF ReadForApproval, TypeOK, env
    <3>2. CASE ApproveOvertime(w)
      <4>1. day' \in Rows \cup {None}
        <5>1. CASE day = None
          BY <3>2, <5>1 DEF ApproveOvertime, Grantable
        <5>2. CASE day \in Rows
          <6>1. work[w].minutes \in Minutes
            BY <3>2 DEF ApproveOvertime, TypeOK, Requests
          <6>2. PICK d \in BOOLEAN :
                  day' = day \/ day' = [day EXCEPT !.approved = work[w].minutes, !.v = @ + 1,
                                                  !.doubt = d]
            BY <3>2, <5>2 DEF ApproveOvertime, Rows
          <6> QED
            <7>1. CASE day' = day
              BY <5>2, <7>1
            <7>2. CASE day' # day
              <8>1. day' = [id |-> day.id, v |-> day.v + 1, frozen |-> day.frozen,
                            approved |-> work[w].minutes, overtime |-> day.overtime,
                            basis |-> day.basis, doubt |-> d]
                BY <5>2, <6>2, <7>2 DEF Rows
              <8> QED
                BY <5>2, <6>1, <8>1 DEF Rows
            <7> QED
              BY <7>1, <7>2
        <5> QED
          BY <5>1, <5>2 DEF TypeOK
      <4> QED
        BY <3>2, <4>1, LeaveTypes DEF ApproveOvertime, TypeOK, env
    <3> QED
      BY <2>6, <3>1, <3>2 DEF Overtime
  <2>7. ASSUME NEW w \in Workers, Regularize(w) PROVE TypeOK'
    <3>1. ASSUME NEW r \in Regs, BeginFile(w, r) PROVE TypeOK'
      <4>1. work' \in [Workers -> Requests]
        BY <3>1 DEF BeginFile, TypeOK, Requests, Steps, Applying, Holding
      <4> QED
        BY <3>1, <4>1 DEF BeginFile, TypeOK, env
    <3>2. ASSUME NEW r \in Regs, ApproveRegularization(w, r) PROVE TypeOK'
      <4>1. work' \in [Workers -> Requests]
        BY <3>2 DEF ApproveRegularization, TypeOK, Requests, Steps, Applying, Holding
      <4>2. reg' \in [Regs -> [status : Statuses, postFreeze : BOOLEAN, alone : BOOLEAN]]
        BY <3>2, DisturbedTypes DEF ApproveRegularization, Statuses
      <4> QED
        BY <3>2, <4>1, <4>2 DEF ApproveRegularization, TypeOK, env
    <3>3. CASE FileRegularization(w)
      <4>1. PICK status \in Open : reg' = [reg EXCEPT ![work[w].reg].status = status]
        BY <3>3 DEF FileRegularization
      <4>2. reg' \in [Regs -> [status : Statuses, postFreeze : BOOLEAN, alone : BOOLEAN]]
        BY <4>1 DEF TypeOK, Statuses
      <4> QED
        BY <3>3, <4>2, LeaveTypes DEF FileRegularization, TypeOK, env
    <3>4. CASE ReadPrevious(w)
      BY <3>4, HoldTypes DEF ReadPrevious, TypeOK, env, Steps, Applying, Holding
    <3>5. CASE InsertPunch(w)
      <4>1. work[w].reg \in Regs /\ work[w].punches \in SUBSET Punches
        BY <3>5 DEF InsertPunch, TypeOK, Requests, Applying
      <4>2. active' \subseteq Punches
        BY <3>5, <4>1, DayAssumption DEF InsertPunch, TypeOK, Punches, Minutes
      <4>3. PICK step \in {"out", "supersede"} : Hold(w, step, None, work[w].punches)
        BY <3>5 DEF InsertPunch
      <4>4. work' \in [Workers -> Requests]
        BY <3>5, <4>1, <4>3, HoldTypes DEF InsertPunch, Steps, Applying, Holding
      <4> QED
        BY <3>5, <4>2, <4>4 DEF InsertPunch, TypeOK, env
    <3>6. CASE SupersedePrevious(w)
      <4>1. work' \in [Workers -> Requests]
        BY <3>6, StepTypes DEF SupersedePrevious, Steps, Applying, Holding
      <4> QED
        BY <3>6, <4>1 DEF SupersedePrevious, TypeOK, env
    <3>7. CASE ReadFrozen(w)
      <4>1. AfterApply \in Steps \ (Applying \cup Holding)
        BY DEF AfterApply, Entry, Steps, Applying, Holding
      <4>2. work' \in [Workers -> Requests]
        BY <3>7, <4>1, StepTypes DEF ReadFrozen
      <4> QED
        BY <3>7, <4>2 DEF ReadFrozen, TypeOK, env
    <3>8. CASE FlagPostFreeze(w)
      BY <3>8, LeaveTypes DEF FlagPostFreeze, TypeOK, env
    <3> QED
      BY <2>7, <3>1, <3>2, <3>3, <3>4, <3>5, <3>6, <3>7, <3>8 DEF Regularize
  <2>8. CASE Decide
    BY <2>8 DEF Decide, DecideRegularization, TypeOK, env, Statuses, Open
  <2>9. CASE UNCHANGED vars
    BY <2>9 DEF vars, env, TypeOK
  <2> QED
    BY <2>1, <2>2, <2>3, <2>4, <2>5, <2>6, <2>7, <2>8, <2>9 DEF Next, World
<1> QED
  BY <1>1, <1>2, PTL DEF Spec

-----------------------------------------------------------------------------
(***************************************************************************)
(* The invariant.  A row that a feed has counted, or has returned, is      *)
(* pinned: it is frozen, its id is used up, and the day has that id only   *)
(* with that row.  A row to delete was read before it was frozen.          *)
(***************************************************************************)
Pinned(row) ==
  /\ row.frozen
  /\ row.id <= rows
  /\ day # None /\ day.id = row.id => day = row

Reads ==
  /\ day # None => day.id <= rows
  /\ fed # None => Pinned(fed)
  /\ \A w \in Workers :
       /\ work[w].step = "find" /\ work[w].row # None => Pinned(work[w].row)
       /\ work[w].step = "delete" => ~work[w].row.frozen

Act(w) == ComputeDay(w) \/ FreezeAndFeed(w) \/ Overtime(w) \/ Regularize(w)

\* What a step does to the requests: only its own moves, and one that will
\* write, or has counted, has just read the row.
LEMMA WorkStep ==
  ASSUME TypeOK, NEW w \in Workers, Act(w)
  PROVE  /\ \A x \in Workers \ {w} : work'[x] = work[x]
         /\ work[w].step = "clamp" => Clamp(w)
         /\ work'[w].step = "find" => work'[w].row = day /\ (day = None \/ Frozen)
         /\ work'[w].step = "delete" => work'[w].row = day /\ day # None /\ ~Frozen
         /\ work'[w].step = "grant" => work'[w].row = day /\ work'[w].minutes <= day.overtime
         /\ work'[w].step = "clamp" => Upsert(w) /\ work'[w].row = day'
<1> DEFINE Others == \A x \in Workers \ {w} : work'[x] = work[x]
           Quiet == work'[w].step \notin {"find", "delete", "grant", "clamp"}
<1>1. work[w] \in Requests /\ work \in [Workers -> Requests]
  BY DEF TypeOK
<1>2. ASSUME Leave(w) PROVE Others /\ Quiet
  BY <1>1, <1>2 DEF Leave, Idle
<1>3. ASSUME NEW step, NEW row, NEW ps, Hold(w, step, row, ps)
      PROVE  Others /\ work'[w].step = step /\ work'[w].row = row
  BY <1>1, <1>3 DEF Hold, Requests
<1>4. ASSUME NEW step, Step(w, step) PROVE Others /\ work'[w].step = step
  BY <1>3, <1>4 DEF Step
<1>5. ASSUME Return(w) PROVE Others /\ Quiet
  BY <1>2, <1>4, <1>5 DEF Return
<1>6. CASE ComputeDay(w)
  <2>1. CASE BeginCompute(w)
    BY <2>1, <1>1 DEF BeginCompute, Requests, Entry
  <2>2. CASE ReadExisting(w)
    <3>1. Return(w) \/ Step(w, "inputs")
      BY <2>2 DEF ReadExisting
    <3> QED
      BY <2>2, <3>1, <1>4, <1>5 DEF ReadExisting
  <2>3. CASE ReadLeft(w)
    <3>1. Return(w) \/ (~Frozen /\ day # None /\ Hold(w, "delete", day, {}))
      BY <2>3 DEF ReadLeft
    <3> QED
      BY <2>3, <3>1, <1>3, <1>5 DEF ReadLeft
  <2>4. CASE DeleteDay(w)
    BY <2>4, <1>5 DEF DeleteDay
  <2>5. CASE ReadInputs(w)
    <3>1. Hold(w, "upsert", None, active)
      BY <2>5 DEF ReadInputs
    <3> QED
      BY <2>5, <3>1, <1>3 DEF ReadInputs
  <2>6. CASE Upsert(w)
    <3>1. Leave(w) \/ Hold(w, "clamp", day', {})
      BY <2>6 DEF Upsert
    <3> QED
      BY <2>6, <3>1, <1>2, <1>3 DEF Upsert
  <2>7. CASE Clamp(w)
    BY <2>7, <1>5 DEF Clamp
  <2> QED
    BY <1>6, <2>1, <2>2, <2>3, <2>4, <2>5, <2>6, <2>7 DEF ComputeDay
<1>7. CASE FreezeAndFeed(w)
  <2>1. CASE BeginFreeze(w)
    BY <2>1, <1>1 DEF BeginFreeze, Requests, Entry
  <2>2. CASE Stamp(w)
    BY <2>2, <1>2 DEF Stamp
  <2>3. CASE CountUnfrozen(w)
    BY <2>3, <1>1 DEF CountUnfrozen, Requests
  <2>4. CASE FindRows(w)
    BY <2>4, <1>2 DEF FindRows
  <2> QED
    BY <1>7, <2>1, <2>2, <2>3, <2>4 DEF FreezeAndFeed
<1>8. CASE Overtime(w)
  <2>1. ASSUME NEW m \in Minutes, ReadForApproval(w, m)
        PROVE  /\ Others /\ work[w].step = "idle" /\ work'[w].step = "grant"
               /\ work'[w].row = day /\ work'[w].minutes <= day.overtime
    BY <2>1, <1>1 DEF ReadForApproval, Requests
  <2>2. CASE ApproveOvertime(w)
    BY <2>2, <1>2 DEF ApproveOvertime
  <2> QED
    BY <1>8, <2>1, <2>2 DEF Overtime
<1>9. CASE Regularize(w)
  <2>1. ASSUME NEW r \in Regs, BeginFile(w, r)
        PROVE  Others /\ work[w].step = "idle" /\ work'[w].step = "create"
    BY <2>1, <1>1 DEF BeginFile, Requests
  <2>2. ASSUME NEW r \in Regs, ApproveRegularization(w, r)
        PROVE  Others /\ work[w].step = "idle" /\ work'[w].step = "previous"
    BY <2>2, <1>1 DEF ApproveRegularization, Requests
  <2>3. CASE FileRegularization(w)
    BY <2>3, <1>2 DEF FileRegularization
  <2>4. CASE ReadPrevious(w)
    <3>1. Hold(w, "in", None, active)
      BY <2>4 DEF ReadPrevious
    <3> QED
      BY <2>4, <3>1, <1>3 DEF ReadPrevious
  <2>5. CASE InsertPunch(w)
    <3>1. PICK step \in {"out", "supersede"} : Hold(w, step, None, work[w].punches)
      BY <2>5 DEF InsertPunch
    <3> QED
      BY <2>5, <3>1, <1>3 DEF InsertPunch
  <2>6. CASE SupersedePrevious(w)
    <3>1. Step(w, "frozen")
      BY <2>6 DEF SupersedePrevious
    <3> QED
      BY <2>6, <3>1, <1>4 DEF SupersedePrevious
  <2>7. CASE ReadFrozen(w)
    <3>1. PICK step \in {"flag", "existing", "left"} : Step(w, step)
      BY <2>7 DEF ReadFrozen, AfterApply, Entry
    <3> QED
      BY <2>7, <3>1, <1>4 DEF ReadFrozen
  <2>8. CASE FlagPostFreeze(w)
    BY <2>8, <1>2 DEF FlagPostFreeze
  <2> QED
    BY <1>9, <2>1, <2>2, <2>3, <2>4, <2>5, <2>6, <2>7, <2>8 DEF Regularize
<1> QED
  BY <1>6, <1>7, <1>8, <1>9 DEF Act

\* What a step does to the row: it is inserted with a fresh id, deleted by a
\* request that read it before it was frozen, or written while not frozen.
RowStep ==
  /\ rows' \in {rows, rows + 1}
  /\ \/ day' = day
     \/ day' = None /\ \E w \in Workers : work[w].step = "delete"
     \/ day = None /\ day'.id = rows + 1 /\ rows' = rows + 1
     \/ day # None /\ ~day.frozen /\ day'.id = day.id

LEMMA RowSteps ==
  ASSUME TypeOK, NEW w \in Workers, Act(w)
  PROVE  RowStep
<1>1. CASE ComputeDay(w)
  <2>1. CASE DeleteDay(w)
    BY <2>1 DEF DeleteDay, RowStep
  <2>2. CASE Upsert(w)
    <3>1. CASE day = None
      BY <2>2, <3>1 DEF Upsert, Upserted, RowStep
    <3>2. CASE day # None
      <4>1. day \in Rows
        BY <3>2 DEF TypeOK
      <4> QED
        BY <2>2, <3>2, <4>1 DEF Upsert, Upserted, RowStep, Rows
    <3> QED
      BY <3>1, <3>2
  <2>3. CASE Clamp(w)
    <3>1. PICK amount, c :
            day' = IF day = None \/ Frozen \/ day.id # work[w].row.id THEN day
                   ELSE IF amount = work[w].row.approved
                        THEN [day EXCEPT !.doubt = @ /\ ~c]
                   ELSE [day EXCEPT !.approved = amount, !.doubt = ~c]
      BY <2>3 DEF Clamp
    <3>2. \/ day' = day
          \/ /\ day # None /\ ~day.frozen
             /\ \/ day' = [day EXCEPT !.doubt = day.doubt /\ ~c]
                \/ day' = [day EXCEPT !.approved = amount, !.doubt = ~c]
      BY <3>1 DEF Frozen
    <3> QED
      BY <2>3, <3>2 DEF Clamp, RowStep, TypeOK, Rows
  <2> QED
    BY <1>1, <2>1, <2>2, <2>3
       DEF ComputeDay, BeginCompute, ReadExisting, ReadLeft, ReadInputs, RowStep
<1>2. CASE FreezeAndFeed(w)
  <2>1. CASE Stamp(w)
    <3>1. PICK d : \/ day' = day
                   \/ /\ day # None /\ ~day.frozen
                      /\ day' = [day EXCEPT !.frozen = TRUE, !.doubt = d]
      BY <2>1 DEF Stamp, Frozen
    <3> QED
      BY <2>1, <3>1 DEF Stamp, RowStep, TypeOK, Rows
  <2> QED
    BY <1>2, <2>1 DEF FreezeAndFeed, BeginFreeze, CountUnfrozen, FindRows, RowStep
<1>3. CASE Overtime(w)
  <2>1. CASE ApproveOvertime(w)
    <3>1. PICK m, d : \/ day' = day
                      \/ /\ day # None /\ ~day.frozen
                         /\ day' = [day EXCEPT !.approved = m, !.v = @ + 1, !.doubt = d]
      BY <2>1 DEF ApproveOvertime, Grantable
    <3> QED
      BY <2>1, <3>1 DEF ApproveOvertime, RowStep, TypeOK, Rows
  <2> QED
    BY <1>3, <2>1 DEF Overtime, ReadForApproval, RowStep
<1>4. CASE Regularize(w)
  BY <1>4 DEF Regularize, BeginFile, ApproveRegularization, FileRegularization, ReadPrevious,
    InsertPunch, SupersedePrevious, ReadFrozen, FlagPostFreeze, RowStep
<1> QED
  BY <1>1, <1>2, <1>3, <1>4 DEF Act

-----------------------------------------------------------------------------

\* Steps of the world and decisions leave the row and the requests alone.
LEMMA Elsewhere ==
  ASSUME [Next]_vars, ~(\E w \in Workers : Act(w))
  PROVE  UNCHANGED <<day, work, rows, fed>>
BY DEF Next, Act, World, RecordPunch, CorrectEmployment, PeriodEnds, Decide,
  DecideRegularization, vars, env

\* A pinned row stays pinned: only an unfrozen day is written.
LEMMA PinsHold ==
  ASSUME TypeOK, Reads, RowStep, NEW row, row.id \in Nat, Pinned(row)
  PROVE  Pinned(row)'
<1>1. rows \in Nat
  BY DEF TypeOK
<1>2. row.id <= rows'
  BY <1>1 DEF RowStep, Pinned
<1>3. ASSUME day' # None, day'.id = row.id PROVE day' = row
  BY <1>1, <1>3 DEF RowStep, Pinned
<1> QED
  BY <1>2, <1>3 DEF Pinned

LEMMA ReadsInductive ==
  ASSUME TypeOK, Reads, [Next]_vars
  PROVE  Reads'
<1>1. CASE ~(\E w \in Workers : Act(w))
  BY <1>1, Elsewhere DEF Reads, Pinned
<1>2. ASSUME NEW w \in Workers, Act(w) PROVE Reads'
  <2>1. RowStep /\ rows \in Nat
    BY <1>2, RowSteps DEF TypeOK
  <2>2. day' # None => day'.id <= rows'
    BY <2>1 DEF RowStep, Reads, TypeOK, Rows
  <2>3. ASSUME NEW x \in Workers, work'[x].step = "find", work'[x].row # None
        PROVE  Pinned(work[x].row)'
    <3>1. PICK row : row = work'[x].row
      OBVIOUS
    <3>2. row \in Rows /\ Pinned(row)
      <4>1. CASE x # w
        BY <1>2, <2>3, <3>1, <4>1, WorkStep DEF Reads, TypeOK, Requests
      <4>2. CASE x = w
        <5>1. row = day /\ Frozen
          BY <1>2, <2>3, <3>1, <4>2, WorkStep
        <5> QED
          BY <5>1 DEF Reads, Pinned, Frozen, TypeOK
      <4> QED
        BY <4>1, <4>2
    <3>3. Pinned(row)'
      BY <2>1, <3>2, PinsHold DEF Rows
    <3> QED
      BY <3>1, <3>3 DEF Pinned
  <2>4. ASSUME NEW x \in Workers, work'[x].step = "delete" PROVE ~work'[x].row.frozen
    BY <1>2, <2>4, WorkStep DEF Reads, Frozen
  <2>5. fed' # None => Pinned(fed)'
    <3>1. CASE fed' = fed
      <4>1. fed # None => Pinned(fed) /\ fed.id \in Nat
        BY DEF Reads, TypeOK, Rows
      <4>2. PICK row : row = fed
        OBVIOUS
      <4>3. row # None => Pinned(row)'
        BY <2>1, <4>1, <4>2, PinsHold
      <4> QED
        BY <3>1, <4>2, <4>3 DEF Pinned
    <3>2. CASE fed' # fed
      <4>1. FindRows(w)
        BY <1>2, <3>2 DEF Act, ComputeDay, BeginCompute, ReadExisting, ReadLeft, DeleteDay,
          ReadInputs, Upsert, Clamp, FreezeAndFeed, BeginFreeze, Stamp, CountUnfrozen,
          Overtime, ReadForApproval, ApproveOvertime, Regularize, BeginFile,
          ApproveRegularization, FileRegularization, ReadPrevious, InsertPunch,
          SupersedePrevious, ReadFrozen, FlagPostFreeze
      <4>2. /\ fed' = day /\ day # None /\ work[w].step = "find"
            /\ work[w].row # None /\ work[w].row.id = day.id /\ day' = day /\ rows' = rows
        BY <3>2, <4>1 DEF FindRows
      <4>3. day.frozen
        BY <4>2 DEF Reads, Pinned
      <4> QED
        BY <4>2, <4>3 DEF Reads, Pinned
    <3> QED
      BY <3>1, <3>2
  <2> QED
    BY <2>2, <2>3, <2>4, <2>5 DEF Reads, Pinned
<1> QED
  BY <1>1, <1>2

LEMMA ReadsInitially == Init => Reads
BY DEF Init, Reads, Idle

\* What payroll was given is frozen and does not move: FeedNeverMoves.
THEOREM FeedOfAFrozenPeriod == Spec => []FeedNeverMoves
<1>1. TypeOK /\ Reads => FeedNeverMoves
  BY DEF Reads, Pinned, FeedNeverMoves
<1> QED
  BY <1>1, DayTypes, ReadsInitially, ReadsInductive, PTL DEF Spec

\* A frozen row is not written, whoever is at work, and is deleted only by a
\* request that read it before the freeze: FrozenForGood.
THEOREM FrozenRowsStay == Spec => FrozenForGood
<1> DEFINE Stays == Frozen => \/ day' = day
                             \/ \E w \in Workers : work[w].step = "delete"
                                 /\ ~work[w].row.frozen /\ day' = None
<1>1. TypeOK /\ Reads /\ [Next]_vars => [Stays]_vars
  <2> SUFFICES ASSUME TypeOK, Reads, [Next]_vars PROVE Stays
    OBVIOUS
  <2>1. CASE ~(\E w \in Workers : Act(w))
    BY <2>1, Elsewhere
  <2>2. ASSUME NEW w \in Workers, Act(w) PROVE Stays
    BY <2>2, RowSteps DEF RowStep, Reads, Frozen
  <2> QED
    BY <2>1, <2>2
<1> QED
  BY <1>1, DayTypes, ReadsInitially, ReadsInductive, PTL DEF Spec, FrozenForGood

-----------------------------------------------------------------------------
(***************************************************************************)
(* The ceiling.  As long as nothing was written from an older row, a row   *)
(* above the ceiling is not frozen, and the computeDay that put it there   *)
(* has still to make its second write, from exactly this row.              *)
(***************************************************************************)
Above == day # None /\ ~(day.approved <= day.overtime) /\ ~day.doubt

Remedy(x) ==
  /\ work[x].step = "clamp"
  /\ work[x].row.id = day.id
  /\ work[x].row.overtime = day.overtime
  /\ work[x].row.approved = day.approved

Remedied ==
  /\ Above => ~day.frozen /\ \E x \in Workers : Remedy(x)
  /\ \A w \in Workers : work[w].step = "grant" => work[w].minutes <= work[w].row.overtime

\* A remedy stays one as long as the row keeps its id and its amounts.
LEMMA RemedyStays ==
  ASSUME TypeOK, NEW w \in Workers, Act(w), ~Clamp(w), NEW x \in Workers, Remedy(x),
         day'.id = day.id, day'.overtime = day.overtime, day'.approved = day.approved
  PROVE  Remedy(x)'
<1>1. x # w /\ work'[x] = work[x]
  BY WorkStep DEF Remedy
<1> QED
  BY <1>1 DEF Remedy

\* The second write of computeDay: what it leaves is under the ceiling or in
\* doubt, unless it left the row to another remedy.
LEMMA ClampRemedies ==
  ASSUME TypeOK, Remedied, NEW w \in Workers, Clamp(w), Above'
  PROVE  ~day'.frozen /\ \E x \in Workers : Remedy(x)'
<1>1. work[w].row \in Rows /\ work[w].step = "clamp"
  BY DEF Clamp, TypeOK, Requests, Holding
<1>2. PICK row : row = work[w].row
  OBVIOUS
<1>3. PICK amount :
        /\ amount <= row.overtime
        /\ amount = row.approved \/ amount = row.overtime
        /\ amount \in Minutes
        /\ day' = IF day = None \/ Frozen \/ day.id # row.id THEN day
                  ELSE IF amount = row.approved THEN [day EXCEPT !.doubt = @ /\ ~(day = row)]
                  ELSE [day EXCEPT !.approved = amount, !.doubt = ~(day = row)]
  <2>1. PICK amount :
          /\ \E required \in BOOLEAN : amount = Releasable(row, required)
          /\ day' = IF day = None \/ Frozen \/ day.id # row.id THEN day
                    ELSE IF amount = row.approved THEN [day EXCEPT !.doubt = @ /\ ~(day = row)]
                    ELSE [day EXCEPT !.approved = amount, !.doubt = ~(day = row)]
    BY <1>2 DEF Clamp
  <2>2. amount <= row.overtime /\ (amount = row.approved \/ amount = row.overtime)
        /\ amount \in Minutes
    BY <1>1, <1>2, <2>1, DayAssumption DEF Releasable, Rows, Minutes
  <2> QED
    BY <2>1, <2>2
<1>4. \A x \in Workers \ {w} : work'[x] = work[x]
  BY WorkStep DEF Act, ComputeDay
<1>5. CASE day = None \/ Frozen \/ day.id # row.id
  <2>1. day' = day
    BY <1>3, <1>5
  <2>2. Above /\ ~day.frozen
    BY <2>1 DEF Above, Remedied
  <2>3. PICK x \in Workers : Remedy(x)
    BY <2>2 DEF Remedied
  <2>4. x # w
    BY <1>2, <1>5, <2>2, <2>3 DEF Remedy, Frozen, Above
  <2> QED
    BY <1>4, <2>1, <2>2, <2>3, <2>4 DEF Remedy
<1>6. CASE day # None /\ ~day.frozen /\ day.id = row.id
  <2>0. day \in Rows
    BY <1>6 DEF TypeOK
  <2>1. CASE amount # row.approved
    <3>1. day' = [day EXCEPT !.approved = amount, !.doubt = ~(day = row)]
      BY <1>3, <1>6, <2>1 DEF Frozen
    <3>2. day = row
      BY <2>0, <3>1 DEF Above, Rows
    <3> QED
      BY <1>3, <2>0, <3>1, <3>2 DEF Above, Rows
  <2>2. CASE amount = row.approved
    <3>1. day' = [day EXCEPT !.doubt = @ /\ ~(day = row)]
      BY <1>3, <1>6, <2>2 DEF Frozen
    <3>2. /\ day'.id = day.id /\ day'.approved = day.approved /\ day'.frozen = day.frozen
          /\ day'.overtime = day.overtime
      BY <2>0, <3>1 DEF Rows
    <3>3. day # row
      BY <1>3, <2>2, <3>2 DEF Above
    <3>4. day' = day
      <4>1. day' = [day EXCEPT !.doubt = @]
        BY <2>0, <3>1, <3>3 DEF Rows
      <4> QED
        BY <2>0, <4>1 DEF Rows
    <3>5. Above
      BY <3>4 DEF Above
    <3>6. PICK x \in Workers : Remedy(x)
      BY <3>5 DEF Remedied
    <3>7. x # w
      BY <1>2, <1>3, <2>2, <3>5, <3>6 DEF Remedy, Above
    <3> QED
      BY <1>4, <1>6, <3>4, <3>6, <3>7 DEF Remedy
  <2> QED
    BY <2>1, <2>2
<1> QED
  BY <1>5, <1>6 DEF Frozen

\* Every other write: the derivation puts its own remedy in place, an
\* approval grants no more than was derived or leaves a doubt, and a freeze
\* that overtakes a remedy leaves a doubt too.
LEMMA WritesRemedied ==
  ASSUME TypeOK, Remedied, NEW w \in Workers, Act(w), ~Clamp(w), Above'
  PROVE  ~day'.frozen /\ \E x \in Workers : Remedy(x)'
<1>1. CASE day' = day
  <2>1. Above /\ ~day'.frozen
    BY <1>1 DEF Above, Remedied
  <2>2. PICK x \in Workers : Remedy(x)
    BY <2>1 DEF Remedied
  <2> QED
    BY <1>1, <2>1, <2>2, RemedyStays
<1>2. CASE Upsert(w) /\ day' # day
  <2>1. work'[w].step = "clamp" /\ work'[w].row = day'
    <3>1. PICK new : new = Upserted(work[w].punches)
      OBVIOUS
    <3>2. new # None /\ day' = new /\ Hold(w, "clamp", new, {})
      BY <1>2, <3>1 DEF Upsert
    <3> QED
      BY <3>2 DEF Hold, TypeOK, Requests
  <2>2. ~day'.frozen
    <3>1. CASE day = None
      BY <1>2, <3>1 DEF Upsert, Upserted
    <3>2. CASE day # None
      BY <1>2, <3>2 DEF Upsert, Upserted, TypeOK, Rows
    <3> QED
      BY <3>1, <3>2
  <2>3. Remedy(w)'
    BY <2>1 DEF Remedy
  <2> QED
    BY <2>2, <2>3
<1>3. CASE DeleteDay(w) /\ day' # day
  BY <1>3 DEF DeleteDay, Above
<1>4. CASE Stamp(w) /\ day' # day
  <2>1. day \in Rows /\ ~day.frozen
    BY <1>4 DEF Stamp, Frozen, TypeOK
  <2>2. PICK d : /\ d = (\E x \in Workers : work[x].step = "clamp")
                 /\ day' = [day EXCEPT !.frozen = TRUE, !.doubt = @ \/ d]
    BY <1>4 DEF Stamp
  <2>3. day'.doubt = (day.doubt \/ d) /\ day'.approved = day.approved
        /\ day'.overtime = day.overtime
    BY <2>1, <2>2 DEF Rows
  <2>4. ~day.doubt /\ ~d /\ ~(day.approved <= day.overtime)
    BY <2>3 DEF Above
  <2>5. Above
    BY <1>4, <2>4 DEF Above, Stamp
  <2>6. d
    BY <2>2, <2>5 DEF Remedied, Remedy
  <2> QED
    BY <2>4, <2>6
<1>5. CASE ApproveOvertime(w) /\ day' # day
  <2>1. day \in Rows /\ work[w].row \in Rows /\ work[w].step = "grant"
    BY <1>5 DEF ApproveOvertime, Grantable, TypeOK, Requests, Holding
  <2>2. PICK d : /\ d = (day.overtime # work[w].row.overtime)
                 /\ day' = [day EXCEPT !.approved = work[w].minutes, !.v = @ + 1,
                                       !.doubt = @ \/ d]
    BY <1>5 DEF ApproveOvertime
  <2>3. day'.doubt = (day.doubt \/ d) /\ day'.approved = work[w].minutes
        /\ day'.overtime = day.overtime
    BY <2>1, <2>2 DEF Rows
  <2>4. ~d
    BY <2>3 DEF Above
  <2>5. work[w].minutes <= day.overtime
    BY <2>1, <2>2, <2>4 DEF Remedied
  <2> QED
    BY <2>3, <2>5 DEF Above
<1> QED
  BY <1>1, <1>2, <1>3, <1>4, <1>5
     DEF Act, ComputeDay, BeginCompute, ReadExisting, ReadLeft, ReadInputs, FreezeAndFeed,
         BeginFreeze, CountUnfrozen, FindRows, Overtime, ReadForApproval, Regularize,
         BeginFile, ApproveRegularization, FileRegularization, ReadPrevious, InsertPunch,
         SupersedePrevious, ReadFrozen, FlagPostFreeze

LEMMA RemediedInductive ==
  ASSUME TypeOK, Remedied, [Next]_vars
  PROVE  Remedied'
<1>1. CASE ~(\E w \in Workers : Act(w))
  BY <1>1, Elsewhere DEF Remedied, Remedy, Above
<1>2. ASSUME NEW w \in Workers, Act(w) PROVE Remedied'
  <2>1. ASSUME Above' PROVE ~day'.frozen /\ \E x \in Workers : Remedy(x)'
    BY <1>2, <2>1, ClampRemedies, WritesRemedied
  <2>2. ASSUME NEW x \in Workers, work'[x].step = "grant"
        PROVE  work'[x].minutes <= work'[x].row.overtime
    BY <1>2, <2>2, WorkStep DEF Remedied
  <2> QED
    BY <2>1, <2>2 DEF Remedied
<1> QED
  BY <1>1, <1>2

\* Overtime above the derived minutes is released only by a write from an
\* older row or a freeze between two writes: CeilingHolds.
THEOREM OvertimeCeiling == Spec => []CeilingHolds
<1>1. Init => Remedied
  BY DEF Init, Remedied, Above, Idle
<1>2. Remedied => CeilingHolds
  BY DEF Remedied, Above, Remedy, CeilingHolds
<1> QED
  BY <1>1, <1>2, DayTypes, RemediedInductive, PTL DEF Spec

-----------------------------------------------------------------------------
(***************************************************************************)
(* A regularization counts once (RegularizedOnce of AttendanceDay), for    *)
(* any regularizations and requests.  A regularization that is alone is    *)
(* followed through the request that applies it (During): nothing else     *)
(* derives or freezes the day meanwhile, so what that request has found is *)
(* still so when it acts on it.  What it leaves behind (After) no later    *)
(* request can undo: a flag only on a frozen row, or the punch in every    *)
(* row derived since.                                                      *)
(***************************************************************************)
Punch(r) == <<r, Proposal[r]>>
Basis == IF day = None THEN {} ELSE day.basis
Untouched(r, ps) == \A m \in Minutes : <<r, m>> \notin ps
Deriving == {"existing", "left", "delete", "inputs", "upsert", "clamp"}

\* A step belongs to the request of its kind, and only a request that will
\* use punches holds any.
OpOf(q) ==
  /\ q.step \in {"previous", "in", "out", "supersede", "frozen", "flag"} => q.op = "apply"
  /\ q.step \in Deriving => q.op \in {"compute", "freeze", "apply"}
  /\ q.step = "stamp" => q.op = "freeze"
  /\ q.step = "create" <=> q.op = "file"
  /\ q.step = "idle" => q.op = None
  /\ q.step = "find" => q.op = "feed"
  /\ q.step = "grant" => q.op = "approve"
  /\ q.step \notin {"in", "out", "supersede", "upsert"} => q.punches = {}

Applies(w, r) == work[w].op = "apply" /\ work[w].reg = r

\* A request that applies, or files, a regularization is the only one that
\* does, and its document has the status for it.
Roles ==
  /\ \A w \in Workers : OpOf(work[w])
  /\ \A w \in Workers : work[w].op = "apply" =>
       work[w].reg \in Regs /\ reg[work[w].reg].status = "approved"
  /\ \A w \in Workers : work[w].op = "file" =>
       work[w].reg \in Regs /\ reg[work[w].reg].status = "none"
  /\ \A w, x \in Workers :
       work[w].op \in {"apply", "file"} /\ work[x].op = work[w].op /\ work[x].reg = work[w].reg
         => x = w

\* Before its approval a regularization has left no trace.
Before(r) ==
  reg[r].status # "approved" =>
    /\ ~reg[r].postFreeze
    /\ Untouched(r, active) /\ Untouched(r, Basis)
    /\ \A w \in Workers : Untouched(r, work[w].punches)

\* What request w, which applies r and is alone, has found or made.
During(w, r) ==
  LET step == work[w].step IN
  /\ Computing = {w}
  /\ ~reg[r].postFreeze
  /\ step = "previous" => Untouched(r, active)
  /\ step \in {"previous", "in", "out"} =>
       Untouched(r, Basis) /\ Untouched(r, work[w].punches)
  /\ step = "supersede" => Punch(r) \notin Basis /\ Punch(r) \notin work[w].punches
  /\ step = "frozen" => Punch(r) \notin Basis
  /\ step = "flag" => Frozen /\ Punch(r) \notin Basis
  /\ step \in {"supersede", "frozen", "flag"} \cup Deriving => Punch(r) \in active
  /\ step \in Deriving => ~Frozen
  /\ step = "delete" => day # None /\ work[w].row.id = day.id
  /\ step = "upsert" => Punch(r) \in work[w].punches
  /\ step = "clamp" => Punch(r) \in Basis

\* What it leaves: the flag on a row that stays, or its punch, while that is
\* the truth, in the row and in what any request is about to derive.
After(r) ==
  IF reg[r].postFreeze
  THEN /\ Frozen /\ Punch(r) \notin Basis
       /\ \A w \in Workers : work[w].step = "delete" => work[w].row.id # day.id
  ELSE Punch(r) \in active =>
         /\ day # None => Punch(r) \in Basis
         /\ \A w \in Workers : work[w].step = "upsert" => Punch(r) \in work[w].punches

RegInv ==
  /\ Roles
  /\ \A r \in Regs : Before(r)
  /\ \A r \in Regs, w \in Workers : Applies(w, r) /\ reg[r].alone => During(w, r)
  /\ \A r \in Regs :
       reg[r].status = "approved" /\ reg[r].alone /\ (\A w \in Workers : ~Applies(w, r)) => After(r)

-----------------------------------------------------------------------------
\* What a step of a request makes of the request.
Others(w) == \A x \in Workers \ {w} : work'[x] = work[x]

LEMMA HoldFields ==
  ASSUME TypeOK, NEW w \in Workers, NEW step, NEW row, NEW ps, Hold(w, step, row, ps)
  PROVE  /\ Others(w)
         /\ work'[w].step = step /\ work'[w].row = row /\ work'[w].punches = ps
         /\ work'[w].op = work[w].op /\ work'[w].reg = work[w].reg
BY DEF Hold, TypeOK, Requests, Others

LEMMA StepFields ==
  ASSUME TypeOK, NEW w \in Workers, NEW step, Step(w, step)
  PROVE  /\ Others(w)
         /\ work'[w].step = step /\ work'[w].punches = {}
         /\ work'[w].op = work[w].op /\ work'[w].reg = work[w].reg
<1>1. Hold(w, step, None, {})
  BY DEF Step
<1> QED
  BY <1>1, HoldFields

LEMMA LeaveFields ==
  ASSUME TypeOK, NEW w \in Workers, Leave(w)
  PROVE  /\ Others(w)
         /\ work'[w].step = "idle" /\ work'[w].punches = {}
         /\ work'[w].op = None /\ work'[w].reg = None
BY DEF Leave, Idle, TypeOK, Others

LEMMA ReturnFields ==
  ASSUME TypeOK, NEW w \in Workers, Return(w)
  PROVE  /\ Others(w) /\ work'[w].punches = {}
         /\ \/ /\ work[w].op = "freeze" /\ work'[w].step = "stamp"
               /\ work'[w].op = work[w].op /\ work'[w].reg = work[w].reg
            \/ /\ work[w].op # "freeze" /\ work'[w].step = "idle"
               /\ work'[w].op = None /\ work'[w].reg = None
BY StepFields, LeaveFields DEF Return

-----------------------------------------------------------------------------
\* Frozen, the punches of the row and its id, all the invariant reads of it.
SameRow ==
  /\ day = None <=> day' = None
  /\ day # None => /\ day'.frozen = day.frozen
                   /\ day'.basis = day.basis
                   /\ day'.id = day.id

\* What happens away from the derivations, be it a step of request w or one of
\* the world or of a decision, in which no request moves.
LEMMA AsideKeeps ==
  ASSUME TypeOK, RegInv, Roles', SameRow,
         \A r \in Regs : \A m \in Minutes : <<r, m>> \in active' <=> <<r, m>> \in active,
         \A r \in Regs : /\ reg'[r].postFreeze = reg[r].postFreeze
                         /\ reg'[r].alone = reg[r].alone
                         /\ reg'[r].status = "approved" <=> reg[r].status = "approved",
         \A w \in Workers : \/ work'[w] = work[w]
                            \/ /\ w \notin Computing /\ w \notin Computing'
                               /\ work'[w].punches = {}
  PROVE  RegInv'
<1>1. Computing' = Computing
  BY DEF Computing
<1>2. \A w \in Workers : w \notin Computing =>
        work[w].step \notin {"delete", "upsert"} /\ work'[w].step \notin {"delete", "upsert"}
  BY <1>1 DEF RegInv, Roles, OpOf, Deriving, Computing
<1>3. \A r \in Regs : Punch(r) \in active' <=> Punch(r) \in active
  BY DayAssumption DEF Punch
<1>4. (Frozen' <=> Frozen) /\ Basis' = Basis
  BY DEF SameRow, Frozen, Basis
<1>5. \A r \in Regs : Before(r)'
  BY <1>4 DEF RegInv, Before, Untouched
<1>6. ASSUME NEW r \in Regs, NEW x \in Workers, Applies(x, r)', reg'[r].alone
      PROVE  During(x, r)'
  <2>1. work'[x] = work[x]
    BY <1>1, <1>6 DEF Applies, Computing
  <2>2. During(x, r)
    BY <1>6, <2>1 DEF RegInv, Applies
  <2>3. work[x].step = "previous" => Untouched(r, active)'
    BY <2>2 DEF During, Untouched
  <2> QED
    BY <1>1, <1>3, <1>4, <2>1, <2>2, <2>3 DEF During, SameRow, Untouched
<1>7. ASSUME NEW r \in Regs, reg'[r].status = "approved", reg'[r].alone,
             \A x \in Workers : ~Applies(x, r)'
      PROVE  After(r)'
  <2>1. \A x \in Workers : ~Applies(x, r)
    BY <1>1, <1>7 DEF Applies, Computing
  <2>2. After(r)
    BY <1>7, <2>1 DEF RegInv
  <2>3. \A x \in Workers : work'[x].step \in {"delete", "upsert"} => work'[x] = work[x]
    BY <1>1, <1>2
  <2> QED
    BY <1>3, <1>4, <2>2, <2>3 DEF After, SameRow, Frozen
<1> QED
  BY <1>5, <1>6, <1>7 DEF RegInv

\* A step that gives no request something new to file or to apply.
LEMMA RolesKept ==
  ASSUME Roles, NEW w \in Workers, Others(w), OpOf(work'[w]),
         \/ work'[w].op = work[w].op /\ work'[w].reg = work[w].reg
         \/ work'[w].op \notin {"apply", "file"},
         \A r \in Regs : reg'[r].status = reg[r].status
  PROVE  Roles'
BY DEF Roles, Others

\* Steps of the world and decisions.
LEMMA WorldKeeps ==
  ASSUME TypeOK, RegInv, World \/ Decide
  PROVE  RegInv'
<1>1. work' = work /\ day' = day
  BY DEF World, RecordPunch, CorrectEmployment, PeriodEnds, Decide, DecideRegularization
<1>2. \A r \in Regs : \A m \in Minutes : <<r, m>> \in active' <=> <<r, m>> \in active
  BY DayAssumption
  DEF World, RecordPunch, CorrectEmployment, PeriodEnds, Decide, DecideRegularization
<1>3. \A r \in Regs : /\ reg'[r].postFreeze = reg[r].postFreeze
                      /\ reg'[r].alone = reg[r].alone
                      /\ reg'[r].status = "approved" <=> reg[r].status = "approved"
                      /\ reg[r].status = "none" => reg'[r].status = "none"
  BY DEF TypeOK, World, RecordPunch, CorrectEmployment, PeriodEnds, Decide,
         DecideRegularization, Open
<1>4. Roles'
  BY <1>1, <1>3 DEF RegInv, Roles
<1> QED
  BY <1>1, <1>2, <1>3, <1>4, AsideKeeps DEF SameRow

\* The feed and the approval of overtime.
LEMMA FeedAndOvertimeKeep ==
  ASSUME TypeOK, RegInv, NEW w \in Workers,
         CountUnfrozen(w) \/ FindRows(w) \/ Overtime(w)
  PROVE  RegInv'
<1>1. reg' = reg /\ active' = active
  BY DEF CountUnfrozen, FindRows, Overtime, ReadForApproval, ApproveOvertime
<1>2. SameRow
  <2>1. CASE day' = day
    BY <2>1 DEF SameRow
  <2>2. CASE ApproveOvertime(w) /\ Grantable(work[w].row)
    <3>1. day \in Rows /\ work[w].minutes \in Minutes
      BY <2>2 DEF Grantable, TypeOK, Requests
    <3>2. PICK d \in BOOLEAN :
            day' = [day EXCEPT !.approved = work[w].minutes, !.v = @ + 1, !.doubt = d]
      BY <2>2, <3>1 DEF ApproveOvertime, Rows
    <3>3. day' = [id |-> day.id, v |-> day.v + 1, frozen |-> day.frozen,
                  approved |-> work[w].minutes, overtime |-> day.overtime,
                  basis |-> day.basis, doubt |-> d]
      BY <3>1, <3>2 DEF Rows
    <3>4. day' \in Rows
      BY <3>1, <3>3 DEF Rows
    <3> QED
      BY <2>2, <3>3, <3>4, NullAssumption DEF Grantable, SameRow
  <2> QED
    BY <2>1, <2>2 DEF CountUnfrozen, FindRows, Overtime, ReadForApproval, ApproveOvertime
<1>3. work[w].step \in {"idle", "find", "grant"}
  BY DEF CountUnfrozen, FindRows, Overtime, ReadForApproval, ApproveOvertime
<1>4. /\ Others(w)
      /\ \/ /\ work'[w].step \in {"find", "grant"} /\ work'[w].punches = {}
            /\ work'[w].op = (IF work'[w].step = "find" THEN "feed" ELSE "approve")
         \/ /\ work'[w].step = "idle" /\ work'[w].punches = {} /\ work'[w].op = None
  <2>1. CASE CountUnfrozen(w)
    BY <2>1 DEF RegInv, Roles, OpOf, CountUnfrozen, TypeOK, Requests, Others
  <2>2. ASSUME NEW m \in Minutes, ReadForApproval(w, m)
        PROVE  /\ Others(w) /\ work'[w].step = "grant" /\ work'[w].op = "approve"
               /\ work'[w].punches = {}
    BY <2>2 DEF RegInv, Roles, OpOf, ReadForApproval, TypeOK, Requests, Others
  <2>3. CASE Leave(w)
    BY <2>3, LeaveFields
  <2> QED
    BY <2>1, <2>2, <2>3 DEF FindRows, Overtime, ApproveOvertime
<1>5. Roles'
  <2>1. OpOf(work'[w])
    BY <1>4, NullAssumption DEF OpOf, Deriving
  <2>2. work'[w].op \notin {"apply", "file"}
    BY <1>4, NullAssumption
  <2> QED
    BY <1>1, <1>4, <2>1, <2>2, RolesKept DEF RegInv
<1>6. w \notin Computing /\ w \notin Computing'
  BY <1>3, <1>4, NullAssumption DEF RegInv, Roles, OpOf, Computing
<1> QED
  BY <1>1, <1>2, <1>4, <1>5, <1>6, AsideKeeps DEF Others

\* Filing.
LEMMA FilingKeeps ==
  ASSUME TypeOK, RegInv, NEW w \in Workers,
         FileRegularization(w) \/ \E r \in Regs : BeginFile(w, r)
  PROVE  RegInv'
<1>1. CASE FileRegularization(w)
  <2>1. work[w].step = "create" /\ Leave(w) /\ day' = day /\ active' = active
    BY <1>1 DEF FileRegularization
  <2>2. PICK status \in Open : reg' = [reg EXCEPT ![work[w].reg].status = status]
    BY <1>1 DEF FileRegularization
  <2>3. work[w].op = "file" /\ work[w].reg \in Regs /\ reg[work[w].reg].status = "none"
    BY <2>1 DEF RegInv, Roles, OpOf
  <2>4. /\ Others(w) /\ work'[w].step = "idle" /\ work'[w].punches = {}
        /\ work'[w].op = None
    BY <2>1, LeaveFields
  <2>5. \A r \in Regs : /\ reg'[r].postFreeze = reg[r].postFreeze
                        /\ reg'[r].alone = reg[r].alone
                        /\ r # work[w].reg => reg'[r].status = reg[r].status
                        /\ reg'[r].status = "approved" <=> reg[r].status = "approved"
    BY <2>2, <2>3 DEF TypeOK, Open
  <2>6. OpOf(work'[w])
    BY <2>4, NullAssumption DEF OpOf, Deriving
  <2>7. Roles'
    BY <2>3, <2>4, <2>5, <2>6, NullAssumption DEF RegInv, Roles, Others
  <2>8. w \notin Computing /\ w \notin Computing'
    BY <2>3, <2>4, NullAssumption DEF Computing
  <2> QED
    BY <2>1, <2>4, <2>5, <2>7, <2>8, AsideKeeps DEF Others, SameRow
<1>2. ASSUME NEW r \in Regs, BeginFile(w, r) PROVE RegInv'
  <2>1. /\ work[w].step = "idle" /\ reg[r].status = "none"
        /\ \A x \in Workers : work[x].reg # r
        /\ day' = day /\ active' = active /\ reg' = reg
    BY <1>2 DEF BeginFile
  <2>2. /\ Others(w) /\ work'[w].step = "create" /\ work'[w].op = "file"
        /\ work'[w].reg = r /\ work'[w].punches = work[w].punches
    <3>1. work[w] \in Requests
      BY DEF TypeOK
    <3>2. work' = [work EXCEPT ![w].op = "file", ![w].step = "create", ![w].reg = r]
      BY <1>2 DEF BeginFile
    <3> QED
      BY <3>1, <3>2 DEF TypeOK, Requests, Others
  <2>3. work[w].op = None /\ work[w].punches = {}
    BY <2>1 DEF RegInv, Roles, OpOf
  <2>4. OpOf(work'[w])
    BY <2>2, <2>3 DEF OpOf, Deriving
  <2>5. Roles'
    BY <2>1, <2>2, <2>4 DEF RegInv, Roles, Others
  <2>6. w \notin Computing /\ w \notin Computing'
    BY <2>2, <2>3, NullAssumption DEF Computing
  <2> QED
    BY <2>1, <2>2, <2>3, <2>5, <2>6, AsideKeeps DEF Others, SameRow
<1> QED
  BY <1>1, <1>2

\* A derivation or a freeze begins: the regularizations being applied are no
\* longer alone, the others do not notice.
LEMMA BeginKeeps ==
  ASSUME TypeOK, RegInv, NEW w \in Workers, BeginCompute(w) \/ BeginFreeze(w)
  PROVE  RegInv'
<1>1. work[w].step = "idle" /\ reg' = Disturbed(w) /\ day' = day /\ active' = active
  BY DEF BeginCompute, BeginFreeze
<1>2. work[w].op = None /\ work[w].punches = {}
  BY <1>1 DEF RegInv, Roles, OpOf
<1>3. /\ Others(w) /\ work'[w].step \in {"existing", "left"}
      /\ work'[w].op \in {"compute", "freeze"} /\ work'[w].punches = {}
  BY <1>2 DEF BeginCompute, BeginFreeze, Entry, TypeOK, Requests, Others
<1>4. \A r \in Regs : /\ reg'[r].postFreeze = reg[r].postFreeze
                      /\ reg'[r].status = reg[r].status
                      /\ reg'[r].alone => reg[r].alone /\ r \notin Meets(w)
  BY <1>1 DEF Disturbed, TypeOK
<1>5. Roles'
  <2>1. OpOf(work'[w])
    BY <1>3 DEF OpOf, Deriving
  <2> QED
    BY <1>3, <1>4, <2>1, RolesKept DEF RegInv
<1>6. \A r \in Regs : Before(r)'
  BY <1>1, <1>3, <1>4 DEF RegInv, Before, Untouched, Basis, Others
<1>7. ASSUME NEW r \in Regs, NEW x \in Workers, Applies(x, r)', reg'[r].alone
      PROVE  FALSE
  <2>1. x # w /\ Applies(x, r)
    BY <1>3, <1>7 DEF Applies, Others
  <2> QED
    BY <1>4, <1>7, <2>1 DEF Meets, Applies
<1>8. ASSUME NEW r \in Regs, reg'[r].status = "approved", reg'[r].alone,
             \A x \in Workers : ~Applies(x, r)'
      PROVE  After(r)'
  <2>1. \A x \in Workers : ~Applies(x, r)
    BY <1>2, <1>3, <1>8, NullAssumption DEF Applies, Others
  <2>2. After(r)
    BY <1>4, <1>8, <2>1 DEF RegInv
  <2> QED
    BY <1>1, <1>3, <1>4, <2>2 DEF After, Others, Frozen, Basis
<1> QED
  BY <1>5, <1>6, <1>7, <1>8 DEF RegInv

\* The approval of a regularization begins to apply it.
LEMMA ApprovalKeeps ==
  ASSUME TypeOK, RegInv, NEW w \in Workers, NEW r \in Regs, ApproveRegularization(w, r)
  PROVE  RegInv'
<1>1. /\ work[w].step = "idle" /\ reg[r].status = "pendingHr"
      /\ day' = day /\ active' = active
  BY DEF ApproveRegularization
<1>2. work[w].op = None /\ work[w].punches = {}
  BY <1>1 DEF RegInv, Roles, OpOf
<1>3. /\ Others(w) /\ work'[w].step = "previous" /\ work'[w].punches = {}
      /\ work'[w].op = "apply" /\ work'[w].reg = r
  BY <1>2 DEF ApproveRegularization, TypeOK, Requests, Others
<1>4. /\ reg'[r].status = "approved" /\ reg'[r].postFreeze = reg[r].postFreeze
      /\ reg'[r].alone => Computing = {}
  BY DEF ApproveRegularization, Disturbed, TypeOK
<1>5. \A q \in Regs \ {r} : /\ reg'[q].postFreeze = reg[q].postFreeze
                            /\ reg'[q].status = reg[q].status
                            /\ reg'[q].alone => reg[q].alone /\ q \notin Meets(w)
  BY DEF ApproveRegularization, Disturbed, TypeOK
<1>6. Roles'
  <2>1. OpOf(work'[w])
    BY <1>3 DEF OpOf, Deriving
  <2>2. \A x \in Workers : work[x].op \in {"apply", "file"} => work[x].reg # r
    BY <1>1 DEF RegInv, Roles
  <2> QED
    BY <1>3, <1>4, <1>5, <2>1, <2>2 DEF RegInv, Roles, Others
<1>7. \A q \in Regs : Before(q)'
  BY <1>1, <1>3, <1>4, <1>5 DEF RegInv, Before, Untouched, Basis, Others
<1>8. ASSUME NEW q \in Regs, NEW x \in Workers, Applies(x, q)', reg'[q].alone
      PROVE  During(x, q)'
  <2>1. CASE q # r
    <3>1. x # w /\ Applies(x, q)
      BY <1>3, <1>8, <2>1 DEF Applies, Others
    <3> QED
      BY <1>5, <1>8, <2>1, <3>1 DEF Meets, Applies
  <2>2. CASE q = r
    <3>1. x = w
      BY <1>3, <1>6, <1>8, <2>2 DEF Roles, Applies
    <3>2. Computing' = {w}
      BY <1>3, <1>4, <1>8, <2>2 DEF Computing, Others
    <3>3. Before(r)
      BY DEF RegInv
    <3> QED
      BY <1>1, <1>2, <1>3, <1>4, <2>2, <3>1, <3>2, <3>3
      DEF During, Before, Basis, Untouched, Deriving
  <2> QED
    BY <2>1, <2>2
<1>9. ASSUME NEW q \in Regs, reg'[q].status = "approved", reg'[q].alone,
             \A x \in Workers : ~Applies(x, q)'
      PROVE  After(q)'
  <2>1. q # r
    BY <1>3, <1>9 DEF Applies
  <2>2. \A x \in Workers : ~Applies(x, q)
    BY <1>2, <1>3, <1>9, NullAssumption DEF Applies, Others
  <2>3. After(q)
    BY <1>5, <1>9, <2>1, <2>2 DEF RegInv
  <2> QED
    BY <1>1, <1>3, <1>5, <2>1, <2>3 DEF After, Others, Frozen, Basis
<1> QED
  BY <1>6, <1>7, <1>8, <1>9 DEF RegInv

-----------------------------------------------------------------------------
\* The derivation.  A regularization that is alone is applied by the request
\* that derives, or by none.
LEMMA AloneDerives ==
  ASSUME RegInv, NEW w \in Workers, w \in Computing,
         NEW r \in Regs, NEW x \in Workers, Applies(x, r), reg[r].alone
  PROVE  x = w /\ During(w, r)
BY DEF RegInv, During

\* A request goes on, or returns, without a write: enough for the steps that
\* only read.
LEMMA ReadKeeps ==
  ASSUME TypeOK, RegInv, UNCHANGED <<day, active, reg>>,
         NEW w \in Workers, w \in Computing, Others(w), work'[w].punches = {},
         OpOf(work'[w]), work'[w].step # "upsert",
         \/ work'[w].op = work[w].op /\ work'[w].reg = work[w].reg
         \/ work'[w].op = None,
         work'[w].step = "delete" => ~Frozen,
         \A r \in Regs : Applies(w, r) /\ During(w, r) =>
           IF work'[w].op = None THEN (After(r) /\ work'[w].step # "delete") ELSE During(w, r)'
  PROVE  RegInv'
<1>1. Roles'
  <2>1. \/ work'[w].op = work[w].op /\ work'[w].reg = work[w].reg
        \/ work'[w].op \notin {"apply", "file"}
    BY NullAssumption
  <2> QED
    BY <2>1, RolesKept DEF RegInv
<1>2. \A r \in Regs : Before(r)'
  BY DEF RegInv, Before, Untouched, Basis, Others
<1>3. ASSUME NEW r \in Regs, NEW x \in Workers, Applies(x, r)', reg'[r].alone
      PROVE  During(x, r)'
  <2>1. Applies(x, r)
    BY <1>3, NullAssumption DEF Applies, Others
  <2>2. x = w /\ During(w, r)
    BY <1>3, <2>1, AloneDerives
  <2> QED
    BY <1>3, <2>1, <2>2, NullAssumption DEF Applies
<1>4. ASSUME NEW r \in Regs, reg'[r].status = "approved", reg'[r].alone,
             \A x \in Workers : ~Applies(x, r)'
      PROVE  After(r)'
  <2>1. After(r)
    <3>1. CASE \E x \in Workers : Applies(x, r)
      <4>1. PICK x \in Workers : Applies(x, r)
        BY <3>1
      <4>2. x = w /\ During(w, r)
        BY <1>4, <4>1, AloneDerives
      <4> QED
        BY <1>4, <4>1, <4>2 DEF Applies
    <3>2. CASE ~\E x \in Workers : Applies(x, r)
      BY <1>4, <3>2 DEF RegInv
    <3> QED
      BY <3>1, <3>2
  <2> QED
    BY <2>1 DEF After, Others, Frozen, Basis
<1> QED
  BY <1>1, <1>2, <1>3, <1>4 DEF RegInv

LEMMA ReadExistingKeeps ==
  ASSUME TypeOK, RegInv, NEW w \in Workers, ReadExisting(w)
  PROVE  RegInv'
<1>1. work[w].step = "existing" /\ UNCHANGED <<day, active, reg>>
  BY DEF ReadExisting
<1>2. w \in Computing
  BY <1>1 DEF RegInv, Roles, OpOf, Deriving, Computing
<1>3. CASE Frozen
  <2>1. Return(w)
    BY <1>3 DEF ReadExisting
  <2>2. \A r \in Regs : ~(Applies(w, r) /\ During(w, r))
    BY <1>1, <1>3 DEF During, Deriving
  <2>3. OpOf(work'[w]) /\ Others(w) /\ work'[w].step \notin {"upsert", "delete"}
        /\ work'[w].punches = {}
    BY <2>1, ReturnFields, NullAssumption DEF OpOf, Deriving
  <2> QED
    BY <1>1, <1>2, <2>1, <2>2, <2>3, ReturnFields, ReadKeeps
<1>4. CASE ~Frozen
  <2>1. Step(w, "inputs")
    BY <1>4 DEF ReadExisting
  <2>2. /\ Others(w) /\ work'[w].step = "inputs" /\ work'[w].punches = {}
        /\ work'[w].op = work[w].op /\ work'[w].reg = work[w].reg
    BY <2>1, StepFields
  <2>3. OpOf(work'[w])
    BY <1>1, <2>2 DEF RegInv, Roles, OpOf, Deriving
  <2>4. \A r \in Regs : Applies(w, r) /\ During(w, r) => During(w, r)'
    BY <1>1, <1>2, <2>2 DEF During, Computing, Others, Frozen, Basis, Deriving
  <2>5. work'[w].op # None
    BY <1>2, <2>2, NullAssumption DEF Computing
  <2> QED
    BY <1>1, <1>2, <2>2, <2>3, <2>4, <2>5, ReadKeeps
<1> QED
  BY <1>3, <1>4

LEMMA ReadLeftKeeps ==
  ASSUME TypeOK, RegInv, NEW w \in Workers, ReadLeft(w)
  PROVE  RegInv'
<1>1. work[w].step = "left" /\ UNCHANGED <<day, active, reg>>
  BY DEF ReadLeft
<1>2. w \in Computing
  BY <1>1 DEF RegInv, Roles, OpOf, Deriving, Computing
<1>3. CASE Frozen \/ day = None
  <2>1. Return(w)
    BY <1>3 DEF ReadLeft
  <2>2. ASSUME NEW r \in Regs, Applies(w, r), During(w, r) PROVE After(r) /\ work'[w].op = None
    <3>1. ~Frozen /\ day = None /\ ~reg[r].postFreeze /\ Computing = {w}
      BY <1>1, <1>3, <2>2 DEF During, Deriving
    <3>2. \A x \in Workers : work[x].step # "upsert"
      BY <1>1, <3>1 DEF RegInv, Roles, OpOf, Deriving, Computing
    <3> QED
      BY <2>1, <2>2, <3>1, <3>2, ReturnFields DEF After, Applies
  <2>3. OpOf(work'[w]) /\ Others(w) /\ work'[w].step \notin {"upsert", "delete"}
        /\ work'[w].punches = {}
    BY <2>1, ReturnFields, NullAssumption DEF OpOf, Deriving
  <2> QED
    BY <1>1, <1>2, <2>1, <2>2, <2>3, ReturnFields, ReadKeeps
<1>4. CASE ~(Frozen \/ day = None)
  <2>1. Hold(w, "delete", day, {})
    BY <1>4 DEF ReadLeft
  <2>2. /\ Others(w) /\ work'[w].step = "delete" /\ work'[w].punches = {}
        /\ work'[w].row = day
        /\ work'[w].op = work[w].op /\ work'[w].reg = work[w].reg
    BY <2>1, HoldFields
  <2>3. OpOf(work'[w])
    BY <1>1, <2>2 DEF RegInv, Roles, OpOf, Deriving
  <2>4. \A r \in Regs : Applies(w, r) /\ During(w, r) => During(w, r)'
    BY <1>1, <1>2, <1>4, <2>2 DEF During, Computing, Others, Frozen, Basis, Deriving
  <2>5. work'[w].op # None
    BY <1>2, <2>2, NullAssumption DEF Computing
  <2> QED
    BY <1>1, <1>2, <1>4, <2>2, <2>3, <2>4, <2>5, ReadKeeps
<1> QED
  BY <1>3, <1>4

LEMMA ReadInputsKeeps ==
  ASSUME TypeOK, RegInv, NEW w \in Workers, ReadInputs(w)
  PROVE  RegInv'
<1>1. /\ work[w].step = "inputs" /\ Hold(w, "upsert", None, active)
      /\ UNCHANGED <<day, active, reg>>
  BY DEF ReadInputs
<1>2. /\ Others(w)
      /\ work'[w].step = "upsert" /\ work'[w].punches = active
      /\ work'[w].op = work[w].op /\ work'[w].reg = work[w].reg
  BY <1>1, HoldFields
<1>3. w \in Computing
  BY <1>1 DEF RegInv, Roles, OpOf, Deriving, Computing
<1>4. Roles'
  BY <1>1, <1>2 DEF RegInv, Roles, OpOf, Others, Deriving
<1>5. \A r \in Regs : Before(r)'
  BY <1>1, <1>2 DEF RegInv, Before, Untouched, Basis, Others
<1>6. ASSUME NEW r \in Regs, NEW x \in Workers, Applies(x, r)', reg'[r].alone
      PROVE  During(x, r)'
  <2>1. Applies(x, r)
    BY <1>2, <1>6 DEF Applies, Others
  <2>2. x = w /\ During(w, r)
    BY <1>1, <1>3, <1>6, <2>1, AloneDerives
  <2> QED
    BY <1>1, <1>2, <2>2 DEF During, Computing, Others, Frozen, Basis, Deriving
<1>7. ASSUME NEW r \in Regs, reg'[r].status = "approved", reg'[r].alone,
             \A x \in Workers : ~Applies(x, r)'
      PROVE  After(r)'
  BY <1>1, <1>2, <1>7 DEF RegInv, After, Others, Applies, Frozen, Basis
<1> QED
  BY <1>4, <1>5, <1>6, <1>7 DEF RegInv

\* A request that writes the row, and returns or goes on to the second write.
LEMMA WriteKeeps ==
  ASSUME TypeOK, RegInv, UNCHANGED <<active, reg>>,
         NEW w \in Workers, w \in Computing, Others(w), work'[w].punches = {},
         OpOf(work'[w]), work'[w].step \notin {"upsert", "delete"},
         \/ work'[w].op = work[w].op /\ work'[w].reg = work[w].reg
         \/ work'[w].op = None,
         \A r \in Regs : Untouched(r, Basis) /\ Untouched(r, work[w].punches) =>
           Untouched(r, Basis'),
         \A r \in Regs : Applies(w, r) /\ During(w, r) =>
           IF work'[w].op = None THEN After(r)' ELSE During(w, r)',
         \A r \in Regs : After(r) => After(r)'
  PROVE  RegInv'
<1>1. Roles'
  <2>1. \/ work'[w].op = work[w].op /\ work'[w].reg = work[w].reg
        \/ work'[w].op \notin {"apply", "file"}
    BY NullAssumption
  <2> QED
    BY <2>1, RolesKept DEF RegInv
<1>2. ASSUME NEW r \in Regs PROVE Before(r)'
  <2>1. Before(r)
    BY DEF RegInv
  <2>2. \A x \in Workers : work'[x].punches = {} \/ work'[x] = work[x]
    BY DEF Others
  <2> QED
    BY <2>1, <2>2 DEF Before, Untouched
<1>3. ASSUME NEW r \in Regs, NEW x \in Workers, Applies(x, r)', reg'[r].alone
      PROVE  During(x, r)'
  <2>1. Applies(x, r)
    BY <1>3, NullAssumption DEF Applies, Others
  <2>2. x = w /\ During(w, r)
    BY <1>3, <2>1, AloneDerives
  <2> QED
    BY <1>3, <2>1, <2>2, NullAssumption DEF Applies
<1>4. ASSUME NEW r \in Regs, reg'[r].status = "approved", reg'[r].alone,
             \A x \in Workers : ~Applies(x, r)'
      PROVE  After(r)'
  <2>1. CASE \E x \in Workers : Applies(x, r)
    <3>1. PICK x \in Workers : Applies(x, r)
      BY <2>1
    <3>2. x = w /\ During(w, r)
      BY <1>4, <3>1, AloneDerives
    <3> QED
      BY <1>4, <3>1, <3>2 DEF Applies
  <2>2. CASE ~\E x \in Workers : Applies(x, r)
    BY <1>4, <2>2 DEF RegInv
  <2> QED
    BY <2>1, <2>2
<1> QED
  BY <1>1, <1>2, <1>3, <1>4 DEF RegInv

\* While r is alone no other request is about to derive or to delete.
LEMMA NobodyElse ==
  ASSUME RegInv, NEW w \in Workers, NEW r \in Regs, During(w, r), NEW x \in Workers \ {w}
  PROVE  work[x].step \notin Deriving
BY DEF RegInv, Roles, OpOf, During, Computing

LEMMA DeleteKeeps ==
  ASSUME TypeOK, RegInv, NEW w \in Workers, DeleteDay(w)
  PROVE  RegInv'
<1>1. /\ work[w].step = "delete" /\ Return(w) /\ UNCHANGED <<active, reg>>
      /\ \/ day' = None /\ day # None /\ day.id = work[w].row.id
         \/ day' = day /\ ~(day # None /\ day.id = work[w].row.id)
  BY DEF DeleteDay
<1>2. w \in Computing
  BY <1>1 DEF RegInv, Roles, OpOf, Deriving, Computing
<1>3. OpOf(work'[w]) /\ Others(w) /\ work'[w].step \notin {"upsert", "delete"}
      /\ work'[w].punches = {}
  BY <1>1, ReturnFields, NullAssumption DEF OpOf, Deriving
<1>4. \A r \in Regs : Untouched(r, Basis) => Untouched(r, Basis')
  BY <1>1 DEF Untouched, Basis
<1>5. ASSUME NEW r \in Regs, Applies(w, r), During(w, r) PROVE After(r)' /\ work'[w].op = None
  <2>1. day' = None /\ ~reg[r].postFreeze
    BY <1>1, <1>5 DEF During
  <2>2. \A x \in Workers : work'[x].step # "upsert"
    BY <1>3, <1>5, NobodyElse DEF Others, Deriving
  <2> QED
    BY <1>1, <1>5, <2>1, <2>2, ReturnFields DEF After, Applies
<1>6. ASSUME NEW r \in Regs, After(r) PROVE After(r)'
  BY <1>1, <1>3, <1>6 DEF After, Others, Frozen, Basis
<1> QED
  BY <1>1, <1>2, <1>3, <1>4, <1>5, <1>6, ReturnFields, WriteKeeps

LEMMA ClampKeeps ==
  ASSUME TypeOK, RegInv, NEW w \in Workers, Clamp(w)
  PROVE  RegInv'
<1>1. work[w].step = "clamp" /\ Return(w) /\ UNCHANGED <<active, reg>>
  BY DEF Clamp
<1>2. w \in Computing
  BY <1>1 DEF RegInv, Roles, OpOf, Deriving, Computing
<1>3. OpOf(work'[w]) /\ Others(w) /\ work'[w].step \notin {"upsert", "delete"}
      /\ work'[w].punches = {}
  BY <1>1, ReturnFields, NullAssumption DEF OpOf, Deriving
<1>4. SameRow
  <2>1. PICK c \in BOOLEAN, amount \in {Releasable(work[w].row, q) : q \in BOOLEAN} :
          day' = IF day = None \/ Frozen \/ day.id # work[w].row.id THEN day
                 ELSE IF amount = work[w].row.approved
                      THEN [day EXCEPT !.doubt = @ /\ ~c]
                 ELSE [day EXCEPT !.approved = amount, !.doubt = ~c]
    BY DEF Clamp
  <2>2. CASE day' = day
    BY <2>2 DEF SameRow
  <2>3. CASE day' # day
    <3>1. day \in Rows
      BY <2>1, <2>3 DEF TypeOK
    <3>2. day'.frozen = day.frozen /\ day'.basis = day.basis /\ day'.id = day.id
      BY <2>1, <2>3, <3>1 DEF Rows
    <3>3. amount \in Minutes
      <4>1. work[w].row \in Rows
        BY <1>1 DEF TypeOK, Requests, Holding
      <4> QED
        BY <2>1, <4>1 DEF Releasable, Rows
    <3>4. day' \in Rows
      BY <2>1, <2>3, <3>1, <3>3 DEF Rows
    <3> QED
      BY <3>1, <3>2, <3>4, NullAssumption DEF SameRow
  <2> QED
    BY <2>2, <2>3
<1>5. Basis' = Basis /\ (Frozen' <=> Frozen)
  BY <1>4 DEF SameRow, Basis, Frozen
<1>6. ASSUME NEW r \in Regs, Applies(w, r), During(w, r) PROVE After(r)' /\ work'[w].op = None
  <2>1. Punch(r) \in Basis /\ ~reg[r].postFreeze
    BY <1>1, <1>6 DEF During
  <2>2. \A x \in Workers : work'[x].step # "upsert"
    BY <1>3, <1>6, NobodyElse DEF Others, Deriving
  <2> QED
    BY <1>1, <1>5, <1>6, <2>1, <2>2, ReturnFields DEF After, Applies
<1>7. ASSUME NEW r \in Regs, After(r) PROVE After(r)'
  BY <1>1, <1>3, <1>4, <1>5, <1>7 DEF After, Others, SameRow, Frozen
<1> QED
  BY <1>1, <1>2, <1>3, <1>5, <1>6, <1>7, ReturnFields, WriteKeeps

LEMMA StampKeeps ==
  ASSUME TypeOK, RegInv, NEW w \in Workers, Stamp(w)
  PROVE  RegInv'
<1>1. work[w].step = "stamp" /\ Leave(w) /\ UNCHANGED <<active, reg>>
  BY DEF Stamp
<1>2. work[w].op = "freeze" /\ w \in Computing
  BY <1>1 DEF RegInv, Roles, OpOf, Computing
<1>3. /\ OpOf(work'[w]) /\ Others(w) /\ work'[w].step = "idle" /\ work'[w].op = None
      /\ work'[w].punches = {}
  BY <1>1, LeaveFields, NullAssumption DEF OpOf, Deriving
<1>4. /\ Basis' = Basis /\ (Frozen => day' = day) /\ (day' # None <=> day # None)
      /\ day # None => day'.id = day.id
  <2>1. PICK d : /\ d = (\E x \in Workers : work[x].step = "clamp")
                 /\ day' = IF day = None \/ Frozen THEN day
                           ELSE [day EXCEPT !.frozen = TRUE, !.doubt = @ \/ d]
    BY DEF Stamp
  <2>2. CASE day' = day
    BY <2>2 DEF Basis
  <2>3. CASE day' # day
    <3>1. day \in Rows /\ ~Frozen
      BY <2>1, <2>3 DEF TypeOK
    <3>2. day'.basis = day.basis /\ day'.id = day.id /\ day'.frozen
      BY <2>1, <2>3, <3>1 DEF Rows
    <3>3. day' \in Rows
      BY <2>1, <2>3, <3>1 DEF Rows
    <3> QED
      BY <3>1, <3>2, <3>3, NullAssumption DEF Basis
  <2> QED
    BY <2>2, <2>3
<1>5. \A r \in Regs : ~Applies(w, r)
  BY <1>2 DEF Applies
<1>6. ASSUME NEW r \in Regs, After(r) PROVE After(r)'
  BY <1>1, <1>3, <1>4, <1>6 DEF After, Others, Frozen
<1> QED
  BY <1>1, <1>2, <1>3, <1>4, <1>5, <1>6, WriteKeeps

\* The first write of a derivation.
LEMMA UpsertKeeps ==
  ASSUME TypeOK, RegInv, NEW w \in Workers, Upsert(w)
  PROVE  RegInv'
<1> DEFINE ps == work[w].punches
           new == Upserted(ps)
<1>1. work[w].step = "upsert" /\ UNCHANGED <<active, reg>>
  BY DEF Upsert
<1>2. w \in Computing
  BY <1>1 DEF RegInv, Roles, OpOf, Deriving, Computing
<1>3. CASE Frozen
  <2>1. new = None
    BY <1>3 DEF Upserted, Frozen
  <2>2. Leave(w) /\ day' = day
    BY <2>1 DEF Upsert
  <2>3. /\ OpOf(work'[w]) /\ Others(w) /\ work'[w].step = "idle" /\ work'[w].op = None
        /\ work'[w].punches = {}
    BY <2>2, LeaveFields, NullAssumption DEF OpOf, Deriving
  <2>4. \A r \in Regs : ~(Applies(w, r) /\ During(w, r))
    BY <1>1, <1>3 DEF During, Deriving
  <2>5. \A r \in Regs : After(r) => After(r)'
    BY <1>1, <2>2, <2>3 DEF After, Others, Frozen, Basis
  <2>6. Basis' = Basis
    BY <2>2 DEF Basis
  <2> QED
    BY <1>1, <1>2, <2>2, <2>3, <2>4, <2>5, <2>6, WriteKeeps
<1>4. CASE ~Frozen
  <2>1. ps \in SUBSET Punches /\ Derived(ps) \in Minutes
    BY DerivedIsAMinute DEF TypeOK, Requests
  <2>2. new \in Rows /\ new.basis = ps /\ ~new.frozen
    <3>1. CASE day = None
      <4>1. new = [id |-> rows + 1, v |-> 0, frozen |-> FALSE, approved |-> 0,
                   overtime |-> Derived(ps), basis |-> ps, doubt |-> FALSE]
        BY <3>1 DEF Upserted
      <4>2. rows + 1 \in 1..MaxRows /\ 0 \in Minutes
        BY <3>1, DayAssumption DEF Upsert, TypeOK, Minutes
      <4> QED
        BY <2>1, <4>1, <4>2 DEF Rows
    <3>2. CASE day # None
      <4>1. day \in Rows /\ ~day.frozen
        BY <1>4, <3>2 DEF TypeOK, Frozen
      <4> QED
        BY <2>1, <3>2, <4>1 DEF Upserted, Rows
    <3> QED
      BY <3>1, <3>2
  <2>3. new # None
    BY <2>2, NullAssumption
  <2>4. day' = new /\ Hold(w, "clamp", new, {})
    BY <2>3 DEF Upsert
  <2>5. /\ Others(w) /\ work'[w].step = "clamp" /\ work'[w].punches = {}
        /\ work'[w].op = work[w].op /\ work'[w].reg = work[w].reg
    BY <2>4, HoldFields
  <2>6. OpOf(work'[w])
    BY <1>1, <2>5 DEF RegInv, Roles, OpOf, Deriving
  <2>7. Basis' = ps /\ ~Frozen'
    BY <2>2, <2>3, <2>4 DEF Basis, Frozen
  <2>8. ASSUME NEW r \in Regs, Applies(w, r), During(w, r) PROVE During(w, r)'
    BY <1>1, <1>2, <2>5, <2>7, <2>8 DEF During, Computing, Others, Deriving
  <2>9. ASSUME NEW r \in Regs, After(r) PROVE After(r)'
    BY <1>1, <1>4, <2>5, <2>7, <2>9 DEF After, Others
  <2>10. work'[w].op # None
    BY <1>2, <2>5, NullAssumption DEF Computing
  <2> QED
    BY <1>1, <1>2, <2>5, <2>6, <2>7, <2>8, <2>9, <2>10, WriteKeeps
<1> QED
  BY <1>3, <1>4

-----------------------------------------------------------------------------
\* A regularization is applied: its punches go in, the ones that were read go
\* out, and the row is derived or the regularization flagged.
LEMMA ApplyingRole ==
  ASSUME RegInv, NEW w \in Workers,
         work[w].step \in {"previous", "in", "out", "supersede", "frozen", "flag"}
  PROVE  /\ work[w].op = "apply" /\ w \in Computing
         /\ work[w].reg \in Regs /\ reg[work[w].reg].status = "approved"
         /\ \A r \in Regs, x \in Workers : Applies(x, r) /\ Applies(w, r) => x = w
BY DEF RegInv, Roles, OpOf, Computing, Applies

LEMMA ReadPreviousKeeps ==
  ASSUME TypeOK, RegInv, NEW w \in Workers, ReadPrevious(w)
  PROVE  RegInv'
<1>1. Hold(w, "in", None, active) /\ work[w].step = "previous" /\ UNCHANGED <<day, active, reg>>
  BY DEF ReadPrevious
<1>2. /\ Others(w)
      /\ work'[w].step = "in" /\ work'[w].punches = active
      /\ work'[w].op = work[w].op /\ work'[w].reg = work[w].reg
  BY <1>1, HoldFields
<1>3. work[w].op = "apply" /\ w \in Computing
  BY <1>1, ApplyingRole
<1>4. OpOf(work'[w])
  BY <1>2, <1>3 DEF OpOf, Deriving
<1>5. Roles'
  BY <1>1, <1>2, <1>4, RolesKept DEF RegInv
<1>6. \A r \in Regs : Before(r)'
  BY <1>1, <1>2 DEF RegInv, Before, Untouched, Basis, Others
<1>7. ASSUME NEW r \in Regs, NEW x \in Workers, Applies(x, r)', reg'[r].alone
      PROVE  During(x, r)'
  <2>1. Applies(x, r)
    BY <1>2, <1>7 DEF Applies, Others
  <2>2. x = w /\ During(w, r)
    BY <1>1, <1>3, <1>7, <2>1, AloneDerives
  <2> QED
    BY <1>1, <1>2, <2>2 DEF During, Computing, Others, Untouched, Frozen, Basis, Deriving
<1>8. ASSUME NEW r \in Regs, reg'[r].status = "approved", reg'[r].alone,
             \A x \in Workers : ~Applies(x, r)'
      PROVE  After(r)'
  <2>1. After(r)
    BY <1>1, <1>2, <1>8 DEF RegInv, Applies, Others
  <2> QED
    BY <1>1, <1>2, <2>1 DEF After, Others, Frozen, Basis
<1> QED
  BY <1>5, <1>6, <1>7, <1>8 DEF RegInv

LEMMA InsertKeeps ==
  ASSUME TypeOK, RegInv, NEW w \in Workers, InsertPunch(w)
  PROVE  RegInv'
<1> DEFINE s == work[w].reg
<1>1. work[w].step \in {"in", "out"} /\ UNCHANGED <<day, reg>>
  BY DEF InsertPunch
<1>2. /\ work[w].op = "apply" /\ w \in Computing /\ s \in Regs
      /\ reg[s].status = "approved"
  BY <1>1, ApplyingRole
<1>3. /\ Others(w)
      /\ work'[w].step = (IF work[w].step = "in" THEN "out" ELSE "supersede")
      /\ work'[w].punches = work[w].punches
      /\ work'[w].op = work[w].op /\ work'[w].reg = work[w].reg
  BY HoldFields DEF InsertPunch
<1>4. /\ \A p \in active : p \in active'
      /\ \A r \in Regs \ {s} : \A m : <<r, m>> \in active' <=> <<r, m>> \in active
      /\ work[w].step = "out" => Punch(s) \in active'
  BY DEF InsertPunch, Punch
<1>5. Roles'
  <2>1. OpOf(work'[w])
    BY <1>1, <1>2, <1>3 DEF OpOf, Deriving
  <2> QED
    BY <1>1, <1>3, <2>1, RolesKept DEF RegInv
<1>6. ASSUME NEW r \in Regs PROVE Before(r)'
  <2>1. Before(r) /\ \A x \in Workers : work'[x].punches = work[x].punches
    BY <1>3 DEF RegInv, Others
  <2> QED
    BY <1>1, <1>2, <1>4, <2>1 DEF Before, Untouched, Basis
<1>7. ASSUME NEW r \in Regs, NEW x \in Workers, Applies(x, r)', reg'[r].alone
      PROVE  During(x, r)'
  <2>1. Applies(x, r)
    BY <1>3, <1>7 DEF Applies, Others
  <2>2. x = w /\ During(w, r) /\ r = s
    BY <1>1, <1>2, <1>7, <2>1, AloneDerives DEF Applies
  <2>3. Untouched(r, Basis) /\ Untouched(r, work[w].punches)
    BY <1>1, <2>2 DEF During
  <2>4. Punch(r) \notin Basis /\ Punch(r) \notin work[w].punches
    BY <2>3, DayAssumption DEF Untouched, Punch
  <2> QED
    BY <1>1, <1>3, <1>4, <2>2, <2>3, <2>4
    DEF During, Computing, Others, Untouched, Frozen, Basis, Deriving
<1>8. ASSUME NEW r \in Regs, reg'[r].status = "approved", reg'[r].alone,
             \A x \in Workers : ~Applies(x, r)'
      PROVE  After(r)'
  <2>1. After(r) /\ r # s
    BY <1>1, <1>2, <1>3, <1>8 DEF RegInv, Applies, Others
  <2>2. Punch(r) \in active' => Punch(r) \in active
    BY <1>4, <2>1 DEF Punch
  <2> QED
    BY <1>1, <1>3, <2>1, <2>2 DEF After, Others, Frozen, Basis
<1> QED
  BY <1>5, <1>6, <1>7, <1>8 DEF RegInv

LEMMA SupersedeKeeps ==
  ASSUME TypeOK, RegInv, NEW w \in Workers, SupersedePrevious(w)
  PROVE  RegInv'
<1>1. /\ work[w].step = "supersede" /\ Step(w, "frozen") /\ UNCHANGED <<day, reg>>
      /\ active' = active \ work[w].punches
  BY DEF SupersedePrevious
<1>2. work[w].op = "apply" /\ w \in Computing
  BY <1>1, ApplyingRole
<1>3. /\ Others(w) /\ work'[w].step = "frozen" /\ work'[w].punches = {}
      /\ work'[w].op = work[w].op /\ work'[w].reg = work[w].reg
  BY <1>1, StepFields
<1>4. Roles'
  <2>1. OpOf(work'[w])
    BY <1>2, <1>3 DEF OpOf, Deriving
  <2> QED
    BY <1>1, <1>3, <2>1, RolesKept DEF RegInv
<1>5. \A r \in Regs : Before(r)'
  BY <1>1, <1>3 DEF RegInv, Before, Untouched, Basis, Others
<1>6. ASSUME NEW r \in Regs, NEW x \in Workers, Applies(x, r)', reg'[r].alone
      PROVE  During(x, r)'
  <2>1. Applies(x, r)
    BY <1>3, <1>6 DEF Applies, Others
  <2>2. x = w /\ During(w, r)
    BY <1>1, <1>2, <1>6, <2>1, AloneDerives
  <2> QED
    BY <1>1, <1>3, <2>2 DEF During, Computing, Others, Frozen, Basis, Deriving
<1>7. ASSUME NEW r \in Regs, reg'[r].status = "approved", reg'[r].alone,
             \A x \in Workers : ~Applies(x, r)'
      PROVE  After(r)'
  <2>1. After(r)
    BY <1>1, <1>3, <1>7 DEF RegInv, Applies, Others
  <2> QED
    BY <1>1, <1>3, <2>1 DEF After, Others, Frozen, Basis
<1> QED
  BY <1>4, <1>5, <1>6, <1>7 DEF RegInv

LEMMA ReadFrozenKeeps ==
  ASSUME TypeOK, RegInv, NEW w \in Workers, ReadFrozen(w)
  PROVE  RegInv'
<1>1. work[w].step = "frozen" /\ Step(w, AfterApply) /\ UNCHANGED <<day, active, reg>>
  BY DEF ReadFrozen
<1>2. work[w].op = "apply" /\ w \in Computing
  BY <1>1, ApplyingRole
<1>3. /\ Others(w) /\ work'[w].punches = {}
      /\ work'[w].op = work[w].op /\ work'[w].reg = work[w].reg
      /\ \/ Frozen /\ work'[w].step = "flag"
         \/ ~Frozen /\ work'[w].step \in {"existing", "left"}
  BY <1>1, StepFields DEF AfterApply, Entry
<1>4. OpOf(work'[w])
  BY <1>2, <1>3 DEF OpOf, Deriving
<1>5. ASSUME NEW r \in Regs, During(w, r) PROVE During(w, r)'
  BY <1>1, <1>2, <1>3, <1>5 DEF During, Computing, Others, Frozen, Basis, Deriving
<1>6. work'[w].op # None
  BY <1>2, <1>3, NullAssumption
<1> QED
  BY <1>1, <1>2, <1>3, <1>4, <1>5, <1>6, ReadKeeps

LEMMA FlagKeeps ==
  ASSUME TypeOK, RegInv, NEW w \in Workers, FlagPostFreeze(w)
  PROVE  RegInv'
<1> DEFINE s == work[w].reg
<1>1. /\ work[w].step = "flag" /\ Leave(w) /\ UNCHANGED <<day, active>>
      /\ reg' = [reg EXCEPT ![s].postFreeze = TRUE]
  BY DEF FlagPostFreeze
<1>2. /\ work[w].op = "apply" /\ w \in Computing /\ s \in Regs
      /\ reg[s].status = "approved"
  BY <1>1, ApplyingRole
<1>3. /\ Others(w) /\ work'[w].step = "idle" /\ work'[w].punches = {}
      /\ work'[w].op = None
  BY <1>1, LeaveFields
<1>4. /\ \A r \in Regs : reg'[r].status = reg[r].status /\ reg'[r].alone = reg[r].alone
      /\ \A r \in Regs \ {s} : reg'[r].postFreeze = reg[r].postFreeze
      /\ reg'[s].postFreeze
  BY <1>1, <1>2 DEF TypeOK
<1>5. Roles'
  <2>1. OpOf(work'[w]) /\ work'[w].op \notin {"apply", "file"}
    BY <1>3, NullAssumption DEF OpOf, Deriving
  <2> QED
    BY <1>3, <1>4, <2>1, RolesKept DEF RegInv
<1>6. \A r \in Regs : Before(r)'
  BY <1>1, <1>2, <1>3, <1>4 DEF RegInv, Before, Untouched, Basis, Others
<1>7. ASSUME NEW r \in Regs, NEW x \in Workers, Applies(x, r)', reg'[r].alone
      PROVE  FALSE
  <2>1. Applies(x, r) /\ x # w
    BY <1>3, <1>7, NullAssumption DEF Applies, Others
  <2> QED
    BY <1>2, <1>4, <1>7, <2>1, AloneDerives
<1>8. ASSUME NEW r \in Regs, reg'[r].status = "approved", reg'[r].alone,
             \A x \in Workers : ~Applies(x, r)'
      PROVE  After(r)'
  <2>1. CASE r = s
    <3>1. During(w, r)
      BY <1>2, <1>4, <1>8, <2>1 DEF RegInv, Applies
    <3>2. Frozen /\ Punch(r) \notin Basis
      BY <1>1, <3>1 DEF During
    <3>3. \A x \in Workers : work'[x].step # "delete"
      BY <1>3, <3>1, NobodyElse DEF Others, Deriving
    <3> QED
      BY <1>1, <1>4, <2>1, <3>2, <3>3 DEF After, Frozen, Basis
  <2>2. CASE r # s
    <3>1. \A x \in Workers : ~Applies(x, r)
      BY <1>3, <1>8, <2>2 DEF Applies, Others
    <3>2. After(r)
      BY <1>4, <1>8, <3>1 DEF RegInv
    <3> QED
      BY <1>1, <1>3, <1>4, <2>2, <3>2 DEF After, Others, Frozen, Basis
  <2> QED
    BY <2>1, <2>2
<1> QED
  BY <1>5, <1>6, <1>7, <1>8 DEF RegInv

-----------------------------------------------------------------------------
LEMMA RegInvInitially == Init => RegInv
<1> SUFFICES ASSUME Init PROVE RegInv
  OBVIOUS
<1>1. \A r \in Regs : Untouched(r, active)
  BY DayAssumption DEF Init, Untouched
<1>2. \A w \in Workers : /\ work[w].step = "idle" /\ work[w].op = None
                         /\ work[w].punches = {}
  BY DEF Init, Idle
<1>3. Roles
  BY <1>2, NullAssumption DEF Roles, OpOf, Deriving
<1>4. \A r \in Regs : Before(r)
  BY <1>1, <1>2 DEF Init, Before, Untouched, Basis
<1>5. \A r \in Regs : reg[r].status = "none"
  BY DEF Init
<1>6. \A r \in Regs, w \in Workers : ~Applies(w, r)
  BY <1>2, NullAssumption DEF Applies
<1> QED
  BY <1>3, <1>4, <1>5, <1>6 DEF RegInv

LEMMA RegInvInductive == TypeOK /\ RegInv /\ [Next]_vars => RegInv'
<1> SUFFICES ASSUME TypeOK, RegInv, [Next]_vars PROVE RegInv'
  OBVIOUS
<1>1. CASE World \/ Decide
  BY <1>1, WorldKeeps
<1>2. ASSUME NEW w \in Workers, ComputeDay(w) PROVE RegInv'
  BY <1>2, BeginKeeps, ReadExistingKeeps, ReadLeftKeeps, DeleteKeeps, ReadInputsKeeps,
     UpsertKeeps, ClampKeeps
  DEF ComputeDay
<1>3. ASSUME NEW w \in Workers, FreezeAndFeed(w) PROVE RegInv'
  BY <1>3, BeginKeeps, StampKeeps, FeedAndOvertimeKeep DEF FreezeAndFeed
<1>4. ASSUME NEW w \in Workers, Overtime(w) PROVE RegInv'
  BY <1>4, FeedAndOvertimeKeep
<1>5. ASSUME NEW w \in Workers, Regularize(w) PROVE RegInv'
  BY <1>5, FilingKeeps, ApprovalKeeps, ReadPreviousKeeps, InsertKeeps, SupersedeKeeps,
     ReadFrozenKeeps, FlagKeeps
  DEF Regularize
<1>6. CASE UNCHANGED vars
  <2>1. UNCHANGED <<day, active, reg, work>>
    BY <1>6 DEF vars
  <2>2. Roles'
    BY <2>1 DEF RegInv, Roles
  <2> QED
    BY <2>1, <2>2, AsideKeeps DEF SameRow
<1> QED
  BY <1>1, <1>2, <1>3, <1>4, <1>5, <1>6 DEF Next

\* A regularization applied while nothing else derives or freezes the day is
\* in the row or flagged to flow forward, never both and never neither, as
\* long as its punch stands (apply, regularization.service.ts).
THEOREM AppliedOnce == Spec => []RegularizedOnce
<1>1. ASSUME TypeOK, RegInv, NEW r \in Regs, reg[r].status = "approved", reg[r].alone,
             \A w \in Workers : ~Applies(w, r), Punch(r) \in active, Frozen
      PROVE  reg[r].postFreeze = (Punch(r) \notin day.basis)
  <2>1. After(r) /\ Basis = day.basis
    BY <1>1 DEF RegInv, Frozen, Basis
  <2>2. reg[r].postFreeze \in BOOLEAN
    BY <1>1 DEF TypeOK
  <2>3. reg[r].postFreeze <=> Punch(r) \notin day.basis
    BY <1>1, <2>1 DEF After, Frozen
  <2> QED
    BY <2>2, <2>3
<1>2. TypeOK /\ RegInv => RegularizedOnce
  BY <1>1 DEF RegularizedOnce, Applies, Punch
<1> QED
  BY <1>2, DayTypes, RegInvInitially, RegInvInductive, PTL DEF Spec
=============================================================================
