-------------------------- MODULE PayrollRunProofs --------------------------
(***************************************************************************)
(* Proofs about PayrollRun for any number of runs, overlapping calls,      *)
(* users, periods and leave requests.                                      *)
(***************************************************************************)
EXTENDS PayrollRun, TLAPS

\* Call c is inside a transition: it has read its run and not yet written.
InTransition(c) == call[c].step \in {"attendance", "entries", "rows", "write"}

\* What a call in transition knows of its run.  Its version is one the run
\* has had, and while the run still has that version the guards it passed
\* are still true: this is why the filter of updateById is enough.
GuardOK(c) ==
  LET k == call[c] IN
    /\ k.run \in Runs
    /\ k.op # "create"
    /\ run[k.run].status # "none"
    /\ k.v <= run[k.run].v
    /\ k.period = run[k.run].period
    /\ run[k.run].v = k.v => run[k.run].status \in From(k.op)
    /\ k.op = "approve" /\ run[k.run].v = k.v => run[k.run].frozenBy # k.by
    /\ k.op \in {"freeze", "approve"} => k.by \in Users
    /\ k.step # "write" => k.op = "freeze"

\* How far the freeze made by call c has pinned what it found.
PinOK(c) ==
  LET k == call[c] IN
    k.op = "freeze" =>
      /\ k.step # "attendance" => k.period \in stamped
      /\ \A l \in Leaves : k.seen[l] = "consumed" /\ k.period \in Span[l] =>
           /\ leave[l] = "consumed"
           /\ k.step = "rows" => l \in k.todo \/ <<k.run, l>> \in snapshot
           /\ k.step = "write" => <<k.run, l>> \in snapshot

GuardInv == \A c \in Calls : InTransition(c) => GuardOK(c)
PinInv == \A c \in Calls : InTransition(c) => PinOK(c)

\* A run past its freeze was frozen by somebody.
FreezerInv == \A r \in Runs : run[r].status \in Priced => run[r].frozenBy \in Users

RunInv ==
  /\ TypeOK
  /\ GuardInv
  /\ PinInv
  /\ FreezerInv
  /\ OneLiveRun
  /\ TwoPeople
  /\ FrozenAttendance
  /\ SnapshotComplete

-----------------------------------------------------------------------------
LEMMA Tables ==
  /\ From("freeze") = {"draft"} /\ To("freeze") = "frozen"
  /\ From("approve") = {"frozen"} /\ To("approve") = "approved"
  /\ From("pay") = {"approved"} /\ To("pay") = "paid"
  /\ From("close") = {"paid"} /\ To("close") = "closed"
  /\ From("cancel") = {"draft", "frozen", "approved"} /\ To("cancel") = "cancelled"
  /\ From("create") = {"none"} /\ To("create") = "draft"
BY DEF From, To

LEMMA IdleTyped == Idle \in Call /\ Idle.step = "idle"
<1>1. (CHOOSE p \in Periods : TRUE) \in Periods
  BY RunAssumption
<1>2. Unfiled \in [Leaves -> LeaveStates]
  BY DEF Unfiled, LeaveStates
<1> QED
  BY <1>1, <1>2 DEF Idle, Call, Steps, Ops

LEMMA InitRunInv == Init => RunInv
<1> SUFFICES ASSUME Init PROVE RunInv
  OBVIOUS
<1>1. Idle.period \in Periods
  BY IdleTyped DEF Call
<1>2. Unfiled \in [Leaves -> LeaveStates]
  BY DEF Unfiled, LeaveStates
<1>3. TypeOK
  <2>1. run \in [Runs -> Run]
    BY <1>1 DEF Init, Run, Statuses
  <2>2. call \in [Calls -> Call]
    BY IdleTyped DEF Init
  <2> QED
    BY <1>2, <2>1, <2>2, RunAssumption DEF Init, TypeOK
<1>4. \A c \in Calls : ~ InTransition(c)
  BY IdleTyped DEF Init, InTransition
<1>5. \A r \in Runs : run[r].status = "none"
  BY DEF Init
<1> QED
  BY <1>3, <1>4, <1>5
  DEF RunInv, GuardInv, PinInv, FreezerInv, OneLiveRun, TwoPeople,
      FrozenAttendance, SnapshotComplete, Live, Priced

-----------------------------------------------------------------------------
(***************************************************************************)
(* Typing.                                                                 *)
(***************************************************************************)

LEMMA BeginTyped ==
  ASSUME TypeOK, NEW c \in Calls, NEW op \in Ops, NEW r \in Runs, NEW v \in Nat,
         NEW u \in Users \cup {None}, NEW step \in Steps, Begin(c, op, r, v, u, step)
  PROVE  call' \in [Calls -> Call]
<1>1. run[r].period \in Periods
  BY DEF TypeOK, Run
<1>2. (IF op = "freeze" THEN leave ELSE Unfiled) \in [Leaves -> LeaveStates]
  BY DEF TypeOK, Unfiled, LeaveStates
<1>3. [step |-> step, op |-> op, run |-> r, v |-> v, period |-> run[r].period,
       by |-> u, todo |-> {},
       seen |-> IF op = "freeze" THEN leave ELSE Unfiled] \in Call
  BY <1>1, <1>2 DEF Call
<1> QED
  BY <1>3 DEF TypeOK, Begin

LEMMA UpdatedRunTyped ==
  ASSUME NEW d \in Run, NEW s \in Statuses, NEW w \in Nat,
         NEW f \in Users \cup {None}, NEW a \in Users \cup {None}
  PROVE  [d EXCEPT !.status = s, !.v = w, !.frozenBy = f, !.approvedBy = a] \in Run
BY DEF Run

\* The operations that read a run and change nothing but their call.
Starts(c, r, v, u) ==
  \/ StartFreeze(c, r, v, u) \/ StartApprove(c, r, v, u)
  \/ StartPay(c, r, v) \/ StartClose(c, r, v) \/ StartCancel(c, r, v)

LEMMA StartsTyped ==
  ASSUME TypeOK, NEW c \in Calls, NEW r \in Runs, NEW v \in 0..run[r].v,
         NEW u \in Users \cup {None}, Starts(c, r, v, u)
  PROVE  TypeOK'
<1>1. v \in Nat
  BY DEF TypeOK, Run
<1>2. \E op \in Ops, w \in Users \cup {None}, step \in Steps :
         Begin(c, op, r, v, w, step)
  BY DEF Starts, StartFreeze, StartApprove, StartPay, StartClose, StartCancel,
         Ops, Steps
<1>3. call' \in [Calls -> Call]
  BY <1>1, <1>2, BeginTyped
<1>4. UNCHANGED <<run, today, stamped, leave, snapshot, atFreeze>>
  BY <1>2 DEF Begin
<1> QED
  BY <1>3, <1>4 DEF TypeOK

LEMMA NextTypeOK == TypeOK /\ GuardInv /\ [Next]_vars => TypeOK'
<1> SUFFICES ASSUME TypeOK, GuardInv, [Next]_vars PROVE TypeOK'
  OBVIOUS
<1>1. CASE NextMonth
  BY <1>1, RunAssumption DEF NextMonth, TypeOK
<1>2. ASSUME NEW l \in Leaves, LeaveNext(l) PROVE TypeOK'
  <2>1. leave' \in [Leaves -> LeaveStates]
    BY <1>2 DEF LeaveNext, FileLeave, DropLeave, CompleteLeave,
                AppendConsumption, LeaveStates, TypeOK
  <2>2. UNCHANGED <<run, call, today, stamped, snapshot, atFreeze>>
    BY <1>2 DEF LeaveNext, FileLeave, DropLeave, CompleteLeave, AppendConsumption
  <2> QED
    BY <2>1, <2>2 DEF TypeOK
<1>3. ASSUME NEW c \in Calls, NEW p \in Periods, StartCreate(c, p) PROVE TypeOK'
  <2>1. [Idle EXCEPT !.step = "insert", !.period = p] \in Call
    BY IdleTyped DEF Call, Steps
  <2> QED
    BY <1>3, <2>1 DEF StartCreate, TypeOK
<1>4. ASSUME NEW c \in Calls, NEW r \in Runs, InsertRun(c, r) PROVE TypeOK'
  <2>1. call[c].period \in Periods
    BY DEF TypeOK, Call
  <2>2. [run[r] EXCEPT !.status = "draft", !.period = call[c].period] \in Run
    BY <2>1 DEF TypeOK, Run, Statuses
  <2>3. run' \in [Runs -> Run]
    BY <1>4, <2>2 DEF InsertRun, TypeOK
  <2>4. call' \in [Calls -> Call]
    BY <1>4, IdleTyped DEF InsertRun, TypeOK
  <2> QED
    BY <1>4, <2>3, <2>4 DEF InsertRun, TypeOK
<1>5. ASSUME NEW c \in Calls, NEW r \in Runs, NEW v \in 0..run[r].v,
             NEW u \in Users \cup {None}, Starts(c, r, v, u)
      PROVE  TypeOK'
  BY <1>5, StartsTyped
<1>6. ASSUME NEW c \in Calls, FreezeAttendance(c) PROVE TypeOK'
  <2>1. call[c].period \in Periods /\ [call[c] EXCEPT !.step = "entries"] \in Call
    <3>1. call[c] \in Call
      BY DEF TypeOK
    <3> QED
      BY <3>1 DEF Call, Steps
  <2> QED
    BY <1>6, <2>1 DEF FreezeAttendance, TypeOK
<1>7. ASSUME NEW c \in Calls, ReadEntries(c) PROVE TypeOK'
  <2>1. Consumed(call[c].period) \in SUBSET Leaves
    BY DEF Consumed
  <2>2. [call[c] EXCEPT !.step = "rows", !.todo = Consumed(call[c].period)] \in Call
    <3>1. call[c] \in Call
      BY DEF TypeOK
    <3> QED
      BY <2>1, <3>1 DEF Call, Steps
  <2> QED
    BY <1>7, <2>2 DEF ReadEntries, TypeOK
<1>8. ASSUME NEW c \in Calls, SnapshotDone(c) PROVE TypeOK'
  <2>1. [call[c] EXCEPT !.step = "write"] \in Call
    <3>1. call[c] \in Call
      BY DEF TypeOK
    <3> QED
      BY <3>1 DEF Call, Steps
  <2> QED
    BY <1>8, <2>1 DEF SnapshotDone, TypeOK
<1>9. ASSUME NEW c \in Calls, StaleWrite(c) \/ Interrupt(c) PROVE TypeOK'
  BY <1>9, IdleTyped DEF StaleWrite, Interrupt, TypeOK
<1>10. ASSUME NEW c \in Calls, NEW l \in Leaves, SnapshotRow(c, l) PROVE TypeOK'
  <2>1. call[c].run \in Runs
    BY <1>10 DEF SnapshotRow, GuardInv, InTransition, GuardOK
  <2>2. [call[c] EXCEPT !.todo = call[c].todo \ {l}] \in Call
    <3>1. call[c] \in Call /\ call[c].todo \ {l} \in SUBSET Leaves
      BY DEF TypeOK, Call
    <3> QED
      BY <3>1 DEF Call
  <2> QED
    BY <1>10, <2>1, <2>2 DEF SnapshotRow, TypeOK
<1>11. ASSUME NEW c \in Calls, WriteStatus(c) PROVE TypeOK'
  <2> DEFINE r == call[c].run
             op == call[c].op
  <2>1. r \in Runs /\ op \in Ops /\ op # "create"
    BY <1>11 DEF WriteStatus, GuardInv, InTransition, GuardOK, TypeOK, Call
  <2>2. To(op) \in Statuses
    BY <2>1, Tables DEF Ops, Statuses
  <2>3. call[c].by \in Users \cup {None} /\ call[c].seen \in [Leaves -> LeaveStates]
    BY DEF TypeOK, Call
  <2> DEFINE f == IF op = "freeze" THEN call[c].by ELSE run[r].frozenBy
             a == IF op = "approve" THEN call[c].by ELSE run[r].approvedBy
  <2>4. [run[r] EXCEPT !.status = To(op), !.v = run[r].v + 1,
                       !.frozenBy = f, !.approvedBy = a] \in Run
    <3>1. run[r] \in Run /\ run[r].v + 1 \in Nat
      BY <2>1 DEF TypeOK, Run
    <3>2. f \in Users \cup {None} /\ a \in Users \cup {None}
      BY <2>3, <3>1 DEF Run
    <3> HIDE DEF f, a, r, op
    <3> QED
      BY <2>2, <3>1, <3>2, UpdatedRunTyped
  <2>5. run' \in [Runs -> Run]
    BY <1>11, <2>1, <2>4 DEF WriteStatus, TypeOK
  <2>6. atFreeze' \in [Runs -> [Leaves -> LeaveStates]]
    BY <1>11, <2>1, <2>3 DEF WriteStatus, TypeOK
  <2>7. call' \in [Calls -> Call]
    BY <1>11, IdleTyped DEF WriteStatus, TypeOK
  <2> QED
    BY <1>11, <2>5, <2>6, <2>7 DEF WriteStatus, TypeOK
<1>12. CASE UNCHANGED vars
  BY <1>12 DEF vars, TypeOK
<1> QED
  BY <1>1, <1>2, <1>3, <1>4, <1>5, <1>6, <1>7, <1>8, <1>9, <1>10, <1>11, <1>12
  DEF Next, CallNext, Starts

-----------------------------------------------------------------------------
(***************************************************************************)
(* Frames.  Stamps, snapshot rows and ledger entries are never taken back. *)
(***************************************************************************)

Grows ==
  /\ stamped \subseteq stamped'
  /\ snapshot \subseteq snapshot'
  /\ \A l \in Leaves : leave[l] = "consumed" => leave'[l] = "consumed"

\* A step that leaves the runs alone keeps what is known of them.
LEMMA RunFrame ==
  ASSUME RunInv, UNCHANGED <<run, atFreeze>>, Grows
  PROVE  (FreezerInv /\ OneLiveRun /\ TwoPeople /\ FrozenAttendance /\ SnapshotComplete)'
BY DEF RunInv, Grows, FreezerInv, OneLiveRun, TwoPeople, FrozenAttendance, SnapshotComplete

\* It also keeps what every other call knows.
LEMMA CallFrame ==
  ASSUME RunInv, UNCHANGED run, Grows, NEW d \in Calls, call'[d] = call[d],
         InTransition(d)'
  PROVE  GuardOK(d)' /\ PinOK(d)'
<1>1. InTransition(d) /\ GuardOK(d) /\ PinOK(d)
  BY DEF InTransition, RunInv, GuardInv, PinInv
<1>2. GuardOK(d)'
  BY <1>1 DEF GuardOK
<1>3. PinOK(d)'
  BY <1>1 DEF PinOK, Grows
<1> QED
  BY <1>2, <1>3

LEMMA Assemble ==
  ASSUME RunInv, [Next]_vars, UNCHANGED <<run, atFreeze>>, Grows, NEW c \in Calls,
         \A d \in Calls \ {c} : call'[d] = call[d],
         InTransition(c)' => GuardOK(c)' /\ PinOK(c)'
  PROVE  RunInv'
<1>1. TypeOK'
  BY NextTypeOK DEF RunInv
<1>2. \A d \in Calls : InTransition(d)' => GuardOK(d)' /\ PinOK(d)'
  BY CallFrame
<1>3. (FreezerInv /\ OneLiveRun /\ TwoPeople /\ FrozenAttendance /\ SnapshotComplete)'
  BY RunFrame
<1> QED
  BY <1>1, <1>2, <1>3 DEF RunInv, GuardInv, PinInv

-----------------------------------------------------------------------------
(***************************************************************************)
(* The steps.                                                              *)
(***************************************************************************)

LEMMA WorldStep ==
  ASSUME RunInv, NextMonth \/ \E l \in Leaves : LeaveNext(l)
  PROVE  RunInv'
<1>1. UNCHANGED <<run, call, stamped, snapshot, atFreeze>>
  BY DEF NextMonth, LeaveNext, FileLeave, DropLeave, CompleteLeave, AppendConsumption
<1>2. Grows
  <2>1. CASE NextMonth
    BY <2>1 DEF NextMonth, Grows
  <2>2. ASSUME NEW l \in Leaves, LeaveNext(l) PROVE Grows
    <3>1. leave[l] # "consumed" /\ \A m \in Leaves \ {l} : leave'[m] = leave[m]
      BY <2>2 DEF LeaveNext, FileLeave, DropLeave, CompleteLeave,
                  AppendConsumption, RunInv, TypeOK
    <3> QED
      BY <1>1, <3>1 DEF Grows
  <2> QED
    BY <2>1, <2>2
<1>3. TypeOK'
  BY NextTypeOK DEF Next, RunInv
<1>4. \A d \in Calls : InTransition(d)' => GuardOK(d)' /\ PinOK(d)'
  BY <1>1, <1>2, CallFrame
<1>5. (FreezerInv /\ OneLiveRun /\ TwoPeople /\ FrozenAttendance /\ SnapshotComplete)'
  BY <1>1, <1>2, RunFrame
<1> QED
  BY <1>3, <1>4, <1>5 DEF RunInv, GuardInv, PinInv

LEMMA StartsStep ==
  ASSUME RunInv, NEW c \in Calls, NEW r \in Runs, NEW v \in 0..run[r].v,
         NEW u \in Users \cup {None}, Starts(c, r, v, u),
         StartFreeze(c, r, v, u) \/ StartApprove(c, r, v, u) => u \in Users
  PROVE  RunInv'
<1>1. PICK op \in Ops, w \in Users \cup {None}, step \in {"attendance", "write"} :
        /\ Begin(c, op, r, v, w, step)
        /\ op # "create"
        /\ op \in {"freeze", "approve"} => w \in Users
        /\ op = "approve" => run[r].frozenBy # w
        /\ step = "write" <=> op # "freeze"
  BY DEF Starts, StartFreeze, StartApprove, StartPay, StartClose, StartCancel, Ops
<1>2. v \in Nat /\ v <= run[r].v
  BY DEF RunInv, TypeOK, Run
<1>3. UNCHANGED <<run, today, stamped, leave, snapshot, atFreeze>>
  BY <1>1 DEF Begin
<1>4. Grows
  BY <1>3 DEF Grows
<1>5. /\ call' \in [Calls -> Call]
      /\ \A d \in Calls \ {c} : call'[d] = call[d]
      /\ call'[c] = [step |-> step, op |-> op, run |-> r, v |-> v,
                     period |-> run[r].period, by |-> w, todo |-> {},
                     seen |-> IF op = "freeze" THEN leave ELSE Unfiled]
  BY <1>1, <1>2, BeginTyped DEF Begin, RunInv, TypeOK, Steps
<1>6. TypeOK'
  BY <1>3, <1>5 DEF RunInv, TypeOK
<1>7. run[r].status \in From(op) /\ run[r].status # "none"
  BY <1>1, Tables DEF Begin, Ops
<1>8. GuardOK(c)'
  BY <1>1, <1>2, <1>3, <1>5, <1>7 DEF GuardOK
<1>9. PinOK(c)'
  BY <1>1, <1>3, <1>5 DEF PinOK
<1>10. \A d \in Calls : InTransition(d)' => GuardOK(d)' /\ PinOK(d)'
  BY <1>3, <1>4, <1>5, <1>8, <1>9, CallFrame
<1>11. (FreezerInv /\ OneLiveRun /\ TwoPeople /\ FrozenAttendance /\ SnapshotComplete)'
  BY <1>3, <1>4, RunFrame
<1> QED
  BY <1>6, <1>10, <1>11 DEF RunInv, GuardInv, PinInv

\* The steps of the freeze before its commit point, and the calls that end.
LEMMA FreezeStep ==
  ASSUME RunInv, [Next]_vars, NEW c \in Calls,
         \/ FreezeAttendance(c) \/ ReadEntries(c) \/ SnapshotDone(c)
         \/ \E l \in Leaves : SnapshotRow(c, l)
  PROVE  RunInv'
<1>1. InTransition(c) /\ call[c].step # "write"
  BY DEF FreezeAttendance, ReadEntries, SnapshotDone, SnapshotRow, InTransition
<1>2. GuardOK(c) /\ PinOK(c) /\ call[c].op = "freeze" /\ call[c] \in Call
  BY <1>1 DEF RunInv, GuardInv, PinInv, GuardOK, TypeOK
<1>3. CASE FreezeAttendance(c)
  <2>1. /\ \A d \in Calls \ {c} : call'[d] = call[d]
        /\ call'[c] = [call[c] EXCEPT !.step = "entries"]
        /\ stamped' = stamped \cup {call[c].period}
        /\ UNCHANGED <<run, leave, snapshot, atFreeze>>
    BY <1>3 DEF FreezeAttendance, RunInv, TypeOK
  <2>2. Grows
    BY <2>1 DEF Grows
  <2>3. GuardOK(c)'
    BY <1>2, <2>1 DEF GuardOK, Call
  <2>4. PinOK(c)'
    BY <1>2, <2>1 DEF PinOK, Call
  <2> QED
    BY <2>1, <2>2, <2>3, <2>4, Assemble
<1>4. CASE ReadEntries(c)
  <2>1. /\ \A d \in Calls \ {c} : call'[d] = call[d]
        /\ call'[c] = [call[c] EXCEPT !.step = "rows", !.todo = Consumed(call[c].period)]
        /\ UNCHANGED <<run, stamped, leave, snapshot, atFreeze>>
        /\ call[c].step = "entries"
    BY <1>4 DEF ReadEntries, RunInv, TypeOK
  <2>2. Grows
    BY <2>1 DEF Grows
  <2>3. GuardOK(c)'
    BY <1>2, <2>1 DEF GuardOK, Call
  <2>4. PinOK(c)'
    BY <1>2, <2>1 DEF PinOK, Call, Consumed
  <2> QED
    BY <2>1, <2>2, <2>3, <2>4, Assemble
<1>5. CASE SnapshotDone(c)
  <2>1. /\ \A d \in Calls \ {c} : call'[d] = call[d]
        /\ call'[c] = [call[c] EXCEPT !.step = "write"]
        /\ UNCHANGED <<run, stamped, leave, snapshot, atFreeze>>
        /\ call[c].step = "rows" /\ call[c].todo = {}
    BY <1>5 DEF SnapshotDone, RunInv, TypeOK
  <2>2. Grows
    BY <2>1 DEF Grows
  <2>3. GuardOK(c)'
    BY <1>2, <2>1 DEF GuardOK, Call
  <2>4. PinOK(c)'
    BY <1>2, <2>1 DEF PinOK, Call
  <2> QED
    BY <2>1, <2>2, <2>3, <2>4, Assemble
<1>6. ASSUME NEW l \in Leaves, SnapshotRow(c, l) PROVE RunInv'
  <2>1. /\ \A d \in Calls \ {c} : call'[d] = call[d]
        /\ call'[c] = [call[c] EXCEPT !.todo = call[c].todo \ {l}]
        /\ snapshot' = snapshot \cup {<<call[c].run, l>>}
        /\ UNCHANGED <<run, stamped, leave, atFreeze>>
        /\ call[c].step = "rows"
    BY <1>6 DEF SnapshotRow, RunInv, TypeOK
  <2>2. Grows
    BY <2>1 DEF Grows
  <2>3. GuardOK(c)'
    BY <1>2, <2>1 DEF GuardOK, Call
  <2>4. PinOK(c)'
    BY <1>2, <2>1 DEF PinOK, Call
  <2> QED
    BY <2>1, <2>2, <2>3, <2>4, Assemble
<1> QED
  BY <1>3, <1>4, <1>5, <1>6

LEMMA EndStep ==
  ASSUME RunInv, [Next]_vars, NEW c \in Calls,
         StaleWrite(c) \/ Interrupt(c) \/ \E p \in Periods : StartCreate(c, p)
  PROVE  RunInv'
<1>1. /\ \A d \in Calls \ {c} : call'[d] = call[d]
      /\ call'[c].step \in {"idle", "insert"}
      /\ UNCHANGED <<run, stamped, leave, snapshot, atFreeze>>
  <2>1. call \in [Calls -> Call]
    BY DEF RunInv, TypeOK
  <2>2. \A p \in Periods :
          [Idle EXCEPT !.step = "insert", !.period = p].step = "insert"
    BY IdleTyped DEF Call
  <2>3. CASE StaleWrite(c) \/ Interrupt(c)
    BY <2>1, <2>3, IdleTyped DEF StaleWrite, Interrupt
  <2>4. CASE \E p \in Periods : StartCreate(c, p)
    BY <2>1, <2>2, <2>4 DEF StartCreate
  <2> QED
    BY <2>3, <2>4
<1>2. Grows
  BY <1>1 DEF Grows
<1>3. ~ InTransition(c)'
  BY <1>1 DEF InTransition
<1> QED
  BY <1>1, <1>2, <1>3, Assemble

\* The index: a run becomes live only where none is.
LEMMA InsertStep ==
  ASSUME RunInv, [Next]_vars, NEW c \in Calls, NEW r \in Runs, InsertRun(c, r)
  PROVE  RunInv'
<1>1. /\ \A d \in Calls \ {c} : call'[d] = call[d]
      /\ call'[c] = Idle
      /\ UNCHANGED <<stamped, leave, snapshot, atFreeze>>
      /\ run[r].status = "none"
  BY DEF InsertRun, RunInv, TypeOK
<1>2. Grows
  BY <1>1 DEF Grows
<1>3. CASE UNCHANGED run
  <2>1. ~ InTransition(c)'
    BY <1>1, IdleTyped DEF InTransition
  <2> QED
    BY <1>1, <1>2, <1>3, <2>1, Assemble
<1>4. CASE ~ UNCHANGED run
  <2>1. /\ \A q \in Runs \ {r} : run'[q] = run[q]
        /\ run'[r].status = "draft"
        /\ run'[r].period = call[c].period
        /\ \A q \in Runs : ~ Occupies(q, call[c].period, Live)
    BY <1>4 DEF InsertRun, RunInv, TypeOK, Run
  <2>2. TypeOK'
    BY NextTypeOK DEF RunInv
  <2>3. ASSUME NEW d \in Calls, InTransition(d)' PROVE GuardOK(d)' /\ PinOK(d)'
    <3>1. d # c
      BY <1>1, <2>3, IdleTyped DEF InTransition
    <3>2. InTransition(d) /\ GuardOK(d) /\ PinOK(d)
      BY <1>1, <2>3, <3>1 DEF InTransition, RunInv, GuardInv, PinInv
    <3>3. call[d].run # r /\ call[d].run \in Runs
      BY <1>1, <3>2 DEF GuardOK
    <3>4. run'[call[d].run] = run[call[d].run] /\ call'[d] = call[d]
      BY <1>1, <2>1, <3>1, <3>3
    <3>5. GuardOK(d)'
      BY <3>2, <3>4 DEF GuardOK
    <3>6. PinOK(d)'
      BY <1>1, <3>2, <3>4 DEF PinOK
    <3> QED
      BY <3>5, <3>6
  <2>4. OneLiveRun'
    BY <2>1 DEF RunInv, OneLiveRun, Occupies
  <2>5. (FreezerInv /\ TwoPeople /\ FrozenAttendance /\ SnapshotComplete)'
    BY <1>1, <2>1 DEF RunInv, FreezerInv, TwoPeople, FrozenAttendance,
                      SnapshotComplete, Priced
  <2> QED
    BY <2>2, <2>3, <2>4, <2>5 DEF RunInv, GuardInv, PinInv
<1> QED
  BY <1>3, <1>4

\* The commit point.  The version matches, so the guards of the call are
\* still true of the run it writes.
LEMMA WriteFacts ==
  ASSUME RunInv, NEW c \in Calls, WriteStatus(c)
  PROVE  LET r == call[c].run
             op == call[c].op
         IN /\ r \in Runs
            /\ op \in Ops \ {"create"}
            /\ run[r].status \in From(op)
            /\ op = "approve" => run[r].frozenBy # call[c].by
            /\ op \in {"freeze", "approve"} => call[c].by \in Users
            /\ GuardOK(c) /\ PinOK(c)
            /\ \A q \in Runs \ {r} : run'[q] = run[q]
            /\ run'[r].status = To(op)
            /\ run'[r].v = run[r].v + 1
            /\ run'[r].period = run[r].period
            /\ run'[r].frozenBy = IF op = "freeze" THEN call[c].by ELSE run[r].frozenBy
            /\ run'[r].approvedBy = IF op = "approve" THEN call[c].by ELSE run[r].approvedBy
<1>1. call[c].step = "write" /\ run[call[c].run].v = call[c].v
  BY DEF WriteStatus, VersionMatches
<1>2. GuardOK(c) /\ PinOK(c)
  BY <1>1 DEF RunInv, GuardInv, PinInv, InTransition
<1>3. call[c].op \in Ops /\ call[c].run \in Runs
  BY <1>2 DEF RunInv, TypeOK, Call, GuardOK
<1>4. run[call[c].run] \in Run
  BY <1>3 DEF RunInv, TypeOK
<1>5. run' = [run EXCEPT
                ![call[c].run].status = To(call[c].op),
                ![call[c].run].v = @ + 1,
                ![call[c].run].frozenBy =
                   IF call[c].op = "freeze" THEN call[c].by ELSE @,
                ![call[c].run].approvedBy =
                   IF call[c].op = "approve" THEN call[c].by ELSE @]
  BY DEF WriteStatus
<1>6. run \in [Runs -> Run]
  BY DEF RunInv, TypeOK
<1>7. \A q \in Runs \ {call[c].run} : run'[q] = run[q]
  BY <1>5, <1>6
<1>8. /\ run'[call[c].run].status = To(call[c].op)
      /\ run'[call[c].run].v = run[call[c].run].v + 1
      /\ run'[call[c].run].period = run[call[c].run].period
      /\ run'[call[c].run].frozenBy =
           IF call[c].op = "freeze" THEN call[c].by ELSE run[call[c].run].frozenBy
      /\ run'[call[c].run].approvedBy =
           IF call[c].op = "approve" THEN call[c].by ELSE run[call[c].run].approvedBy
  BY <1>3, <1>4, <1>5, <1>6 DEF Run
<1>9. /\ run[call[c].run].status \in From(call[c].op)
      /\ call[c].op = "approve" => run[call[c].run].frozenBy # call[c].by
      /\ call[c].op \in {"freeze", "approve"} => call[c].by \in Users
      /\ call[c].op # "create"
  BY <1>1, <1>2 DEF GuardOK
<1> QED
  BY <1>2, <1>3, <1>7, <1>8, <1>9

LEMMA WriteStep ==
  ASSUME RunInv, [Next]_vars, NEW c \in Calls, WriteStatus(c)
  PROVE  RunInv'
<1> DEFINE r == call[c].run
           op == call[c].op
<1>1. /\ r \in Runs
      /\ op \in Ops \ {"create"}
      /\ run[r].status \in From(op)
      /\ op = "approve" => run[r].frozenBy # call[c].by
      /\ op \in {"freeze", "approve"} => call[c].by \in Users
      /\ GuardOK(c) /\ PinOK(c)
      /\ \A q \in Runs \ {r} : run'[q] = run[q]
      /\ run'[r].status = To(op)
      /\ run'[r].v = run[r].v + 1
      /\ run'[r].period = run[r].period
      /\ run'[r].frozenBy = IF op = "freeze" THEN call[c].by ELSE run[r].frozenBy
      /\ run'[r].approvedBy = IF op = "approve" THEN call[c].by ELSE run[r].approvedBy
  BY WriteFacts
<1>2. /\ \A d \in Calls \ {c} : call'[d] = call[d]
      /\ call'[c] = Idle
      /\ call[c].step = "write"
      /\ atFreeze' = IF op = "freeze"
                       THEN [atFreeze EXCEPT ![r] = call[c].seen] ELSE atFreeze
      /\ UNCHANGED <<stamped, leave, snapshot>>
  BY DEF WriteStatus, RunInv, TypeOK
<1>3. TypeOK'
  BY NextTypeOK DEF RunInv
<1> HIDE DEF r, op
<1>4. /\ run[r].status \in Live
      /\ run'[r].status \in Live \cup {"cancelled"}
      /\ run[r].v \in Nat
  BY <1>1, Tables DEF Ops, Live, RunInv, TypeOK, Run
<1>5. ASSUME NEW d \in Calls, InTransition(d)' PROVE GuardOK(d)' /\ PinOK(d)'
  <2>1. d # c
    BY <1>2, <1>5, IdleTyped DEF InTransition
  <2>2. call'[d] = call[d] /\ InTransition(d) /\ GuardOK(d) /\ PinOK(d)
    BY <1>2, <1>5, <2>1 DEF InTransition, RunInv, GuardInv, PinInv
  <2>3. PinOK(d)'
    BY <1>2, <2>2 DEF PinOK
  <2>4. CASE call[d].run # r
    BY <1>1, <2>2, <2>3, <2>4 DEF GuardOK
  <2>5. CASE call[d].run = r
    <3>1. call[d].v \in Nat /\ run'[r].v # call[d].v /\ call[d].v <= run'[r].v
      BY <1>1, <1>4, <2>2, <2>5 DEF GuardOK, RunInv, TypeOK, Call
    <3>2. run'[r].status # "none"
      BY <1>4 DEF Live
    <3> QED
      BY <1>1, <2>2, <2>3, <2>5, <3>1, <3>2 DEF GuardOK
  <2> QED
    BY <2>4, <2>5
<1>6. OneLiveRun'
  BY <1>1, <1>4 DEF RunInv, OneLiveRun, Live
<1>7. FreezerInv'
  <2>1. run'[r].status \in Priced => run'[r].frozenBy \in Users
    BY <1>1, Tables DEF RunInv, FreezerInv, Priced, Ops
  <2> QED
    BY <1>1, <2>1 DEF RunInv, FreezerInv
<1>8. TwoPeople'
  <2>1. run'[r].status \in {"approved", "paid", "closed"} =>
          run'[r].frozenBy # None /\ run'[r].approvedBy # None
            /\ run'[r].approvedBy # run'[r].frozenBy
    <3>1. CASE op = "approve"
      <4>1. run[r].frozenBy \in Users
        BY <1>1, <3>1, Tables DEF RunInv, FreezerInv, Priced
      <4> QED
        BY <1>1, <3>1, <4>1, RunAssumption
    <3>2. CASE op # "approve"
      BY <1>1, <3>2, Tables DEF RunInv, TwoPeople, Ops
    <3> QED
      BY <3>1, <3>2
  <2> QED
    BY <1>1, <2>1 DEF RunInv, TwoPeople
<1>9. FrozenAttendance'
  <2>1. run'[r].status \in Priced => run'[r].period \in stamped
    <3>1. CASE op = "freeze"
      BY <1>1, <1>2, <3>1 DEF PinOK, GuardOK, r, op
    <3>2. CASE op # "freeze"
      BY <1>1, <3>2, Tables DEF RunInv, FrozenAttendance, Priced, Ops
    <3> QED
      BY <3>1, <3>2
  <2> QED
    BY <1>1, <1>2, <2>1 DEF RunInv, FrozenAttendance
<1>10. SnapshotComplete'
  <2>1. ASSUME NEW q \in Runs, run'[q].status \in Priced, NEW l \in Leaves,
               atFreeze'[q][l] = "consumed", run'[q].period \in Span[l]
        PROVE  <<q, l>> \in snapshot'
    <3>1. CASE q = r /\ op = "freeze"
      <4>1. atFreeze'[q] = call[c].seen
        BY <1>1, <1>2, <3>1 DEF RunInv, TypeOK
      <4>2. call[c].seen[l] = "consumed" /\ call[c].period \in Span[l]
        BY <1>1, <2>1, <3>1, <4>1 DEF GuardOK, r
      <4> QED
        BY <1>1, <1>2, <3>1, <4>2 DEF PinOK, r, op
    <3>2. CASE ~ (q = r /\ op = "freeze")
      <4>1. atFreeze'[q] = atFreeze[q] /\ run'[q].period = run[q].period
        BY <1>1, <1>2, <3>2 DEF RunInv, TypeOK
      <4>2. run[q].status \in Priced
        BY <1>1, <2>1, <3>2, Tables DEF Priced, Ops
      <4> QED
        BY <1>2, <2>1, <4>1, <4>2 DEF RunInv, SnapshotComplete
    <3> QED
      BY <3>1, <3>2
  <2> QED
    BY <2>1 DEF SnapshotComplete
<1> QED
  BY <1>3, <1>5, <1>6, <1>7, <1>8, <1>9, <1>10 DEF RunInv, GuardInv, PinInv

LEMMA NextRunInv == RunInv /\ [Next]_vars => RunInv'
<1> SUFFICES ASSUME RunInv, [Next]_vars PROVE RunInv'
  OBVIOUS
<1>1. CASE NextMonth \/ \E l \in Leaves : LeaveNext(l)
  BY <1>1, WorldStep
<1>2. ASSUME NEW c \in Calls, CallNext(c) PROVE RunInv'
  <2>1. CASE \/ StaleWrite(c) \/ Interrupt(c)
             \/ \E p \in Periods : StartCreate(c, p)
    BY <2>1, EndStep
  <2>2. ASSUME NEW r \in Runs, InsertRun(c, r) PROVE RunInv'
    BY <2>2, InsertStep
  <2>3. ASSUME NEW r \in Runs, NEW v \in 0..run[r].v, NEW u \in Users,
               StartFreeze(c, r, v, u) \/ StartApprove(c, r, v, u)
        PROVE  RunInv'
    BY <2>3, StartsStep DEF Starts
  <2>4. ASSUME NEW r \in Runs, NEW v \in 0..run[r].v,
               StartPay(c, r, v) \/ StartClose(c, r, v) \/ StartCancel(c, r, v)
        PROVE  RunInv'
    <3>1. Starts(c, r, v, None)
      BY <2>4 DEF Starts
    <3>2. ~ (StartFreeze(c, r, v, None) \/ StartApprove(c, r, v, None))
      BY <2>4 DEF StartPay, StartClose, StartCancel, StartFreeze, StartApprove, Begin,
                  RunInv, TypeOK
    <3> QED
      BY <3>1, <3>2, StartsStep
  <2>5. CASE \/ FreezeAttendance(c) \/ ReadEntries(c) \/ SnapshotDone(c)
             \/ \E l \in Leaves : SnapshotRow(c, l)
    BY <2>5, FreezeStep
  <2>6. CASE WriteStatus(c)
    BY <2>6, WriteStep
  <2> QED
    BY <1>2, <2>1, <2>2, <2>3, <2>4, <2>5, <2>6 DEF CallNext
<1>3. CASE UNCHANGED vars
  <2>1. \A c \in Calls : InTransition(c)' => GuardOK(c)' /\ PinOK(c)'
    BY <1>3, CallFrame DEF vars, Grows
  <2>2. (FreezerInv /\ OneLiveRun /\ TwoPeople /\ FrozenAttendance /\ SnapshotComplete)'
    BY <1>3, RunFrame DEF vars, Grows
  <2>3. TypeOK'
    BY NextTypeOK DEF RunInv
  <2> QED
    BY <2>1, <2>2, <2>3 DEF RunInv, GuardInv, PinInv
<1> QED
  BY <1>1, <1>2, <1>3 DEF Next

\* Only an insert or a versioned write changes a run.
LEMMA RunChanges ==
  ASSUME Next
  PROVE  \/ UNCHANGED run
         \/ \E c \in Calls : WriteStatus(c)
         \/ \E c \in Calls, q \in Runs : InsertRun(c, q)
<1>1. CASE NextMonth \/ \E l \in Leaves : LeaveNext(l)
  BY <1>1 DEF NextMonth, LeaveNext, FileLeave, DropLeave, CompleteLeave,
              AppendConsumption
<1>2. ASSUME NEW c \in Calls, CallNext(c)
      PROVE  UNCHANGED run \/ WriteStatus(c) \/ \E q \in Runs : InsertRun(c, q)
  <2>1. ASSUME NEW q \in Runs, NEW v, NEW u, Starts(c, q, v, u)
        PROVE  UNCHANGED run
    BY <2>1 DEF Starts, StartFreeze, StartApprove, StartPay, StartClose,
                StartCancel, Begin
  <2>2. ASSUME NEW p \in Periods, StartCreate(c, p) PROVE UNCHANGED run
    BY <2>2 DEF StartCreate
  <2>3. CASE FreezeAttendance(c) \/ ReadEntries(c) \/ SnapshotDone(c)
    BY <2>3 DEF FreezeAttendance, ReadEntries, SnapshotDone
  <2>4. ASSUME NEW l \in Leaves, SnapshotRow(c, l) PROVE UNCHANGED run
    BY <2>4 DEF SnapshotRow
  <2>5. CASE StaleWrite(c) \/ Interrupt(c)
    BY <2>5 DEF StaleWrite, Interrupt
  <2> QED
    BY <1>2, <2>1, <2>2, <2>3, <2>4, <2>5 DEF CallNext, Starts
<1> QED
  BY <1>1, <1>2 DEF Next

\* What Current shows of a period, before and after a step.
LEMMA CurrentOfRun ==
  ASSUME OneLiveRun, NEW p \in Periods, NEW r \in Runs, Occupies(r, p, Live)
  PROVE  Current[p] = run[r].status
<1> DEFINE live == CHOOSE q \in Runs : Occupies(q, p, Live)
<1>1. live \in Runs /\ Occupies(live, p, Live)
  OBVIOUS
<1>2. live = r
  BY <1>1 DEF OneLiveRun, Occupies
<1> QED
  BY <1>2 DEF Current

LEMMA CurrentOfRunNext ==
  ASSUME OneLiveRun', NEW p \in Periods, NEW r \in Runs, Occupies(r, p, Live)'
  PROVE  Current'[p] = run'[r].status
<1>1. \A q \in Runs : run'[q].period = p /\ run'[q].status \in Live => q = r
  BY DEF OneLiveRun, Occupies
<1>2. r = CHOOSE q \in Runs : run'[q].period = p /\ run'[q].status \in Live
  BY <1>1 DEF Occupies
<1> QED
  BY <1>2 DEF Current, Occupies

LEMMA CurrentOfNone ==
  ASSUME NEW p \in Periods
  PROVE  /\ (\A r \in Runs : ~ Occupies(r, p, Live)) => Current[p] = "none"
         /\ (\A r \in Runs : ~ Occupies(r, p, Live)') => Current'[p] = "none"
BY DEF Current

\* A step that changes no run of a period shows nothing there.
LEMMA CurrentElsewhere ==
  ASSUME OneLiveRun, OneLiveRun', NEW p \in Periods,
         \A r \in Runs : Occupies(r, p, Live) \/ Occupies(r, p, Live)' => run'[r] = run[r]
  PROVE  Current'[p] = Current[p]
<1>1. CASE \E r \in Runs : Occupies(r, p, Live)
  <2>1. PICK r \in Runs : Occupies(r, p, Live)
    BY <1>1
  <2>2. run'[r] = run[r] /\ Occupies(r, p, Live)'
    BY <2>1 DEF Occupies
  <2> QED
    BY <2>1, <2>2, CurrentOfRun, CurrentOfRunNext
<1>2. CASE \A r \in Runs : ~ Occupies(r, p, Live)
  <2>1. \A r \in Runs : ~ Occupies(r, p, Live)'
    BY <1>2 DEF Occupies
  <2> QED
    BY <1>2, <2>1, CurrentOfNone
<1> QED
  BY <1>1, <1>2

\* A step shows one period moving, if it shows the others still.
LEMMA OnePointChange ==
  ASSUME NEW S, NEW f, NEW g, NEW p \in S, NEW to,
         f = [q \in S |-> f[q]], g = [q \in S |-> g[q]],
         g[p] = to, \A q \in S \ {p} : g[q] = f[q]
  PROVE  g = [f EXCEPT ![p] = to]
OBVIOUS

LEMMA CurrentMoves ==
  ASSUME NEW p \in Periods, NEW to, Current'[p] = to,
         \A q \in Periods \ {p} : Current'[q] = Current[q]
  PROVE  Current' = [Current EXCEPT ![p] = to]
<1>1. Current = [q \in Periods |-> Current[q]]
  BY DEF Current
<1>2. Current' = [q \in Periods |-> Current'[q]]
  BY DEF Current
<1> QED
  BY <1>1, <1>2, OnePointChange

\* The write of operation op to run r of period p is a step of PayrollPeriod.
LEMMA OpMoves ==
  ASSUME OneLiveRun, OneLiveRun', NEW r \in Runs, NEW op \in Ops \ {"create"},
         NEW p \in Periods,
         run[r].period = p, run[r].status \in From(op),
         run'[r].period = p, run'[r].status = To(op),
         \A q \in Runs \ {r} : run'[q] = run[q]
  PROVE  Period!PeriodNext
<1> DEFINE to == IF op = "cancel" THEN "none" ELSE To(op)
<1>1. Occupies(r, p, Live)
  BY Tables DEF Occupies, Live, Ops
<1>2. Current[p] = run[r].status
  BY <1>1, CurrentOfRun
<1>3. Current'[p] = to
  <2>1. CASE op = "cancel"
    <3>1. \A q \in Runs : ~ Occupies(q, p, Live)'
      BY <1>1, <2>1, Tables DEF OneLiveRun, Occupies, Live
    <3>2. Current'[p] = "none"
      BY <3>1, CurrentOfNone
    <3> QED
      BY <2>1, <3>2
  <2>2. CASE op # "cancel"
    <3>1. Occupies(r, p, Live)'
      BY <2>2, Tables DEF Occupies, Live, Ops
    <3>2. Current'[p] = run'[r].status
      BY <3>1, CurrentOfRunNext
    <3> QED
      BY <2>2, <3>2
  <2> QED
    BY <2>1, <2>2
<1>4. ASSUME NEW q \in Periods \ {p} PROVE Current'[q] = Current[q]
  <2>1. \A s \in Runs : Occupies(s, q, Live) \/ Occupies(s, q, Live)' => run'[s] = run[s]
    BY <1>4 DEF Occupies
  <2> QED
    BY <2>1, CurrentElsewhere
<1> HIDE DEF to
<1>5. Current' = [Current EXCEPT ![p] = to]
  BY <1>3, <1>4, CurrentMoves
<1>6. \/ Period!Freeze(p) \/ Period!Approve(p) \/ Period!Pay(p) \/ Period!Close(p)
      \/ Period!Cancel(p)
  <2>1. \/ op = "freeze" /\ Current[p] \in {"draft"} /\ to = "frozen"
        \/ op = "approve" /\ Current[p] \in {"frozen"} /\ to = "approved"
        \/ op = "pay" /\ Current[p] \in {"approved"} /\ to = "paid"
        \/ op = "close" /\ Current[p] \in {"paid"} /\ to = "closed"
        \/ op = "cancel" /\ Current[p] \in {"draft", "frozen", "approved"} /\ to = "none"
    BY <1>2, Tables DEF Ops, to
  <2> QED
    BY <1>5, <2>1
    DEF Period!Freeze, Period!Approve, Period!Pay, Period!Close, Period!Cancel,
        Period!Move
<1> QED
  BY <1>6 DEF Period!PeriodNext

LEMMA WriteMoves ==
  ASSUME RunInv, RunInv', NEW c \in Calls, WriteStatus(c)
  PROVE  Period!PeriodNext
<1>1. PICK r \in Runs, op \in Ops, p \in Periods :
        /\ op # "create"
        /\ run[r].period = p /\ run[r].status \in From(op)
        /\ run'[r].period = p /\ run'[r].status = To(op)
        /\ \A q \in Runs \ {r} : run'[q] = run[q]
  <2>1. /\ call[c].run \in Runs
        /\ call[c].op \in Ops \ {"create"}
        /\ run[call[c].run].status \in From(call[c].op)
        /\ \A q \in Runs \ {call[c].run} : run'[q] = run[q]
        /\ run'[call[c].run].status = To(call[c].op)
        /\ run'[call[c].run].period = run[call[c].run].period
    BY WriteFacts
  <2>2. run[call[c].run].period \in Periods
    BY <2>1 DEF RunInv, TypeOK, Run
  <2> QED
    BY <2>1, <2>2
<1> QED
  BY <1>1, OpMoves DEF RunInv

LEMMA InsertMoves ==
  ASSUME RunInv, RunInv', NEW c \in Calls, NEW r \in Runs, InsertRun(c, r)
  PROVE  UNCHANGED run \/ Period!PeriodNext
<1> SUFFICES ASSUME run' # run PROVE Period!PeriodNext
  OBVIOUS
<1>1. PICK p \in Periods :
        /\ \A q \in Runs : ~ Occupies(q, p, Live)
        /\ run' = [run EXCEPT ![r].status = "draft", ![r].period = p]
        /\ run[r].status = "none"
  BY DEF InsertRun, RunInv, TypeOK, Call
<1>2. /\ run'[r].status = "draft" /\ run'[r].period = p
      /\ \A q \in Runs \ {r} : run'[q] = run[q]
  BY <1>1 DEF RunInv, TypeOK, Run
<1>3. Current[p] = "none"
  BY <1>1, CurrentOfNone
<1>4. Current'[p] = "draft"
  <2>1. Occupies(r, p, Live)'
    BY <1>2 DEF Occupies, Live
  <2> QED
    BY <1>2, <2>1, CurrentOfRunNext DEF RunInv
<1>5. ASSUME NEW q \in Periods \ {p} PROVE Current'[q] = Current[q]
  <2>1. \A s \in Runs : Occupies(s, q, Live) \/ Occupies(s, q, Live)' => run'[s] = run[s]
    BY <1>1, <1>2, <1>5 DEF Occupies, Live
  <2> QED
    BY <2>1, CurrentElsewhere DEF RunInv
<1>6. Current' = [Current EXCEPT ![p] = "draft"]
  BY <1>4, <1>5, CurrentMoves
<1> QED
  BY <1>3, <1>6 DEF Period!PeriodNext, Period!Open, Period!Move

-----------------------------------------------------------------------------
(***************************************************************************)
(* Theorems.                                                               *)
(***************************************************************************)

\* The inductive invariant holds in every reachable state.
THEOREM RunInvariant == Spec => []RunInv
BY InitRunInv, NextRunInv, PTL DEF Spec

\* The documents of runs, snapshots and calls keep their types, whatever
\* the calls to PayrollRunService interleave.
THEOREM RunTypeCorrect == Spec => []TypeOK
<1>1. RunInv => TypeOK
  BY DEF RunInv
<1> QED
  BY <1>1, RunInvariant, PTL

\* ux_live_period: no two runs of a period are live, for any number of
\* overlapping calls to create() and of transitions.
THEOREM OneRunPerPeriod == Spec => []OneLiveRun
<1>1. RunInv => OneLiveRun
  BY DEF RunInv
<1> QED
  BY <1>1, RunInvariant, PTL

\* approve(): nobody's own freeze gets past approval by themselves.
THEOREM FreezerNeverApproves == Spec => []TwoPeople
<1>1. RunInv => TwoPeople
  BY DEF RunInv
<1> QED
  BY <1>1, RunInvariant, PTL

\* freeze(): behind a run that claims to be frozen, attendance is stamped ...
THEOREM FrozenPeriodsAreStamped == Spec => []FrozenAttendance
<1>1. RunInv => FrozenAttendance
  BY DEF RunInv
<1> QED
  BY <1>1, RunInvariant, PTL

\* ... and all leave that was consumed when the freeze began is in its
\* snapshot.
THEOREM FreezePinsFacts == Spec => []SnapshotComplete
<1>1. RunInv => SnapshotComplete
  BY DEF RunInv
<1> QED
  BY <1>1, RunInvariant, PTL

\* The lifecycle: the filter of updateById on the version the client sent is
\* enough for every status change to be one the guards allow.
THEOREM RunLifecycle == Spec => Lifecycle
<1>1. ASSUME RunInv, Next, NEW r \in Runs, run'[r].status # run[r].status
      PROVE  Edge(run[r].status, run'[r].status)
  <2>1. ASSUME NEW c \in Calls, WriteStatus(c)
        PROVE  Edge(run[r].status, run'[r].status)
    <3>1. /\ call[c].op \in Ops
          /\ run[call[c].run].status \in From(call[c].op)
          /\ run'[call[c].run].status = To(call[c].op)
          /\ r # call[c].run => run'[r] = run[r]
      BY <1>1, <2>1, WriteFacts
    <3>2. r = call[c].run
      BY <1>1, <3>1
    <3> QED
      BY <3>1, <3>2 DEF Edge
  <2>2. ASSUME NEW c \in Calls, NEW q \in Runs, InsertRun(c, q)
        PROVE  Edge(run[r].status, run'[r].status)
    <3>1. r = q /\ run[r].status = "none" /\ run'[r].status = "draft"
      BY <1>1, <2>2 DEF InsertRun, RunInv, TypeOK, Run
    <3> QED
      BY <3>1, Tables DEF Edge, Ops
  <2> QED
    BY <1>1, <2>1, <2>2, RunChanges
<1>2. RunInv /\ [Next]_vars =>
        [\A r \in Runs : run'[r].status # run[r].status
                           => Edge(run[r].status, run'[r].status)]_vars
  BY <1>1
<1> QED
  BY <1>2, RunInvariant, PTL DEF Spec, Lifecycle

\* What the other modules may rely on: create(), the transitions, their
\* races and their crashes, seen through the run that occupies a period, are
\* steps of PayrollPeriod or invisible.
THEOREM RunsImplementPeriods == Spec => ImplementsPayrollPeriod
<1>1. Init => Period!PeriodInit
  <2> SUFFICES ASSUME Init PROVE Current = [p \in Periods |-> "none"]
    BY DEF Period!PeriodInit
  <2>1. \A p \in Periods, r \in Runs : ~ Occupies(r, p, Live)
    BY DEF Init, Occupies, Live
  <2> QED
    BY <2>1 DEF Current
<1>2. RunInv /\ RunInv' /\ [Next]_vars => [Period!PeriodNext]_Current
  <2> SUFFICES ASSUME RunInv, RunInv', [Next]_vars
               PROVE  Period!PeriodNext \/ Current' = Current
    OBVIOUS
  <2>1. CASE UNCHANGED run
    BY <2>1 DEF Current, Occupies
  <2>2. ASSUME NEW c \in Calls, WriteStatus(c) PROVE Period!PeriodNext
    BY <2>2, WriteMoves
  <2>3. ASSUME NEW c \in Calls, NEW r \in Runs, InsertRun(c, r)
        PROVE  UNCHANGED run \/ Period!PeriodNext
    BY <2>3, InsertMoves
  <2> QED
    BY <2>1, <2>2, <2>3, RunChanges DEF vars
<1> QED
  BY <1>1, <1>2, RunInvariant, PTL DEF Spec, ImplementsPayrollPeriod, Period!PeriodSpec
=============================================================================
