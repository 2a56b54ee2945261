---------------------------- MODULE LeaveStatus ----------------------------
(***************************************************************************)
(* What leave does to the status of one employee: activate, complete and   *)
(* earlyReturn (leave-requests/leave-request.service.ts), the personnel    *)
(* actions they drive (driveLeaveAction, createAction and apply,           *)
(* employee-actions/employee-action.service.ts) and the scheduler that     *)
(* applies the actions of a later day.                                     *)
(*                                                                         *)
(* A drive reads the employee, checks, takes a number, inserts an action,  *)
(* reads the employee again, saves it under its version and stamps the     *)
(* action; each of these is a step, so drives interleave at every await.   *)
(* The request before its approval and what it does to the balance are in  *)
(* Leave; overlapping requests may both be approved, as they may there.    *)
(* Left out are a request cancelled or deleted, the statuses other than    *)
(* active and onLeave, and everything else that writes the document of the *)
(* employee: such a write between the read and the save of a drive fails   *)
(* the drive, which Fail does too.                                         *)
(***************************************************************************)
EXTENDS Integers, Sequences, FiniteSets

CONSTANTS
  Reqs,       \* requests
  Start, End, \* Start[r]..End[r]: the days of leave
  Affecting,  \* requests whose type and length affect the employee's status
  Workers,    \* calls being served
  LastDay,    \* bound: the last day
  MaxCalls,   \* bound: calls under way at once
  MaxFaults   \* bound: calls that fail

\* The scheduled jobs, each with one run at a time.
Jobs == {"activateStarted", "completeEnded", "applyScheduled"}
Servers == Workers \cup Jobs

ASSUME StatusAssumption ==
  /\ Affecting \subseteq Reqs /\ Workers \cap Jobs = {} /\ {LastDay, MaxCalls, MaxFaults} \subseteq Nat
  /\ \A r \in Reqs : Start[r] \in Nat /\ End[r] \in Nat /\ Start[r] <= End[r]

VARIABLES
  doc,      \* doc[r]: the status of the request's document
  outcome,  \* outcome[r]: its statusDriveOutcome; "none" is also skipped
  onLeave,  \* is the employee's status onLeave
  fresh,    \* servers whose copy of the employee, to be checked or saved, is current
  acts,     \* the personnel actions, by seq
  todo,     \* todo[w]: the tasks of a call
  today,
  faults,   \* calls that failed so far
  holder,   \* history: the request whose leaveStart was saved last
  blind,    \* history: those checked before and read again after another was saved
  doubled,  \* history: those saved so, and the request then on leave
  twice,    \* history: requests with an action swept before its own call stamped it
  hurried,  \* history: requests completed before their outcome was saved
  broken    \* history: requests of calls that failed

history == <<holder, blind, doubled, twice, hurried, broken>>
vars == <<doc, outcome, onLeave, fresh, acts, todo, today, faults, history>>

Task(do, r, type, day) == [do |-> do, r |-> r, type |-> type, day |-> day, seq |-> 0, now |-> TRUE]
Starting(do, r) == Task(do, r, "leaveStart", Start[r])
Ending(do, r, day) == Task(do, r, "leaveEnd", day)

Doing(do, w) == todo[w] # <<>> /\ Head(todo[w]).do = do
Then(w, tasks) == todo' = [todo EXCEPT ![w] = tasks \o Tail(@)]
Begin(w, tasks) ==
  /\ todo[w] = <<>>
  /\ Cardinality({v \in Servers : todo[v] # <<>>}) < MaxCalls
  /\ todo' = [todo EXCEPT ![w] = tasks]

\* The lists of the members of S, each before those it is not after.
Listed(S, Before(_, _)) ==
  {q \in [1..Cardinality(S) -> S] :
     \A i, j \in DOMAIN q : i < j => q[i] # q[j] /\ Before(q[i], q[j])}

Init ==
  /\ doc = [r \in Reqs |-> "none"]
  /\ outcome = [r \in Reqs |-> "none"]
  /\ onLeave = FALSE
  /\ fresh = {}
  /\ acts = <<>>
  /\ todo = [w \in Servers |-> <<>>]
  /\ today = 0
  /\ faults = 0
  /\ holder = "nobody"
  /\ blind = {} /\ doubled = {} /\ twice = {} /\ hurried = {} /\ broken = {}

-----------------------------------------------------------------------------
(***************************************************************************)
(* The request                                                             *)
(***************************************************************************)
Set(r, status) == doc' = [doc EXCEPT ![r] = status]

\* decide, of the last approver.
Approve(w, r) ==
  /\ doc[r] = "none"
  /\ Set(r, "approved")
  /\ Begin(w, <<Starting("catchUp", r)>>)
  /\ UNCHANGED <<outcome, onLeave, fresh, acts, today, faults, history>>

\* A late approval starts, and ends, at once.
CatchUp(w) ==
  /\ Doing("catchUp", w)
  /\ LET r == Head(todo[w]).r IN
       Then(w, IF Start[r] > today THEN <<>>
               ELSE IF End[r] < today
               THEN <<Starting("activate", r), Ending("complete", r, End[r] + 1)>>
               ELSE <<Starting("activate", r)>>)
  /\ UNCHANGED <<doc, outcome, onLeave, fresh, acts, today, faults, history>>

\* decide rethrows an error of the request, so that nothing more happens; a
\* job turns to its next request.
Passed(w) == IF w \in Workers THEN <<>> ELSE Tail(todo[w])

\* Without the flip there is nothing to start, and decide does not complete.
Activate(w) ==
  /\ Doing("activate", w)
  /\ LET r == Head(todo[w]).r IN
       IF doc[r] = "approved"
       THEN Set(r, "active") /\ Then(w, <<Starting("read", r)>>)
       ELSE /\ todo' = [todo EXCEPT ![w] = Passed(w)]
            /\ UNCHANGED doc
  /\ UNCHANGED <<outcome, onLeave, fresh, acts, today, faults, history>>

\* Nothing compares the day of return with today.
EarlyReturn(w, r) ==
  /\ doc[r] = "active"
  /\ \E d \in Start[r]..(End[r] + 1) : Begin(w, <<Ending("complete", r, d)>>)
  /\ UNCHANGED <<doc, outcome, onLeave, fresh, acts, today, faults, history>>

\* r is active and what its activation did is not on record yet.
Unsaved(r) ==
  \E w \in Servers :
    /\ todo[w] # <<>> /\ Head(todo[w]).r = r
    /\ Head(todo[w]).type = "leaveStart" /\ Head(todo[w]).do \notin {"catchUp", "activate"}

\* Mutant: the status is left to the scheduler.
CompleteSilent(w) ==
  /\ Doing("complete", w)
  /\ LET r == Head(todo[w]).r IN
       /\ doc' = IF doc[r] = "active" THEN [doc EXCEPT ![r] = "completed"] ELSE doc
       /\ hurried' = IF doc[r] = "active" /\ Unsaved(r) THEN hurried \cup {r} ELSE hurried
  /\ Then(w, <<>>)
  /\ UNCHANGED <<outcome, onLeave, fresh, acts, today, faults, holder, blind, doubled, twice, broken>>

\* The status is driven back if the flip returned a document whose outcome is
\* 'applied'.
Complete(w) ==
  /\ Doing("complete", w)
  /\ LET t == Head(todo[w]) IN
       /\ doc' = IF doc[t.r] = "active" THEN [doc EXCEPT ![t.r] = "completed"] ELSE doc
       /\ Then(w, IF doc[t.r] = "active" /\ outcome[t.r] = "applied"
                  THEN <<[t EXCEPT !.do = "read"]>> ELSE <<>>)
       /\ hurried' = IF doc[t.r] = "active" /\ Unsaved(t.r) THEN hurried \cup {t.r} ELSE hurried
  /\ UNCHANGED <<outcome, onLeave, fresh, acts, today, faults, holder, blind, doubled, twice, broken>>

SaveOutcome(w) ==
  /\ Doing("applied", w) \/ Doing("failed", w)
  /\ outcome' = [outcome EXCEPT ![Head(todo[w]).r] = Head(todo[w]).do]
  /\ Then(w, <<>>)
  /\ UNCHANGED <<doc, onLeave, fresh, acts, today, faults, history>>

-----------------------------------------------------------------------------
(***************************************************************************)
(* driveLeaveAction: create, then apply                                    *)
(***************************************************************************)
\* What follows a drive that returned, and one that threw: activate records
\* it, complete does not.
Returned(t) == IF t.type = "leaveStart" THEN <<[t EXCEPT !.do = "applied"]>> ELSE <<>>
Refused(t) == IF t.type = "leaveStart" THEN <<[t EXCEPT !.do = "failed"]>> ELSE <<>>

\* A leave that is over by now drives nothing.
Read(w) ==
  /\ Doing("read", w)
  /\ LET t == Head(todo[w]) IN
       IF t.type = "leaveStart" /\ ~(t.r \in Affecting /\ End[t.r] >= today)
       THEN Then(w, <<>>) /\ UNCHANGED fresh
       ELSE Then(w, <<[t EXCEPT !.do = "check"]>>) /\ fresh' = fresh \cup {w}
  /\ UNCHANGED <<doc, outcome, onLeave, acts, today, faults, history>>

\* Mutant: an employee on leave may start another leave.
CheckEndOnly(w) ==
  /\ Doing("check", w)
  /\ LET t == Head(todo[w]) IN
       Then(w, IF w \in fresh /\ (t.type = "leaveEnd" => onLeave)
               THEN <<[t EXCEPT !.do = "allocate", !.now = t.day <= today]>> ELSE Refused(t))
  /\ fresh' = fresh \ {w}
  /\ UNCHANGED <<doc, outcome, onLeave, acts, today, faults, history>>

\* createAction reads the employee again: the version must be the one read
\* before, and assertCreatable compares the status.
Check(w) ==
  /\ Doing("check", w)
  /\ LET t == Head(todo[w]) IN
       Then(w, IF w \in fresh /\ onLeave = (t.type = "leaveEnd")
               THEN <<[t EXCEPT !.do = "allocate", !.now = t.day <= today]>> ELSE Refused(t))
  /\ fresh' = fresh \ {w}
  /\ UNCHANGED <<doc, outcome, onLeave, acts, today, faults, history>>

Allocate(w) ==
  /\ Doing("allocate", w)
  /\ LET t == Head(todo[w]) IN
       /\ acts' = Append(acts, [r |-> t.r, type |-> t.type, day |-> t.day,
                                status |-> "none", stamped |-> FALSE])
       /\ Then(w, <<[t EXCEPT !.do = "create", !.seq = Len(acts) + 1]>>)
  /\ UNCHANGED <<doc, outcome, onLeave, fresh, today, faults, history>>

\* The action is inserted as scheduled, whatever its day.
Create(w) ==
  /\ Doing("create", w)
  /\ LET t == Head(todo[w]) IN
       /\ acts' = [acts EXCEPT ![t.seq].status = "scheduled"]
       /\ Then(w, IF t.now THEN <<[t EXCEPT !.do = "reread"]>> ELSE Returned(t))
  /\ UNCHANGED <<doc, outcome, onLeave, fresh, today, faults, history>>

Reread(w) ==
  /\ Doing("reread", w)
  /\ Then(w, <<[Head(todo[w]) EXCEPT !.do = "save"]>>)
  /\ fresh' = fresh \cup {w}
  /\ UNCHANGED <<doc, outcome, onLeave, acts, today, faults, history>>

\* Requests whose leaveStart was checked and has not read the employee again.
Checked ==
  {Head(todo[w]).r : w \in {w \in Servers :
     /\ todo[w] # <<>> /\ Head(todo[w]).type = "leaveStart"
     /\ Head(todo[w]).do \in {"allocate", "create", "reread"}}}

\* apply accepts an employee who has the status already; the save is
\* conditional on the version that was read.
Save(w) ==
  /\ Doing("save", w)
  /\ LET t == Head(todo[w])
         starts == t.type = "leaveStart"
     IN  IF w \in fresh
         THEN /\ onLeave' = starts
              /\ fresh' = {}
              /\ Then(w, <<[t EXCEPT !.do = "stamp"]>>)
              /\ holder' = IF starts THEN t.r ELSE holder
              /\ blind' = IF starts THEN blind \cup (Checked \ {t.r}) ELSE blind
              /\ doubled' = IF starts /\ onLeave /\ t.r \in blind
                            THEN doubled \cup {t.r, holder} ELSE doubled
         ELSE /\ Then(w, <<[t EXCEPT !.do = "mark"]>>)
              /\ UNCHANGED <<onLeave, fresh, holder, blind, doubled>>
  /\ UNCHANGED <<doc, outcome, acts, today, faults, twice, hurried, broken>>

\* The error ends the call of the drive, and the loop of the scheduler.
Thrown(w) ==
  todo' = [todo EXCEPT ![w] = IF w = "applyScheduled" THEN <<>> ELSE Refused(Head(@)) \o Tail(@)]

\* The changes are written under the version of the action, so of two that
\* apply it the second throws, and throws again when it marks it failed.
Stamp(w) ==
  /\ Doing("stamp", w)
  /\ LET t == Head(todo[w]) IN
       IF acts[t.seq].stamped
       THEN Thrown(w) /\ UNCHANGED acts
       ELSE /\ acts' = [acts EXCEPT ![t.seq].status = "applied", ![t.seq].stamped = TRUE]
            /\ Then(w, IF w = "applyScheduled" THEN <<>> ELSE Returned(t))
  /\ UNCHANGED <<doc, outcome, onLeave, fresh, today, faults, history>>

\* markFailed; with the changes in the document it is versioned too.
Mark(w) ==
  /\ Doing("mark", w) \/ Doing("remark", w)
  /\ LET t == Head(todo[w])
         dirty == t.do = "remark"
     IN  IF dirty /\ acts[t.seq].stamped
         THEN Thrown(w) /\ UNCHANGED acts
         ELSE /\ acts' = [acts EXCEPT ![t.seq].status = "failed", ![t.seq].stamped = @ \/ dirty]
              /\ IF w = "applyScheduled" THEN Then(w, <<>>) ELSE Thrown(w)
  /\ UNCHANGED <<doc, outcome, onLeave, fresh, today, faults, history>>

-----------------------------------------------------------------------------
(***************************************************************************)
(* The jobs, the calendar and calls that fail.                             *)
(***************************************************************************)
ActivateDueStarted ==
  LET due == {r \in Reqs : doc[r] = "approved" /\ Start[r] <= today} IN
  /\ due # {}
  /\ \E q \in Listed(due, LAMBDA r, s : Start[r] <= Start[s]) :
       Begin("activateStarted", [i \in DOMAIN q |-> Starting("activate", q[i])])
  /\ UNCHANGED <<doc, outcome, onLeave, fresh, acts, today, faults, history>>

CompleteDueEnded ==
  LET due == {r \in Reqs : doc[r] = "active" /\ End[r] < today} IN
  /\ due # {}
  /\ \E q \in Listed(due, LAMBDA r, s : End[r] <= End[s]) :
       Begin("completeEnded", [i \in DOMAIN q |-> Ending("complete", q[i], End[q[i]] + 1)])
  /\ UNCHANGED <<doc, outcome, onLeave, fresh, acts, today, faults, history>>

\* The call that is about to apply the action i itself.
Applying(i) == \E w \in Servers : todo[w] # <<>> /\ Head(todo[w]).seq = i

\* applyDueScheduled reads all that is due once, in the order of day and seq.
ApplyDueScheduled ==
  LET due == {i \in DOMAIN acts : acts[i].status = "scheduled" /\ acts[i].day <= today}
      Before(i, j) == acts[i].day < acts[j].day \/ (acts[i].day = acts[j].day /\ i < j)
      of(i) == [Task("reread", acts[i].r, acts[i].type, acts[i].day) EXCEPT !.seq = i]
  IN  /\ due # {}
      /\ \E q \in Listed(due, Before) :
           Begin("applyScheduled", [k \in DOMAIN q |-> of(q[k])])
      /\ twice' = twice \cup {acts[i].r : i \in {i \in due : Applying(i)}}
  /\ UNCHANGED <<doc, outcome, onLeave, fresh, acts, today, faults,
                 holder, blind, doubled, hurried, broken>>

Tick ==
  /\ today < LastDay
  /\ today' = today + 1
  /\ UNCHANGED <<doc, outcome, onLeave, fresh, acts, todo, faults, history>>

\* A failed database call.  An error of the save or after it is followed by
\* markFailed (one after the stamp ends like one of the stamp); one before, or
\* of markFailed, ends the drive or the loop of the scheduler; one of the
\* request, the reading of its type included, ends its call, or turns a job to
\* the next request.
Caught(w) ==
  LET t == Head(todo[w]) IN
  CASE t.do = "save" -> <<[t EXCEPT !.do = "mark"]>> \o Tail(todo[w])
    [] t.do = "stamp" -> <<[t EXCEPT !.do = "remark"]>> \o Tail(todo[w])
    [] t.do \in {"catchUp", "activate", "complete", "applied", "failed"} -> Passed(w)
    [] OTHER -> IF w = "applyScheduled" THEN <<>> ELSE Refused(t) \o Tail(todo[w])

Fail(w) ==
  /\ todo[w] # <<>>
  /\ faults < MaxFaults
  /\ faults' = faults + 1
  /\ \E rest \in {<<>>, Caught(w)} \cup (IF Doing("read", w) THEN {Passed(w)} ELSE {}) :
       todo' = [todo EXCEPT ![w] = rest]
  /\ fresh' = fresh \ {w}
  /\ broken' = broken \cup {Head(todo[w]).r}
  /\ UNCHANGED <<doc, outcome, onLeave, acts, today, holder, blind, doubled, twice, hurried>>

Serve(w) ==
  \/ CatchUp(w) \/ Activate(w) \/ Complete(w) \/ SaveOutcome(w)
  \/ Read(w) \/ Check(w) \/ Allocate(w) \/ Create(w) \/ Reread(w) \/ Save(w)
  \/ Stamp(w) \/ Mark(w)

Next ==
  \/ \E w \in Workers, r \in Reqs : Approve(w, r) \/ EarlyReturn(w, r)
  \/ \E w \in Servers : Serve(w) \/ Fail(w)
  \/ ActivateDueStarted \/ CompleteDueEnded \/ ApplyDueScheduled \/ Tick

Spec == Init /\ [][Next]_vars

-----------------------------------------------------------------------------
(***************************************************************************)
(* Properties                                                              *)
(***************************************************************************)
Quiet == \A w \in Servers : todo[w] = <<>>

Scheduled(r) ==
  \E i \in DOMAIN acts :
    acts[i].r = r /\ acts[i].type = "leaveEnd" /\ acts[i].status = "scheduled"

\* Nobody is left on leave: when no call is under way and the employee is on
\* leave, the request that started last is active with its start on record, or
\* its end is scheduled - "`leaveEnd` drives the status back when `leaveStart`
\* had applied".  That is so whatever drives interleave and lose their save.
\* Excepted are failed calls, an action swept by the scheduler while its own
\* call applies it, and a request completed before its outcome was saved.
StatusReturns ==
  Quiet /\ onLeave /\ holder \notin broken \cup twice \cup hurried =>
    (doc[holder] = "active" /\ outcome[holder] = "applied") \/ Scheduled(holder)

\* An active leave whose start is on record as applied shows: nobody else's
\* end, refused start or lost save takes the status away.  Excepted are two
\* starts that were both checked before either was saved, the first end of
\* which clears the status of both; failed calls; and actions swept while
\* their own call applies them.
StatusShown ==
  Quiet /\ doubled \cup broken \cup twice = {} =>
    \A r \in Reqs : doc[r] = "active" /\ outcome[r] = "applied" => onLeave
=============================================================================
