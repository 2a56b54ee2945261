------------------------------- MODULE Leave -------------------------------
(***************************************************************************)
(* The leave of one employee against one banked type: the requests and     *)
(* their lifecycle (leave-requests/leave-request.service.ts), the balance  *)
(* of each year and the ledger behind it                                   *)
(* (leave-balances/leave-balance.service.ts).  What a leave does to the    *)
(* employee's status is LeaveStatus.                                       *)
(*                                                                         *)
(* What a request being served still has to do is a list of tasks, one per *)
(* call of the database; each step does the first.  Every day counts as    *)
(* one; weekends, holidays, half days, the other rules of validate, the    *)
(* yearly caps of the requests and the configured approval chain are left  *)
(* out.                                                                    *)
(***************************************************************************)
EXTENDS Integers, Sequences, FiniteSets, FiniteSetsExt, SequencesExt

CONSTANTS
  Reqs,      \* requests, by _id: a smaller number is a smaller id
  Start, End,\* Start[r]..End[r]: the days asked for
  NewYear,   \* the first day of the second year
  Grants,    \* what the two years may have been granted: <<year 1, year 2>>
  Manager,   \* has the employee a manager
  Cap,       \* negativeCapDays
  Backdate,  \* backdateDays
  Workers,   \* calls being served
  LastDay,   \* bound: the last day
  MaxMishaps \* bound: calls that fail, and requests moved mid-submit; after
             \* the last of them only the jobs begin anything

\* The two scheduled jobs, each with one run at a time.
Jobs == {"activateStarted", "completeEnded"}
Servers == Workers \cup Jobs
Years == 1..2

ASSUME LeaveAssumption ==
  /\ Reqs \subseteq Nat /\ IsFiniteSet(Reqs)
  /\ \A r \in Reqs : Start[r] \in Nat /\ End[r] \in Nat /\ Start[r] <= End[r]
  /\ Grants \subseteq [Years -> Nat]
  /\ Manager \in BOOLEAN
  /\ {NewYear, Cap, Backdate, LastDay, MaxMishaps} \subseteq Nat
  /\ Workers \cap Jobs = {}

VARIABLES
  doc,      \* doc[r]: the status of the request's document
  book,     \* book[y]: the cached balance of a year
  ledger,   \* ledger[r][kind][y]: the days of the entry, 0 when there is none
  todo,     \* todo[w]: the tasks of a call
  today,
  faults,   \* calls that failed so far
  checked,  \* history: requests that passed their recheck
  late,     \* history: pairs the smaller of which came after that
  hasty,    \* history: requests moved before submit was done with them, or
            \* before all their days were in the ledger
  broken,   \* history: requests of calls that failed
  stray     \* history: those of them that were to be deleted

history == <<checked, late, hasty, broken, stray>>
vars == <<doc, book, ledger, todo, today, faults, history>>

Pending == {"pendingManager", "pendingHr"}
Blocking == Pending \cup {"approved", "active"}
Kinds == {"reserve", "release", "consume"}

Days(from, to) ==
  [y \in Years |-> Cardinality({d \in from..to : (d >= NewYear) = (y = 2)})]
Nothing == [y \in Years |-> 0]
Full == [r \in Reqs |-> Days(Start[r], End[r])]

Overlap(r, s) == Start[r] <= End[s] /\ Start[s] <= End[r]
findOverlapping(r) == {s \in Reqs \ {r} : doc[s] \in Blocking /\ Overlap(r, s)}

Task(do, r, y, n) == [do |-> do, r |-> r, y |-> y, n |-> n]
Call(do, r) == <<Task(do, r, 0, 0)>>

\* A task for each year with days in n, in the order of the years.
Each(do, r, n) ==
  LET of(y) == IF n[y] > 0 THEN <<Task(do, r, y, n[y])>> ELSE <<>>
  IN  of(1) \o of(2)

\* What follows the tasks of r at the head of a list.
Skip(q, r) ==
  LET others == {i \in DOMAIN q : q[i].r # r}
  IN  IF others = {} THEN <<>> ELSE SubSeq(q, Min(others), Len(q))

Doing(do, w) == todo[w] # <<>> /\ Head(todo[w]).do = do
Then(w, tasks) == todo' = [todo EXCEPT ![w] = tasks \o Tail(@)]
Mishaps == faults + Cardinality(hasty)
Begin(w, tasks) ==
  /\ w \in Jobs \/ Mishaps < MaxMishaps
  /\ todo[w] = <<>>
  /\ todo' = [todo EXCEPT ![w] = tasks]

Tasks(w) == {todo[w][i] : i \in DOMAIN todo[w]}
Dropping == {t.r : t \in {t \in UNION {Tasks(w) : w \in Workers} : t.do = "drop"}}
InFlight == {t.r : t \in UNION {Tasks(w) : w \in Servers}}
Submitting ==
  {t.r : t \in {t \in UNION {Tasks(w) : w \in Workers} :
                  t.do \in {"create", "gate", "row", "undo", "drop", "recheck", "lose"}}}

Init ==
  /\ doc = [r \in Reqs |-> "none"]
  /\ book \in {[y \in Years |-> [granted |-> g[y], reserved |-> 0, consumed |-> 0]] : g \in Grants}
  /\ ledger = [r \in Reqs |-> [k \in Kinds |-> [y \in Years |-> 0]]]
  /\ todo = [w \in Servers |-> <<>>]
  /\ today = 0
  /\ faults = 0
  /\ checked = {} /\ late = {} /\ hasty = {} /\ broken = {} /\ stray = {}

-----------------------------------------------------------------------------
(***************************************************************************)
(* The balance: one conditional or unconditional $inc, one ledger insert.  *)
(***************************************************************************)
Inc(y, reserved, consumed) ==
  book' = [book EXCEPT ![y].reserved = @ + reserved, ![y].consumed = @ + consumed]

\* Mutant: what is consumed is forgotten.
CoversReserved(y, n) == book[y].granted - (book[y].reserved + n) >= -Cap

Covers(y, n) ==
  book[y].granted - (book[y].reserved + book[y].consumed + n) >= -Cap

\* Mutant: a shortfall deletes the request and gives nothing back.
GateKeeps(w) ==
  /\ Doing("gate", w)
  /\ LET t == Head(todo[w]) IN
       IF Covers(t.y, t.n)
       THEN Inc(t.y, t.n, 0) /\ Then(w, <<[t EXCEPT !.do = "row"]>>)
       ELSE todo' = [todo EXCEPT ![w] = Call("drop", t.r)] /\ UNCHANGED book
  /\ UNCHANGED <<doc, ledger, today, faults, history>>

\* tryReserve, and what reserveForRequest does when it fails: the years
\* already taken are given back in the cache, and submit deletes the request.
Gate(w) ==
  /\ Doing("gate", w)
  /\ LET t == Head(todo[w]) IN
       IF Covers(t.y, t.n)
       THEN Inc(t.y, t.n, 0) /\ Then(w, <<[t EXCEPT !.do = "row"]>>)
       ELSE /\ todo' = [todo EXCEPT ![w] =
                          Each("undo", t.r, [y \in Years |-> IF y < t.y THEN Full[t.r][y] ELSE 0])
                          \o Call("drop", t.r)]
            /\ UNCHANGED book
  /\ UNCHANGED <<doc, ledger, today, faults, history>>

\* appendLedger under its unique index; todo goes on with fresh when the row
\* was inserted and with dup when it was there.
Insert(w, do, kind, fresh, dup) ==
  /\ Doing(do, w)
  /\ LET t == Head(todo[w])
         after(next) == IF next = "" THEN <<>> ELSE <<[t EXCEPT !.do = next]>>
     IN  IF ledger[t.r][kind][t.y] = 0
         THEN ledger' = [ledger EXCEPT ![t.r][kind][t.y] = t.n] /\ Then(w, after(fresh))
         ELSE UNCHANGED ledger /\ Then(w, after(dup))
  /\ UNCHANGED <<doc, book, today, faults, history>>

ReserveRow(w) == Insert(w, "row", "reserve", "", "undo")
Release(w) == Insert(w, "release", "release", "undo", "")
Consume(w) == Insert(w, "consume", "consume", "spend", "")

Undo(w) ==
  /\ Doing("undo", w)
  /\ Inc(Head(todo[w]).y, -Head(todo[w]).n, 0)
  /\ Then(w, <<>>)
  /\ UNCHANGED <<doc, ledger, today, faults, history>>

\* Mutant: the two counters are swapped.
SpendSwapped(w) ==
  /\ Doing("spend", w)
  /\ Inc(Head(todo[w]).y, Head(todo[w]).n, -Head(todo[w]).n)
  /\ Then(w, <<>>)
  /\ UNCHANGED <<doc, ledger, today, faults, history>>

Spend(w) ==
  /\ Doing("spend", w)
  /\ Inc(Head(todo[w]).y, -Head(todo[w]).n, Head(todo[w]).n)
  /\ Then(w, <<>>)
  /\ UNCHANGED <<doc, ledger, today, faults, history>>

-----------------------------------------------------------------------------
(***************************************************************************)
(* submit                                                                  *)
(***************************************************************************)
Set(r, status) == doc' = [doc EXCEPT ![r] = status]

\* validate: overlap, backdating and the balance of every year.
Submit(w, r) ==
  /\ doc[r] = "none" /\ r \notin InFlight
  /\ findOverlapping(r) = {}
  /\ Start[r] >= today - Backdate
  /\ \A y \in Years : Full[r][y] > 0 => Covers(y, Full[r][y])
  /\ Begin(w, Call("create", r))
  /\ UNCHANGED <<doc, book, ledger, today, faults, history>>

Create(w) ==
  /\ Doing("create", w)
  /\ LET r == Head(todo[w]).r IN
       /\ Set(r, IF Manager THEN "pendingManager" ELSE "pendingHr")
       /\ Then(w, Each("gate", r, Full[r]) \o Call("recheck", r))
       /\ late' = late \cup {<<r, s>> : s \in {s \in checked : r < s /\ Overlap(r, s)}}
  /\ UNCHANGED <<book, ledger, today, faults, checked, hasty, broken, stray>>

Drop(w) ==
  /\ Doing("drop", w)
  /\ Set(Head(todo[w]).r, "gone")
  /\ Then(w, <<>>)
  /\ UNCHANGED <<book, ledger, today, faults, history>>

\* Mutant: only the requests already approved are compared.
BeatenByApproved(r) ==
  \E s \in findOverlapping(r) : s < r /\ doc[s] \in {"approved", "active"}

\* The loser of the recheck is the one with the larger id.
Beaten(r) == \E s \in findOverlapping(r) : s < r

Recheck(w) ==
  /\ Doing("recheck", w)
  /\ LET r == Head(todo[w]).r IN
       IF Beaten(r)
       THEN Then(w, Each("release", r, Full[r]) \o Call("lose", r)) /\ UNCHANGED checked
       ELSE Then(w, <<>>) /\ checked' = checked \cup {r}
  /\ UNCHANGED <<doc, book, ledger, today, faults, late, hasty, broken, stray>>

\* The loser's status is written whatever it is by then.
Lose(w) ==
  /\ Doing("lose", w)
  /\ Set(Head(todo[w]).r, "rejected")
  /\ Then(w, <<>>)
  /\ UNCHANGED <<book, ledger, today, faults, history>>

-----------------------------------------------------------------------------
(***************************************************************************)
(* decide and cancel: one update conditional on the status that was read.  *)
(***************************************************************************)
Verdicts(status) ==
  {"approved", "rejected"} \cup (IF status = "pendingManager" THEN {"pendingHr"} ELSE {})

After(r, status) ==
  CASE status \in {"rejected", "cancelled"} -> Each("release", r, Full[r])
    [] status = "approved"                  -> Call("catchUp", r)
    [] OTHER                                -> <<>>

Move(w, r, status) ==
  /\ Set(r, status)
  /\ Begin(w, After(r, status))
  /\ hasty' = IF r \in Submitting \/ ledger[r]["reserve"] # Full[r]
               THEN hasty \cup {r} ELSE hasty
  /\ UNCHANGED <<book, ledger, today, faults, checked, late, broken, stray>>

Decide(w, r) ==
  /\ doc[r] \in Pending
  /\ \E status \in Verdicts(doc[r]) : Move(w, r, status)

Cancel(w, r) ==
  /\ doc[r] \in Pending \/ (doc[r] = "approved" /\ Start[r] > today)
  /\ Move(w, r, "cancelled")

\* A late approval starts, and ends, at once.
CatchUp(w) ==
  /\ Doing("catchUp", w)
  /\ LET r == Head(todo[w]).r IN
       Then(w, IF Start[r] > today THEN <<>>
               ELSE Call("activate", r)
                    \o (IF End[r] < today THEN Call("complete", r) ELSE <<>>))
  /\ UNCHANGED <<doc, book, ledger, today, faults, history>>

-----------------------------------------------------------------------------
(***************************************************************************)
(* activate, complete and earlyReturn, but for the status they drive.      *)
(***************************************************************************)
\* Without the flip there is nothing to start, and decide does not complete.
Activate(w) ==
  /\ Doing("activate", w)
  /\ LET r == Head(todo[w]).r IN
       IF doc[r] = "approved"
       THEN Set(r, "active") /\ Then(w, <<>>)
       ELSE /\ todo' = [todo EXCEPT ![w] = Skip(@, r)]
            /\ UNCHANGED doc
  /\ UNCHANGED <<book, ledger, today, faults, history>>

\* Mutant: the whole request is released.
CloseReleasing(r, d) ==
  Each("consume", r, Days(Start[r], d - 1)) \o Each("release", r, Full[r])

\* What complete does after its flip for a return on day d: the days before
\* it are consumed, the others released.
Close(r, d) ==
  LET taken == Days(Start[r], d - 1)
  IN  Each("consume", r, taken)
      \o Each("release", r, [y \in Years |-> Full[r][y] - taken[y]])

Complete(w) ==
  /\ Doing("complete", w)
  /\ LET r == Head(todo[w]).r IN
       IF doc[r] = "active"
       THEN Set(r, "completed") /\ Then(w, Close(r, End[r] + 1))
       ELSE UNCHANGED doc /\ Then(w, <<>>)
  /\ UNCHANGED <<book, ledger, today, faults, history>>

\* Nothing compares the day of return with today.
EarlyReturn(w, r) ==
  /\ doc[r] = "active"
  /\ Set(r, "completed")
  /\ \E d \in Start[r]..(End[r] + 1) : Begin(w, Close(r, d))
  /\ UNCHANGED <<book, ledger, today, faults, history>>

-----------------------------------------------------------------------------
(***************************************************************************)
(* The jobs, the calendar and calls that fail.                             *)
(***************************************************************************)
\* The calls for a set of requests, one after the other.
Calls(do, S) == [i \in 1..Cardinality(S) |-> Task(do, SetToSeq(S)[i], 0, 0)]

ActivateDueStarted ==
  LET due == {r \in Reqs : doc[r] = "approved" /\ Start[r] <= today} IN
  /\ due # {}
  /\ Begin("activateStarted", Calls("activate", due))
  /\ UNCHANGED <<doc, book, ledger, today, faults, history>>

CompleteDueEnded ==
  LET due == {r \in Reqs : doc[r] = "active" /\ End[r] < today} IN
  /\ due # {}
  /\ Begin("completeEnded", Calls("complete", due))
  /\ UNCHANGED <<doc, book, ledger, today, faults, history>>

Tick ==
  /\ today < LastDay
  /\ today' = today + 1
  /\ UNCHANGED <<doc, book, ledger, todo, faults, history>>

\* A failed database call: submit deletes the request it was reserving for, a
\* job turns to the next request, every other call ends.
Caught(w) ==
  LET do == Head(todo[w]).do
      r == Head(todo[w]).r
  IN  CASE do \in {"gate", "row"} \/ \E t \in Tasks(w) : t.do = "drop" -> Call("drop", r)
        [] OTHER -> Skip(todo[w], r)

Fail(w) ==
  /\ todo[w] # <<>>
  /\ Mishaps < MaxMishaps
  /\ faults' = faults + 1
  /\ \E rest \in {<<>>, Caught(w)} : todo' = [todo EXCEPT ![w] = rest]
  /\ broken' = broken \cup {t.r : t \in Tasks(w)}
  /\ stray' = stray \cup {t.r : t \in {t \in Tasks(w) : t.do = "drop"}}
  /\ UNCHANGED <<doc, book, ledger, today, checked, late, hasty>>

Serve(w) ==
  \/ Gate(w) \/ ReserveRow(w) \/ Release(w) \/ Consume(w) \/ Undo(w) \/ Spend(w)
  \/ Create(w) \/ Drop(w) \/ Recheck(w) \/ Lose(w) \/ CatchUp(w)
  \/ Activate(w) \/ Complete(w)

Next ==
  \/ \E w \in Workers, r \in Reqs :
       Submit(w, r) \/ Decide(w, r) \/ Cancel(w, r) \/ EarlyReturn(w, r)
  \/ \E w \in Servers : Serve(w) \/ Fail(w)
  \/ ActivateDueStarted \/ CompleteDueEnded \/ Tick

Spec == Init /\ [][Next]_vars

-----------------------------------------------------------------------------
(***************************************************************************)
(* Properties                                                              *)
(***************************************************************************)
TypeOK ==
  /\ doc \in [Reqs -> Blocking \cup {"none", "gone", "completed", "rejected", "cancelled"}]
  /\ book \in [Years -> [granted : Nat, reserved : Int, consumed : Nat]]
  /\ \A r \in Reqs, k \in Kinds, y \in Years : ledger[r][k][y] \in 0..Full[r][y]
  /\ broken \subseteq Reqs /\ hasty \subseteq Reqs

\* The cache the gate decides on never holds less than the requests that have
\* a document hold in the ledger, and never more than was granted with the
\* negative cap: whatever calls overlap, and wherever one of them dies, no day
\* is promised twice - R1, "THE gate".  A request that is being deleted, or
\* whose deletion died, is not counted: its days have been given back.
Held(y) ==
  SumFunctionOnSet([r \in Reqs |-> ledger[r]["reserve"][y] - ledger[r]["release"][y]],
                   {r \in Reqs : doc[r] # "gone"} \ (stray \cup Dropping))

NeverOverbooked ==
  hasty = {} => \A y \in Years :
    /\ Held(y) <= book[y].reserved + book[y].consumed
    /\ book[y].reserved + book[y].consumed <= book[y].granted + Cap

\* When no call is under way each request holds exactly its days: a live one
\* has them reserved, a rejected or cancelled one has given all of them back,
\* a completed one has each either consumed or given back, year by year.
\* Requests whose call failed, or that were moved mid-submit, are excepted.
Settled(r) ==
  LET e == ledger[r] IN
  CASE doc[r] \in Blocking ->
         e = [k \in Kinds |-> IF k = "reserve" THEN Full[r] ELSE Nothing]
    [] doc[r] \in {"rejected", "cancelled"} ->
         e["reserve"] = Full[r] /\ e["release"] = Full[r] /\ e["consume"] = Nothing
    [] doc[r] = "completed" ->
         e["reserve"] = Full[r] /\ \A y \in Years : e["release"][y] + e["consume"][y] = Full[r][y]
    [] OTHER -> TRUE

HeldExactly == \A r \in Reqs \ (hasty \cup broken \cup InFlight) : Settled(r)

\* The cache the gate reads is the sum of the ledger whenever no call is under
\* way: "the balance cache is rebuilt FROM this collection".  A request that
\* was deleted for want of balance leaves its rows behind and is excepted, as
\* are calls that failed.
Sum(kind, y) ==
  SumFunctionOnSet([r \in Reqs |-> ledger[r][kind][y]], {r \in Reqs : doc[r] # "gone"})

CacheIsLedger ==
  InFlight = {} /\ hasty = {} /\ broken = {} =>
    \A y \in Years :
      /\ book[y].consumed = Sum("consume", y)
      /\ book[y].reserved = Sum("reserve", y) - Sum("release", y) - Sum("consume", y)

\* Two overlapping requests never both stand, once the second of them has
\* been rechecked - R2/C6 - unless the one with the smaller id was inserted
\* only after the larger had looked.
NoDoubleLeave ==
  \A r \in Reqs, s \in checked :
    r < s /\ Overlap(r, s) /\ {doc[r], doc[s]} \subseteq Blocking => <<r, s>> \in late
=============================================================================
