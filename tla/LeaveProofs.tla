---------------------------- MODULE LeaveProofs ----------------------------
(***************************************************************************)
(* Proofs about Leave: that the recheck of submit is enough against        *)
(* overlapping leave, its type invariant, that each request holds exactly  *)
(* its days, that the cached balance is the sum of the ledger, and that it *)
(* is never overbooked.                                                    *)
(*                                                                         *)
(* The argument for the accounts.  Lists: what a call still has to do is   *)
(* ordered by rank.  Fresh: a request is inserted, and its days entered,   *)
(* once.  Sole: the tasks that keep the accounts of a request are in one   *)
(* call, unless the request was moved before submit was done with it.      *)
(* Phases: its status, its ledger and those tasks agree, each row being    *)
(* there or about to be.  Balance: the cache is the sum, over the          *)
(* requests, of what the ledger says and of what their tasks still have    *)
(* to write.                                                               *)
(***************************************************************************)
EXTENDS Leave, FoldTheorems, TLAPS

-----------------------------------------------------------------------------
(***************************************************************************)
(* Overlapping leave: nothing of the balance or of the calls is needed     *)
(***************************************************************************)
\* A standing request with a smaller id than one that has been rechecked
\* overlaps it only if it was inserted afterwards.  The status of the larger
\* one plays no part, which is what makes this inductive: that status may
\* change in any way later.
Rechecked ==
  /\ doc = [r \in Reqs |-> doc[r]]
  /\ \A r \in Reqs, s \in checked :
       r < s /\ Overlap(r, s) /\ doc[r] \in Blocking => <<r, s>> \in late

\* No request is standing yet.
LEMMA RecheckedInitially == Init => Rechecked
  BY DEF Init, Rechecked, Blocking, Pending

\* A step that makes no request stand that did not stand before, and leaves
\* the history of the rechecks alone, keeps the invariant.
LEMMA NothingNewStands ==
  ASSUME Rechecked, NEW x,
         NEW status, doc' = [doc EXCEPT ![x] = status],
         status \in Blocking => x \notin Reqs \/ doc[x] \in Blocking,
         UNCHANGED <<checked, late>>
  PROVE  Rechecked'
  BY DEF Rechecked, Overlap

\* Only the insert of a request can put a smaller id beside one that was rechecked.
LEMMA NextRechecked == Rechecked /\ [Next]_vars => Rechecked'
<1> SUFFICES ASSUME Rechecked, [Next]_vars PROVE Rechecked'
  OBVIOUS
<1>0. ASSUME UNCHANGED <<doc, checked, late>> PROVE Rechecked'
  BY <1>0 DEF Rechecked, Overlap
<1>1. ASSUME NEW w, Create(w) PROVE Rechecked'
  <2> DEFINE r == Head(todo[w]).r
  <2>1. \E status : doc' = [doc EXCEPT ![r] = status]
    BY <1>1 DEF Create, Set
  <2>2. /\ checked' = checked
        /\ late' = late \cup {<<r, s>> : s \in {s \in checked : r < s /\ Overlap(r, s)}}
    BY <1>1 DEF Create
  <2>3. doc' = [q \in Reqs |-> doc'[q]]
    BY <2>1 DEF Rechecked
  <2>4. ASSUME NEW q \in Reqs, NEW s \in checked, q < s, Overlap(q, s), doc'[q] \in Blocking
        PROVE  <<q, s>> \in late'
    <3>1. CASE q = r
      BY <2>2, <2>4, <3>1
    <3>2. CASE q # r
      BY <2>1, <2>2, <2>4, <3>2 DEF Rechecked
    <3> QED BY <3>1, <3>2
  <2> QED BY <2>2, <2>3, <2>4 DEF Rechecked, Overlap
<1>2. ASSUME NEW w, Recheck(w) PROVE Rechecked'
  <2> DEFINE r == Head(todo[w]).r
  <2>1. doc' = doc /\ late' = late
    BY <1>2 DEF Recheck
  <2>2. CASE Beaten(r)
    BY <1>2, <2>1, <2>2, <1>0 DEF Recheck
  <2>3. CASE ~Beaten(r)
    <3>1. checked' = checked \cup {r}
      BY <1>2, <2>3 DEF Recheck
    <3>2. ASSUME NEW q \in Reqs, q < r, Overlap(q, r), doc[q] \in Blocking PROVE FALSE
      BY <2>3, <3>2, LeaveAssumption DEF Beaten, findOverlapping, Overlap
    <3> QED BY <2>1, <3>1, <3>2 DEF Rechecked, Overlap
  <2> QED BY <2>2, <2>3
\* Every other write of a status.
<1>3. ASSUME NEW w, Drop(w) \/ Lose(w) PROVE Rechecked'
  <2> DEFINE r == Head(todo[w]).r
  <2>1. \E status \in {"gone", "rejected"} : doc' = [doc EXCEPT ![r] = status]
    BY <1>3 DEF Drop, Lose, Set
  <2>2. UNCHANGED <<checked, late>>
    BY <1>3 DEF Drop, Lose, history
  <2> QED BY <2>1, <2>2, NothingNewStands DEF Blocking, Pending
<1>4. ASSUME NEW w, NEW r \in Reqs, Decide(w, r) \/ Cancel(w, r) PROVE Rechecked'
  <2>1. PICK status : Move(w, r, status) /\ (doc[r] \in Blocking \/ status \notin Blocking)
    BY <1>4 DEF Decide, Cancel, Blocking, Pending
  <2>2. doc' = [doc EXCEPT ![r] = status] /\ UNCHANGED <<checked, late>>
    BY <2>1 DEF Move, Set
  <2> QED BY <2>1, <2>2, NothingNewStands
<1>5. ASSUME NEW w, Activate(w) PROVE Rechecked'
  <2> DEFINE r == Head(todo[w]).r
  <2>1. \/ doc' = doc
        \/ doc[r] = "approved" /\ doc' = [doc EXCEPT ![r] = "active"]
    BY <1>5 DEF Activate, Set
  <2>2. UNCHANGED <<checked, late>>
    BY <1>5 DEF Activate, history
  <2> QED BY <1>0, <2>1, <2>2, NothingNewStands DEF Blocking, Pending
<1>6. ASSUME NEW w, Complete(w) PROVE Rechecked'
  <2>1. \/ doc' = doc
        \/ doc' = [doc EXCEPT ![Head(todo[w]).r] = "completed"]
    BY <1>6 DEF Complete, Set
  <2>2. UNCHANGED <<checked, late>>
    BY <1>6 DEF Complete, history
  <2> QED BY <1>0, <2>1, <2>2, NothingNewStands DEF Blocking, Pending
<1>7. ASSUME NEW w, NEW r \in Reqs, EarlyReturn(w, r) PROVE Rechecked'
  <2>1. doc' = [doc EXCEPT ![r] = "completed"] /\ UNCHANGED <<checked, late>>
    BY <1>7 DEF EarlyReturn, Set, history
  <2> QED BY <2>1, NothingNewStands DEF Blocking, Pending
\* The steps that write no status and are no recheck.
<1>8. ASSUME NEW w, Serve(w) PROVE Rechecked'
  <2>1. CASE Gate(w)        BY <1>0, <2>1 DEF Gate, history
  <2>2. CASE ReserveRow(w)  BY <1>0, <2>2 DEF ReserveRow, Insert, history
  <2>3. CASE Release(w)     BY <1>0, <2>3 DEF Release, Insert, history
  <2>4. CASE Consume(w)     BY <1>0, <2>4 DEF Consume, Insert, history
  <2>5. CASE Undo(w)        BY <1>0, <2>5 DEF Undo, history
  <2>6. CASE Spend(w)       BY <1>0, <2>6 DEF Spend, history
  <2>7. CASE CatchUp(w)     BY <1>0, <2>7 DEF CatchUp, history
  <2> QED
    BY <1>1, <1>2, <1>3, <1>5, <1>6, <1>8, <2>1, <2>2, <2>3, <2>4, <2>5, <2>6, <2>7 DEF Serve
<1>9. ASSUME NEW w, NEW r \in Reqs, Submit(w, r) PROVE Rechecked'
  BY <1>0, <1>9 DEF Submit, history
<1>10. ASSUME NEW w, Fail(w) PROVE Rechecked'
  BY <1>0, <1>10 DEF Fail
<1>12. CASE ActivateDueStarted \/ CompleteDueEnded \/ Tick
  BY <1>0, <1>12 DEF ActivateDueStarted, CompleteDueEnded, Tick, history
<1>13. CASE UNCHANGED vars
  BY <1>0, <1>13 DEF vars, history
<1> QED
  BY <1>4, <1>7, <1>8, <1>9, <1>10, <1>12, <1>13 DEF Next

\* Whatever calls overlap and fail, two overlapping requests never both stand
\* once the larger has been rechecked, unless the smaller was inserted after
\* that recheck (R2/C6, submit): the recheck needs no lock and no transaction
\* with the insert, only that an id is older than its document.
THEOREM OverlappingLeaveIsRejected == Spec => []NoDoubleLeave
<1>1. Rechecked => NoDoubleLeave
  BY DEF Rechecked, NoDoubleLeave
<1> QED BY RecheckedInitially, NextRechecked, <1>1, PTL DEF Spec

-----------------------------------------------------------------------------
(***************************************************************************)
(* The tasks                                                               *)
(***************************************************************************)
Yearly == {"gate", "row", "undo", "release", "consume", "spend"}
Plain == {"create", "recheck", "drop", "lose", "catchUp", "activate", "complete"}
Starting == {"activate"}
Final == {"create", "recheck", "drop", "lose", "catchUp", "complete"}

\* Only submit has these, so only a worker.
Sub == {"create", "gate", "row", "recheck", "drop", "lose"}

\* Those that write the balance or the ledger, or come after one that does.
Accounting == Sub \cup {"release", "undo", "consume", "spend"}

\* The order of the tasks of one request in a list.
Rank(t) ==
  CASE t.do \in {"create", "catchUp"}   -> 0
    [] t.do \in Starting                -> 1
    [] t.do \in {"gate", "row"}         -> 1 + t.y
    [] t.do = "recheck"                 -> 4
    [] t.do = "complete"                -> 5
    [] t.do \in {"consume", "spend"}    -> 5 + t.y
    [] t.do \in {"release", "undo"}     -> 7 + t.y
    [] OTHER                            -> 10

GoodTask(t) ==
  /\ t = Task(t.do, t.r, t.y, t.n)
  /\ t.r \in Reqs
  /\ \/ t.do \in Yearly /\ t.y \in Years /\ t.n \in 1..Full[t.r][t.y]
     \/ t.do \in Plain /\ t.y = 0 /\ t.n = 0

\* The members of a list.
Elements(q) == {q[i] : i \in DOMAIN q}

Precedes(t, u) ==
  t.r = u.r => /\ Rank(t) < Rank(u)
               /\ t.do \notin Final
               /\ t.do \in Starting => u.do = "complete"

Ordered(q) ==
  /\ q \in Seq(Elements(q))
  /\ \A i, j \in DOMAIN q : i < j => Precedes(q[i], q[j])

GoodList(q) == Ordered(q) /\ \A t \in Elements(q) : GoodTask(t)

Lists ==
  /\ todo = [w \in Servers |-> todo[w]]
  /\ \A w \in Servers : GoodList(todo[w])
  /\ \A w \in Servers : \A t \in Tasks(w) : t.do \in Sub => w \in Workers
  /\ \A w \in Workers : \A t, u \in Tasks(w) : t.r = u.r

\* The tasks of r of some sorts, wherever they are, and whether one call has
\* them all.
Open == UNION {Tasks(w) : w \in Servers}
Mine(r, sorts) == {t \in Open : t.r = r /\ t.do \in sorts}
One(r, sorts) ==
  \A v, w \in Servers :
    \A t \in Mine(r, sorts) \cap Tasks(v), u \in Mine(r, sorts) \cap Tasks(w) : v = w

Account(r) == Mine(r, Accounting)

\* One call at a time keeps the accounts of a request.
Sole == \A r \in Reqs \ hasty : One(r, Accounting)

\* A request is inserted, and its days entered, once.
Fresh ==
  \A r \in Reqs :
    /\ One(r, Sub)
    /\ doc[r] = "none" => /\ \A t \in Open : t.r = r => t.do = "create"
                          /\ \A y \in Years : ledger[r]["reserve"][y] = 0
    /\ Mine(r, {"create"}) # {} => doc[r] = "none"
    /\ \A t \in Mine(r, {"gate", "row"}) : ledger[r]["reserve"][t.y] = 0

-----------------------------------------------------------------------------
(***************************************************************************)
(* Where a request is: st is the status of its document, e its entries in  *)
(* the ledger, A the tasks that keep its accounts.                         *)
(***************************************************************************)
Does(A) == {t.do : t \in A}

\* The row of a kind for year y is there, with n days, or about to be.
Booked(r, e, A, kind, y, n) ==
  \/ e[kind][y] = n /\ \A t \in A : t.do = kind => t.y # y
  \/ e[kind][y] = 0 /\ Task(kind, r, y, n) \in A

Nil(e, kind) == \A y \in Years : e[kind][y] = 0
Reserved(r, e) == e["reserve"] = Full[r]
Released(r, e, A) == \A y \in Years : Booked(r, e, A, "release", y, Full[r][y])
Shared(r, e, A) ==
  \A y \in Years : \E c \in 0..Full[r][y] :
    Booked(r, e, A, "consume", y, c) /\ Booked(r, e, A, "release", y, Full[r][y] - c)

\* submit is taking the days of the years, one after the other.
Reserving(r, e, A) ==
  /\ Does(A) \subseteq {"gate", "row", "recheck"} /\ "recheck" \in Does(A)
  /\ Nil(e, "release") /\ Nil(e, "consume")
  /\ \A t \in A : t.do \in {"gate", "row"} => e["reserve"][t.y] = 0 /\ t.n = Full[r][t.y]
  /\ \A y \in Years :
       \/ e["reserve"][y] = Full[r][y]
       \/ e["reserve"][y] = 0 /\ \E t \in A : t.do \in {"gate", "row"} /\ t.y = y
  /\ \A y, z \in Years : y < z /\ e["reserve"][z] # 0 => e["reserve"][y] = Full[r][y]
  /\ \A t, u \in A : t.do = "row" /\ u.do \in {"gate", "row"} => t.y <= u.y

\* It is giving them back, and will delete the request.
Deleting(r, e, A) ==
  /\ Does(A) \subseteq {"undo", "drop"} /\ "drop" \in Does(A)
  /\ Nil(e, "release") /\ Nil(e, "consume") /\ ~Reserved(r, e)

\* It lost the recheck, and will reject the request.
Losing(r, e, A) ==
  /\ Does(A) \subseteq {"release", "undo", "lose"} /\ "lose" \in Does(A)
  /\ Reserved(r, e) /\ Released(r, e, A) /\ Nil(e, "consume")

Holding(r, e, A) == A = {} /\ Reserved(r, e) /\ Nil(e, "release") /\ Nil(e, "consume")

\* The call that was submitting it died.
Abandoned(r, e, A, failed, lost) ==
  /\ failed
  /\ A = {}
  /\ \A y \in Years : e["release"][y] <= e["reserve"][y]
  /\ lost => ~Reserved(r, e)

Place(r, st, e, A, failed, lost) ==
  /\ st = "none" =>
       /\ Does(A) \subseteq {"create"} /\ ~lost
       /\ \A k \in Kinds : Nil(e, k)
  /\ st \in Pending =>
       \/ ~lost /\ (Reserving(r, e, A) \/ Losing(r, e, A) \/ Holding(r, e, A))
       \/ Deleting(r, e, A) \/ Abandoned(r, e, A, failed, lost)
  /\ st \in {"approved", "active"} =>
       /\ A = {} /\ ~lost /\ Reserved(r, e)
       /\ ~failed => Holding(r, e, A)
  /\ st \in {"rejected", "cancelled"} =>
       /\ Does(A) \subseteq {"release", "undo"} /\ ~lost /\ Reserved(r, e)
       /\ ~failed => Released(r, e, A) /\ Nil(e, "consume")
  /\ st = "completed" =>
       /\ Does(A) \subseteq {"consume", "spend", "release", "undo"} /\ ~lost
       /\ Reserved(r, e)
       /\ ~failed => Shared(r, e, A)
  /\ st = "gone" => A = {} /\ Nil(e, "consume")

Phase(r) == Place(r, doc[r], ledger[r], Account(r), r \in broken, r \in stray)
Phases == \A r \in Reqs \ hasty : Phase(r)

-----------------------------------------------------------------------------
(***************************************************************************)
(* The cache                                                               *)
(***************************************************************************)
\* The days a task of A for year y is about to write.
Waiting(A, do, y) ==
  LET W == {t \in A : t.do = do /\ t.y = y}
  IN  IF W = {} THEN 0 ELSE (CHOOSE t \in W : TRUE).n

\* The days of a request that stands, or that is not to be deleted.
Kept(st, e, A, lost, y) ==
  IF st = "gone" \/ lost \/ "drop" \in Does(A) THEN 0 ELSE e["reserve"][y] - e["release"][y]

\* What r has in the cache of year y, and what of it was consumed.
Part(st, e, A, lost, y) == Kept(st, e, A, lost, y) + Waiting(A, "row", y) + Waiting(A, "undo", y)
Used(e, A, y) == e["consume"][y] - Waiting(A, "spend", y)

Share(r, y) == Part(doc[r], ledger[r], Account(r), r \in stray, y)
Spent(r, y) == Used(ledger[r], Account(r), y)

Shares(y) == SumFunctionOnSet([r \in Reqs |-> Share(r, y)], Reqs)
Spendings(y) == SumFunctionOnSet([r \in Reqs |-> Spent(r, y)], Reqs)

Cached(y) == book[y].reserved + book[y].consumed

Balance ==
  hasty = {} => \A y \in Years :
    /\ Shares(y) <= Cached(y)
    /\ broken = {} => Shares(y) = Cached(y) /\ Spendings(y) = book[y].consumed

Gated == \A y \in Years : Cached(y) <= book[y].granted + Cap

Types ==
  /\ TypeOK
  /\ ledger \in [Reqs -> [Kinds -> [Years -> Nat]]]

-----------------------------------------------------------------------------
(***************************************************************************)
(* Lists of tasks                                                          *)
(***************************************************************************)
LEMMA DaysType ==
  ASSUME NEW a \in Int, NEW b \in Int
  PROVE  Days(a, b) \in [Years -> Nat]
<1>1. ASSUME NEW y \in Years
      PROVE  Cardinality({d \in a..b : (d >= NewYear) = (y = 2)}) \in Nat
  BY FS_Interval, FS_Subset, FS_CardinalityType
<1> QED BY <1>1 DEF Days

\* The days up to an earlier one are fewer.
LEMMA DaysUpTo ==
  ASSUME NEW a \in Int, NEW b \in Int, NEW c \in Int, c <= b, NEW y \in Years
  PROVE  Days(a, c)[y] <= Days(a, b)[y]
<1> DEFINE C == {d \in a..c : (d >= NewYear) = (y = 2)}
           B == {d \in a..b : (d >= NewYear) = (y = 2)}
<1>1. IsFiniteSet(B) /\ C \subseteq B
  <2>1. IsFiniteSet(a..b) /\ B \subseteq a..b /\ C \subseteq B
    BY FS_Interval
  <2> QED BY <2>1, FS_Subset
<1>2. Cardinality(C) <= Cardinality(B)
  BY <1>1, FS_Subset
<1> QED BY <1>2 DEF Days

\* The days a request asks of each year.
LEMMA FullType == Full \in [Reqs -> [Years -> Nat]]
<1>1. ASSUME NEW r \in Reqs PROVE Days(Start[r], End[r]) \in [Years -> Nat]
  <2>1. Start[r] \in Int /\ End[r] \in Int
    BY LeaveAssumption
  <2> QED BY <2>1, DaysType
<1> QED BY <1>1 DEF Full

\* A call that has nothing more to do.
LEMMA EmptyList == GoodList(<<>>) /\ Elements(<<>>) = {}
<1>1. Elements(<<>>) = {}
  BY DEF Elements
<1> QED BY <1>1 DEF GoodList, Ordered

\* A call with one task.
LEMMA SingleList ==
  ASSUME NEW t, GoodTask(t)
  PROVE  GoodList(<<t>>) /\ Elements(<<t>>) = {t}
<1>1. Elements(<<t>>) = {t}
  BY DEF Elements
<1>2. <<t>> \in Seq({t}) /\ DOMAIN <<t>> = 1..1 /\ <<t>>[1] = t
  OBVIOUS
<1> QED BY <1>1, <1>2 DEF GoodList, Ordered

\* A list is a sequence over its elements.
LEMMA ListIndices ==
  ASSUME NEW q, GoodList(q)
  PROVE  /\ q \in Seq(Elements(q))
         /\ Len(q) \in Nat /\ DOMAIN q = 1..Len(q)
         /\ q = <<>> <=> Len(q) = 0
         /\ q # <<>> => Len(q) > 0 /\ Head(q) = q[1]
         /\ q # <<>> <=> Elements(q) # {}
<1> DEFINE E == Elements(q)
<1>1. q \in Seq(E)
  BY DEF GoodList, Ordered
<1>2. Len(q) \in Nat /\ DOMAIN q = 1..Len(q) /\ (q = <<>> <=> Len(q) = 0)
  <2> HIDE DEF E
  <2> QED BY <1>1
<1>3. q # <<>> => Head(q) = q[1]
  <2> HIDE DEF E
  <2> QED BY <1>1
<1>4. q # <<>> <=> Elements(q) # {}
  BY <1>2 DEF Elements
<1> QED BY <1>1, <1>2, <1>3, <1>4

\* Lists follow each other when each task of the first may precede each of the second.
LEMMA Joined ==
  ASSUME NEW p, NEW q, GoodList(p), GoodList(q),
         \A t \in Elements(p), u \in Elements(q) : Precedes(t, u)
  PROVE  GoodList(p \o q) /\ Elements(p \o q) = Elements(p) \cup Elements(q)
<1> DEFINE P == Elements(p)
           Q == Elements(q)
           j == p \o q
<1>1. /\ p \in Seq(P) /\ Len(p) \in Nat /\ DOMAIN p = 1..Len(p)
      /\ q \in Seq(Q) /\ Len(q) \in Nat /\ DOMAIN q = 1..Len(q)
  BY ListIndices
<1>2. /\ Len(j) = Len(p) + Len(q) /\ DOMAIN j = 1..Len(j)
      /\ \A i \in 1..Len(p) : j[i] = p[i]
      /\ \A i \in (Len(p) + 1)..Len(j) : j[i] = q[i - Len(p)]
      /\ j \in Seq(P \cup Q)
  <2> HIDE DEF P, Q
  <2> QED BY <1>1
<1>3. Elements(j) = P \cup Q
  <2>1. ASSUME NEW i \in DOMAIN j PROVE j[i] \in P \cup Q
    BY <1>1, <1>2 DEF Elements
  <2>2. ASSUME NEW i \in DOMAIN p PROVE p[i] \in Elements(j)
    BY <1>1, <1>2 DEF Elements
  <2>3. ASSUME NEW i \in DOMAIN q PROVE q[i] \in Elements(j)
    <3>1. i + Len(p) \in DOMAIN j /\ j[i + Len(p)] = q[i]
      BY <1>1, <1>2
    <3> QED BY <3>1 DEF Elements
  <2> QED BY <2>1, <2>2, <2>3 DEF Elements
<1>4. ASSUME NEW i \in DOMAIN j, NEW k \in DOMAIN j, i < k PROVE Precedes(j[i], j[k])
  <2>1. CASE k <= Len(p)
    BY <1>1, <1>2, <1>4, <2>1 DEF GoodList, Ordered
  <2>2. CASE i <= Len(p) /\ k > Len(p)
    BY <1>1, <1>2, <1>4, <2>2 DEF Elements
  <2>3. CASE i > Len(p)
    <3>1. /\ i - Len(p) \in DOMAIN q /\ k - Len(p) \in DOMAIN q /\ i - Len(p) < k - Len(p)
          /\ j[i] = q[i - Len(p)] /\ j[k] = q[k - Len(p)]
      BY <1>1, <1>2, <1>4, <2>3
    <3> QED BY <3>1 DEF GoodList, Ordered
  <2> QED BY <1>1, <1>2, <2>1, <2>2, <2>3
<1>5. \A t \in P \cup Q : GoodTask(t)
  BY DEF GoodList
<1> QED BY <1>2, <1>3, <1>4, <1>5 DEF GoodList, Ordered

\* What is left of a list from some index on.
LEMMA Suffix ==
  ASSUME NEW q, GoodList(q), NEW i \in 1..(Len(q) + 1), NEW p,
         p \in Seq(Elements(q)), Len(p) = Len(q) - i + 1,
         \A j \in 1..Len(p) : p[j] = q[i + j - 1]
  PROVE  GoodList(p) /\ Elements(p) = {q[j] : j \in i..Len(q)}
<1> DEFINE E == Elements(q)
<1>1. q \in Seq(E) /\ Len(q) \in Nat /\ DOMAIN q = 1..Len(q)
  BY ListIndices
<1>2. Len(p) \in Nat /\ DOMAIN p = 1..Len(p)
  <2> HIDE DEF E
  <2> QED BY <1>1
<1>3. Elements(p) = {q[j] : j \in i..Len(q)}
  <2>1. ASSUME NEW j \in DOMAIN p PROVE \E k \in i..Len(q) : p[j] = q[k]
    <3>1. i + j - 1 \in i..Len(q)
      BY <1>1, <1>2
    <3> QED BY <1>2, <3>1
  <2>2. ASSUME NEW j \in i..Len(q) PROVE \E k \in DOMAIN p : q[j] = p[k]
    <3>1. j - i + 1 \in DOMAIN p /\ i + (j - i + 1) - 1 = j
      BY <1>1, <1>2
    <3>2. p[j - i + 1] = q[j]
      BY <1>2, <3>1
    <3> QED BY <3>1, <3>2
  <2> HIDE DEF E
  <2>3. ASSUME NEW x \in Elements(p) PROVE x \in {q[j] : j \in i..Len(q)}
    <3>1. PICK j \in DOMAIN p : x = p[j]
      BY Zenon DEF Elements
    <3> QED BY <2>1, <3>1, Zenon
  <2>4. ASSUME NEW x \in {q[j] : j \in i..Len(q)} PROVE x \in Elements(p)
    <3>1. PICK j \in i..Len(q) : x = q[j]
      OBVIOUS
    <3> QED BY <2>2, <3>1, Zenon DEF Elements
  <2> QED BY <2>3, <2>4
<1>4. p \in Seq(Elements(p))
  <2>1. \A j \in 1..Len(p) : p[j] \in Elements(p)
    BY <1>2 DEF Elements
  <2> DEFINE N == Elements(p)
  <2> HIDE DEF E, N
  <2>2. p = [j \in 1..Len(p) |-> p[j]] /\ Len(p) \in Nat
    BY <1>1, <1>2
  <2>3. p \in Seq(N)
    BY <2>1, <2>2 DEF N
  <2> QED BY <2>3 DEF N
<1>5. ASSUME NEW j \in DOMAIN p, NEW k \in DOMAIN p, j < k PROVE Precedes(p[j], p[k])
  <2>1. /\ i + j - 1 \in DOMAIN q /\ i + k - 1 \in DOMAIN q /\ i + j - 1 < i + k - 1
        /\ p[j] = q[i + j - 1] /\ p[k] = q[i + k - 1]
    BY <1>1, <1>2, <1>5, SMTT(30)
  <2> QED BY <2>1 DEF GoodList, Ordered
<1>6. \A t \in Elements(p) : GoodTask(t)
  BY <1>1, <1>3 DEF GoodList, Elements
<1> QED BY <1>3, <1>4, <1>5, <1>6 DEF GoodList, Ordered

\* The ranks are bounded.
LEMMA RankOfHead ==
  ASSUME NEW t, GoodTask(t)
  PROVE  Rank(t) \in 0..10
BY DEF GoodTask, Rank, Years, Starting, Yearly, Plain, Task

\* No task precedes itself.
LEMMA Irreflexive == ASSUME NEW t, GoodTask(t) PROVE ~Precedes(t, t)
  BY RankOfHead DEF Precedes

\* Taking the first task leaves a good list, of tasks that come after it.
LEMMA HeadAndTail ==
  ASSUME NEW q, GoodList(q), q # <<>>
  PROVE  /\ Head(q) \in Elements(q) /\ GoodTask(Head(q))
         /\ GoodList(Tail(q)) /\ Elements(Tail(q)) = Elements(q) \ {Head(q)}
         /\ \A t \in Elements(Tail(q)) : Precedes(Head(q), t)
<1> DEFINE E == Elements(q)
<1>1. q \in Seq(E) /\ Len(q) \in Nat /\ DOMAIN q = 1..Len(q) /\ Len(q) > 0 /\ Head(q) = q[1]
  BY ListIndices
<1>2. Head(q) \in Elements(q) /\ GoodTask(Head(q))
  BY <1>1 DEF GoodList, Elements
<1>3. GoodList(Tail(q)) /\ Elements(Tail(q)) = {q[j] : j \in 2..Len(q)}
  <2>1. /\ Tail(q) \in Seq(E) /\ Len(Tail(q)) = Len(q) - 2 + 1
        /\ \A j \in 1..Len(Tail(q)) : Tail(q)[j] = q[2 + j - 1]
    <3> HIDE DEF E
    <3> QED BY <1>1
  <2>2. 2 \in 1..(Len(q) + 1)
    BY <1>1
  <2> QED BY <2>1, <2>2, Suffix, Zenon
<1>4. \A t \in Elements(Tail(q)) : Precedes(Head(q), t)
  BY <1>1, <1>3 DEF GoodList, Ordered
<1>5. Elements(q) = {Head(q)} \cup Elements(Tail(q))
  <2>1. \A j \in DOMAIN q : j = 1 \/ j \in 2..Len(q)
    BY <1>1
  <2>2. Elements(q) \subseteq {Head(q)} \cup Elements(Tail(q))
    BY <1>1, <1>3, <2>1 DEF Elements
  <2>3. Elements(Tail(q)) \subseteq Elements(q)
    <3>1. \A j \in 2..Len(q) : j \in DOMAIN q
      BY <1>1
    <3> QED BY <1>3, <3>1 DEF Elements
  <2> QED BY <1>2, <2>2, <2>3
<1>6. Head(q) \notin Elements(Tail(q))
  BY <1>2, <1>4, Irreflexive
<1> QED BY <1>2, <1>3, <1>4, <1>5, <1>6

\* Two tasks of one request in a list: one of them precedes the other.
LEMMA Distinct ==
  ASSUME NEW q, GoodList(q), NEW t \in Elements(q), NEW u \in Elements(q), t.r = u.r,
         Rank(t) = Rank(u)
  PROVE  t = u
<1>1. PICK i \in DOMAIN q : t = q[i]
  BY DEF Elements
<1>2. PICK j \in DOMAIN q : u = q[j]
  BY DEF Elements
<1>3. i \in Int /\ j \in Int /\ Rank(t) \in Int
  <2>1. GoodTask(t)
    BY DEF GoodList
  <2> QED BY <2>1, ListIndices, RankOfHead
<1>4. ~(i < j) /\ ~(j < i)
  BY <1>1, <1>2, <1>3 DEF GoodList, Ordered, Precedes
<1> QED BY <1>1, <1>2, <1>3, <1>4

\* A job that fails for a request, or finds it moved on, turns to the tasks of the others.
LEMMA Skipped ==
  ASSUME NEW q, GoodList(q), q # <<>>
  PROVE  LET p == Skip(q, Head(q).r) IN
         /\ GoodList(p) /\ Elements(p) \subseteq Elements(q) \ {Head(q)}
         /\ \A t \in Elements(q) : t.r # Head(q).r => t \in Elements(p)
<1> DEFINE r == Head(q).r
           others == {i \in DOMAIN q : q[i].r # r}
<1>1. Len(q) \in Nat /\ DOMAIN q = 1..Len(q) /\ Len(q) > 0 /\ Head(q) = q[1]
  BY ListIndices
<1>2. CASE others = {}
  <2>1. Skip(q, r) = <<>>
    BY <1>2 DEF Skip
  <2> QED BY <1>2, <2>1, EmptyList DEF Elements
<1>3. CASE others # {}
  <2> DEFINE m == Min(others)
  <2>1. m \in others /\ \A i \in others : m <= i
    <3>1. others \subseteq Nat /\ others # {}
      BY <1>1, <1>3
    <3> HIDE DEF others
    <3> QED BY <3>1, LeastNatural
  <2>2. Skip(q, r) = SubSeq(q, m, Len(q))
    BY <1>3 DEF Skip
  <2> HIDE DEF m
  <2>4. m \in 2..Len(q)
    BY <1>1, <2>1
  <2> DEFINE E == Elements(q)
             p == SubSeq(q, m, Len(q))
  <2>3. GoodList(Skip(q, r)) /\ Elements(Skip(q, r)) = {q[j] : j \in m..Len(q)}
    <3>1. q \in Seq(E)
      BY ListIndices
    <3>2. /\ p \in Seq(E) /\ Len(p) = Len(q) - m + 1
          /\ \A j \in 1..Len(p) : p[j] = q[m + j - 1]
      <4> HIDE DEF E
      <4> QED BY <1>1, <2>4, <3>1
    <3> HIDE DEF p
    <3>3. m \in 1..(Len(q) + 1)
      BY <1>1, <2>4
    <3>4. GoodList(p) /\ Elements(p) = {q[j] : j \in m..Len(q)}
      BY <3>2, <3>3, Suffix, Zenon
    <3> QED BY <2>2, <3>4 DEF p
  <2>5. ASSUME NEW j \in m..Len(q) PROVE q[j] \in Elements(q) \ {Head(q)}
    <3>1. j \in DOMAIN q /\ 1 \in DOMAIN q /\ 1 < j
      BY <1>1, <2>4
    <3>2. Precedes(q[1], q[j]) /\ GoodTask(q[1])
      BY <3>1 DEF GoodList, Ordered, Elements
    <3> QED BY <1>1, <3>1, <3>2, Irreflexive DEF Elements
  <2>6. ASSUME NEW j \in DOMAIN q, q[j].r # r PROVE j \in m..Len(q)
    BY <1>1, <2>1, <2>6
  <2> QED BY <2>3, <2>5, <2>6 DEF Elements
<1> QED BY <1>2, <1>3

-----------------------------------------------------------------------------
(***************************************************************************)
(* The lists the code begins with                                          *)
(***************************************************************************)
\* The tasks that are about the days of a year.
LEMMA YearlyTask ==
  ASSUME NEW do \in Yearly, NEW r \in Reqs, NEW y \in Years, NEW n \in 1..Full[r][y]
  PROVE  GoodTask(Task(do, r, y, n))
BY DEF GoodTask, Task

\* The tasks that are about a request as a whole.
LEMMA PlainTask ==
  ASSUME NEW do \in Plain, NEW r \in Reqs
  PROVE  GoodTask(Task(do, r, 0, 0))
BY DEF GoodTask, Task

\* Call makes a good list.
LEMMA CallList ==
  ASSUME NEW do \in Plain, NEW r \in Reqs
  PROVE  GoodList(Call(do, r)) /\ Elements(Call(do, r)) = {Task(do, r, 0, 0)}
BY PlainTask, SingleList DEF Call

\* Each makes a good list, with a task for each year that has days.
LEMMA EachList ==
  ASSUME NEW do \in Yearly, NEW r \in Reqs, NEW n, \A y \in Years : n[y] \in 0..Full[r][y]
  PROVE  /\ GoodList(Each(do, r, n))
         /\ Elements(Each(do, r, n)) = {Task(do, r, y, n[y]) : y \in {y \in Years : n[y] > 0}}
<1> DEFINE of(y) == IF n[y] > 0 THEN <<Task(do, r, y, n[y])>> ELSE <<>>
<1>1. \A y \in Years : Full[r][y] \in Nat
  BY FullType
<1>2. ASSUME NEW y \in Years
      PROVE  /\ GoodList(of(y))
             /\ Elements(of(y)) = IF n[y] > 0 THEN {Task(do, r, y, n[y])} ELSE {}
  <2>1. CASE n[y] > 0
    <3>1. n[y] \in 1..Full[r][y]
      BY <1>1, <2>1
    <3> QED BY <2>1, <3>1, YearlyTask, SingleList
  <2>2. CASE ~(n[y] > 0)
    BY <2>2, EmptyList
  <2> QED BY <2>1, <2>2
<1>3. 1 \in Years /\ 2 \in Years /\ \A y \in Years : y = 1 \/ y = 2
  BY DEF Years
<1>4. Precedes(Task(do, r, 1, n[1]), Task(do, r, 2, n[2]))
  BY DEF Precedes, Rank, Task, Yearly, Final, Starting
<1>5. \A t \in Elements(of(1)), u \in Elements(of(2)) : Precedes(t, u)
  BY <1>2, <1>3, <1>4
<1>6. /\ GoodList(of(1) \o of(2))
      /\ Elements(of(1) \o of(2)) = Elements(of(1)) \cup Elements(of(2))
  <2> HIDE DEF of
  <2> QED BY <1>2, <1>3, <1>5, Joined
<1>7. Each(do, r, n) = of(1) \o of(2)
  BY DEF Each
<1> HIDE DEF of
<1>8. Elements(Each(do, r, n)) = {Task(do, r, y, n[y]) : y \in {y \in Years : n[y] > 0}}
  BY <1>2, <1>3, <1>6, <1>7
<1> QED BY <1>6, <1>7, <1>8

\* So do the scheduled jobs, over the requests that are due.
LEMMA CallsList ==
  ASSUME NEW do \in {"activate", "complete"}, NEW S \in SUBSET Reqs
  PROVE  /\ GoodList(Calls(do, S))
         /\ \A t \in Elements(Calls(do, S)) : \E r \in S : t = Task(do, r, 0, 0)
<1> DEFINE q == Calls(do, S)
           n == Cardinality(S)
           f == SetToSeq(S)
<1>1. IsFiniteSet(S) /\ n \in Nat /\ ExistsBijection(1..n, S)
  BY LeaveAssumption, FS_Subset, FS_CardinalityType
<1>2. PICK g \in [1..n -> S] : IsInjective(g)
  BY <1>1 DEF ExistsBijection, Bijection, Injection, IsInjective
<1>3. f \in [1..n -> S] /\ IsInjective(f)
  BY <1>2 DEF SetToSeq
<1>4. \A i \in 1..n : f[i] \in S
  BY <1>3
<1>5. q = [i \in 1..n |-> Task(do, f[i], 0, 0)]
  BY DEF Calls
<1>6. DOMAIN q = 1..n /\ \A i \in 1..n : q[i] = Task(do, f[i], 0, 0)
  BY <1>5
<1>7. \A t \in Elements(q) : \E r \in S : t = Task(do, r, 0, 0)
  BY <1>4, <1>6 DEF Elements
<1>8. \A t \in Elements(q) : GoodTask(t)
  BY <1>7, PlainTask DEF Plain
<1>9. ASSUME NEW i \in DOMAIN q, NEW j \in DOMAIN q, i < j PROVE Precedes(q[i], q[j])
  <2>1. f[i] # f[j]
    BY <1>3, <1>6, <1>9 DEF IsInjective
  <2> QED BY <1>6, <2>1 DEF Precedes, Task
<1>10. q \in Seq(Elements(q))
  <2>1. \A i \in 1..n : q[i] \in Elements(q)
    BY <1>6 DEF Elements
  <2>2. q = [i \in 1..n |-> q[i]]
    BY <1>5, <1>6
  <2> DEFINE E == Elements(q)
  <2> HIDE DEF q, E, n
  <2>3. q \in Seq(E)
    BY <1>1, <2>1, <2>2 DEF E
  <2> QED BY <2>3 DEF E
<1> QED BY <1>7, <1>8, <1>9, <1>10 DEF GoodList, Ordered

-----------------------------------------------------------------------------
(***************************************************************************)
(* A step of a call, seen as a change of its set of tasks                  *)
(***************************************************************************)
\* The call w lets go of the tasks old and takes on the tasks new, all of s.
Turned(w, s, old, new) ==
  /\ Tasks(w)' = (Tasks(w) \ old) \cup new
  /\ \A v \in Servers \ {w} : Tasks(v)' = Tasks(v)
  /\ old \subseteq Tasks(w)
  /\ \A t \in old \cup new : t.r = s

\* The tasks of a call are the elements of its list.
LEMMA TasksAreElements == \A w : Tasks(w) = Elements(todo[w]) /\ Tasks(w)' = Elements(todo'[w])
  BY DEF Tasks, Elements

\* What any call has to do is a good task.
LEMMA TaskType ==
  ASSUME Lists, NEW t \in Open
  PROVE  GoodTask(t)
BY TasksAreElements DEF Lists, Open, GoodList

\* A list replaced by a good one.
LEMMA ListReplaced ==
  ASSUME Lists, NEW w \in Servers, NEW q, GoodList(q),
         \A t \in Elements(q) : t.do \in Sub => w \in Workers,
         w \in Workers => \A t, u \in Elements(q) : t.r = u.r,
         todo' = [todo EXCEPT ![w] = q]
  PROVE  /\ Lists' /\ Tasks(w)' = Elements(q)
         /\ \A v \in Servers \ {w} : Tasks(v)' = Tasks(v)
<1>1. /\ todo'[w] = q /\ \A v \in Servers \ {w} : todo'[v] = todo[v]
      /\ todo' = [v \in Servers |-> todo'[v]]
  BY DEF Lists
<1>2. Tasks(w)' = Elements(q) /\ \A v \in Servers \ {w} : Tasks(v)' = Tasks(v)
  BY <1>1, TasksAreElements
<1>3. \A v \in Servers : GoodList(todo'[v])
  BY <1>1 DEF Lists
<1>4. /\ \A v \in Servers : \A t \in Tasks(v)' : t.do \in Sub => v \in Workers
      /\ \A v \in Workers : \A t, u \in Tasks(v)' : t.r = u.r
  BY <1>2 DEF Lists, Servers
<1> QED BY <1>1, <1>2, <1>3, <1>4 DEF Lists

\* A call begins.
LEMMA ListBegun ==
  ASSUME Lists, NEW w \in Servers, NEW q, GoodList(q), NEW s,
         \A t \in Elements(q) : t.r = s /\ (t.do \in Sub => w \in Workers),
         todo[w] = <<>>, todo' = [todo EXCEPT ![w] = q]
  PROVE  Lists' /\ Turned(w, s, {}, Elements(q))
<1>1. /\ Lists' /\ Tasks(w)' = Elements(q)
      /\ \A v \in Servers \ {w} : Tasks(v)' = Tasks(v)
  BY ListReplaced
<1>2. Tasks(w) = {}
  BY TasksAreElements, EmptyList
<1> QED BY <1>1, <1>2 DEF Turned

\* The first task gives way to others of its request, which take its place.
LEMMA ListContinued ==
  ASSUME Lists, NEW w \in Servers, todo[w] # <<>>, NEW t, t = Head(todo[w]),
         NEW new, GoodList(new),
         \A u \in Elements(new) :
           /\ u.r = t.r
           /\ u.do \in Sub => t.do \in Sub
           /\ \/ t.do \in Final
              \/ Rank(u) = Rank(t) /\ u.do \notin Final /\ (u.do \in Starting => t.do \in Starting),
         Then(w, new)
  PROVE  Lists' /\ Turned(w, t.r, {t}, Elements(new))
<1> DEFINE q == new \o Tail(todo[w])
<1>1. /\ t \in Elements(todo[w]) /\ GoodTask(t)
      /\ GoodList(Tail(todo[w])) /\ Elements(Tail(todo[w])) = Elements(todo[w]) \ {t}
      /\ \A u \in Elements(Tail(todo[w])) : Precedes(t, u)
  BY HeadAndTail DEF Lists
<1>2. \A u \in Elements(new), v \in Elements(Tail(todo[w])) : Precedes(u, v)
  BY <1>1 DEF Precedes
<1>3. GoodList(q) /\ Elements(q) = Elements(new) \cup (Tasks(w) \ {t})
  BY <1>1, <1>2, Joined, TasksAreElements
<1>4. todo' = [todo EXCEPT ![w] = q]
  BY DEF Then
<1>5. /\ \A u \in Elements(q) : u.do \in Sub => w \in Workers
      /\ w \in Workers => \A u, v \in Elements(q) : u.r = v.r
  <2>1. t \in Tasks(w)
    BY <1>1, TasksAreElements
  <2> HIDE DEF q
  <2> QED BY <1>3, <2>1 DEF Lists
<1>6. /\ Lists' /\ Tasks(w)' = Elements(q)
      /\ \A v \in Servers \ {w} : Tasks(v)' = Tasks(v)
  <2> HIDE DEF q
  <2> QED BY <1>3, <1>4, <1>5, ListReplaced
<1> QED BY <1>1, <1>3, <1>6, TasksAreElements DEF Turned

\* A step that only takes the first task away.
LEMMA ListShortened ==
  ASSUME Lists, NEW w \in Servers, todo[w] # <<>>, Then(w, <<>>)
  PROVE  Lists' /\ Turned(w, Head(todo[w]).r, {Head(todo[w])}, {})
<1>1. Elements(<<>>) = {} /\ GoodList(<<>>)
  BY EmptyList
<1> QED BY <1>1, ListContinued

\* One that turns it into another.
LEMMA ListRenewed ==
  ASSUME Lists, NEW w \in Servers, todo[w] # <<>>, NEW t, t = Head(todo[w]),
         NEW u, GoodTask(u), u.r = t.r, u.do \in Sub => t.do \in Sub,
         \/ t.do \in Final
         \/ Rank(u) = Rank(t) /\ u.do \notin Final /\ (u.do \in Starting => t.do \in Starting),
         Then(w, <<u>>)
  PROVE  Lists' /\ Turned(w, t.r, {t}, {u})
<1>1. Elements(<<u>>) = {u} /\ GoodList(<<u>>)
  BY SingleList
<1>2. \A v \in Elements(<<u>>) : v = u
  BY <1>1
<1>3. Lists' /\ Turned(w, t.r, {t}, Elements(<<u>>))
  BY <1>1, <1>2, ListContinued
<1> QED BY <1>1, <1>3

\* Steps that leave the calls alone.
LEMMA ServersUnchanged ==
  ASSUME UNCHANGED todo
  PROVE  Lists => Lists' /\ Open' = Open /\ \A w : Tasks(w)' = Tasks(w)
<1>1. \A w : Tasks(w)' = Tasks(w)
  BY TasksAreElements
<1> QED BY <1>1 DEF Lists, Open

-----------------------------------------------------------------------------
\* What a turn of a call does to the tasks under way.
LEMMA OpenTurned ==
  ASSUME NEW w \in Servers, NEW s, NEW old, NEW new, Turned(w, s, old, new), NEW t
  PROVE  /\ t \in Open' => t \in Open \/ t \in new
         /\ t \in Open => t \in Open' \/ t \in old
         /\ t \in new => t \in Open'
BY DEF Turned, Open

\* It leaves the tasks of the other requests alone, and who has them.
LEMMA OthersTasks ==
  ASSUME NEW w \in Servers, NEW s, NEW old, NEW new, Turned(w, s, old, new),
         NEW r, r # s, NEW sorts
  PROVE  Mine(r, sorts)' = Mine(r, sorts) /\ (One(r, sorts) => One(r, sorts)')
<1>1. Mine(r, sorts)' = Mine(r, sorts)
  <2>1. ASSUME NEW t, t.r = r PROVE t \in Open' <=> t \in Open
    <3>1. t \notin old /\ t \notin new
      BY <2>1 DEF Turned
    <3> QED BY <3>1, OpenTurned
  <2> QED BY <2>1 DEF Mine
<1>2. \A v \in Servers : Mine(r, sorts) \cap Tasks(v)' = Mine(r, sorts) \cap Tasks(v)
  BY DEF Turned, Mine
<1>3. ASSUME One(r, sorts) PROVE One(r, sorts)'
  BY <1>1, <1>2, <1>3 DEF One
<1> QED BY <1>1, <1>3

\* Of its own request it takes some and puts others in, and keeps them in one call.
LEMMA OwnTasks ==
  ASSUME NEW w \in Servers, NEW s, NEW old, NEW new, Turned(w, s, old, new),
         NEW sorts, One(s, sorts),
         (\E t \in new : t.do \in sorts) => Mine(s, sorts) \subseteq Tasks(w)
  PROVE  /\ Mine(s, sorts)' = (Mine(s, sorts) \ old) \cup {t \in new : t.do \in sorts}
         /\ One(s, sorts)'
<1> DEFINE N == {t \in new : t.do \in sorts}
           M == Mine(s, sorts)
<1>1. Mine(s, sorts)' \subseteq (M \ old) \cup N
  <2> SUFFICES ASSUME NEW t \in Mine(s, sorts)', t \notin new PROVE t \in M /\ t \notin old
    BY DEF Mine
  <2>1. t \in Open /\ t \in M
    BY OpenTurned DEF Mine
  <2>2. PICK v \in Servers : t \in Tasks(v)'
    BY DEF Mine, Open
  <2>3. CASE v = w
    BY <2>1, <2>2, <2>3 DEF Turned
  <2>4. CASE v # w
    <3>1. t \in Tasks(v)
      BY <2>2, <2>4 DEF Turned
    <3>2. t \in old => t \in Tasks(w)
      BY DEF Turned
    <3> QED BY <2>1, <2>4, <3>1, <3>2 DEF One
  <2> QED BY <2>3, <2>4
<1>2. (M \ old) \cup N \subseteq Mine(s, sorts)'
  <2>1. ASSUME NEW t \in M \ old PROVE t \in Mine(s, sorts)'
    BY OpenTurned DEF Mine
  <2>2. ASSUME NEW t \in N PROVE t \in Mine(s, sorts)'
    BY OpenTurned DEF Mine, Turned
  <2> QED BY <2>1, <2>2
<1>3. ASSUME NEW u \in Servers, NEW v \in Servers,
             NEW t \in (M \ old) \cup N, t \in Tasks(u)',
             NEW x \in (M \ old) \cup N, x \in Tasks(v)'
      PROVE  u = v
  <2>1. CASE N # {}
    <3>1. \A y \in Servers : y # w => Tasks(y)' \cap M = {}
      BY <2>1 DEF Turned, One
    <3>2. \A y \in Servers : y # w => Tasks(y)' \cap N = {}
      <4> SUFFICES ASSUME NEW y \in Servers, y # w, NEW z \in N, z \in Tasks(y) PROVE FALSE
        BY DEF Turned
      <4>1. z \in M
        BY DEF Mine, Open, Turned
      <4> QED BY <2>1, <3>1, <4>1 DEF Turned
    <3> QED BY <1>3, <3>1, <3>2
  <2>2. CASE N = {}
    <3>1. \A y \in Servers : \A z \in M \ old : z \in Tasks(y)' => z \in Tasks(y)
      <4> SUFFICES ASSUME NEW y \in Servers, NEW z \in M \ old, z \in Tasks(y)',
                          z \notin Tasks(y)
                   PROVE  FALSE
        OBVIOUS
      <4>1. y = w /\ z \in new
        BY DEF Turned
      <4>2. z \in N
        BY <4>1 DEF Mine
      <4> QED BY <2>2, <4>2
    <3>2. t \in M /\ t \in Tasks(u) /\ x \in M /\ x \in Tasks(v)
      BY <1>3, <2>2, <3>1
    <3> QED BY <3>2 DEF One
  <2> QED BY <2>1, <2>2
<1> QED BY <1>1, <1>2, <1>3 DEF One

\* What One says of the first task of a call.
LEMMA HeadOfMine ==
  ASSUME Lists, NEW w \in Servers, todo[w] # <<>>, NEW t, t = Head(todo[w]),
         NEW sorts, t.do \in sorts
  PROVE  /\ t \in Mine(t.r, sorts) /\ t \in Tasks(w) /\ GoodTask(t)
         /\ One(t.r, sorts) =>
              /\ Mine(t.r, sorts) \subseteq Tasks(w)
              /\ \A u \in Mine(t.r, sorts) \ {t} :
                   Rank(t) < Rank(u) /\ t.do \notin Final /\ (t.do \in Starting => u.do = "complete")
<1>1. /\ t \in Elements(todo[w]) /\ GoodTask(t)
      /\ Elements(Tail(todo[w])) = Elements(todo[w]) \ {t}
      /\ \A u \in Elements(Tail(todo[w])) : Precedes(t, u)
  BY HeadAndTail DEF Lists
<1>2. t \in Tasks(w) /\ t \in Mine(t.r, sorts)
  BY <1>1, TasksAreElements DEF Mine, Open
<1>3. ASSUME One(t.r, sorts) PROVE Mine(t.r, sorts) \subseteq Tasks(w)
  BY <1>2, <1>3 DEF One, Mine, Open
<1>4. ASSUME NEW u \in Mine(t.r, sorts) \ {t}, u \in Tasks(w)
      PROVE  Rank(t) < Rank(u) /\ t.do \notin Final /\ (t.do \in Starting => u.do = "complete")
  BY <1>1, <1>4, TasksAreElements DEF Mine, Precedes
<1> QED BY <1>1, <1>2, <1>3, <1>4

-----------------------------------------------------------------------------
(***************************************************************************)
(* What each step of a call does to the tasks                              *)
(***************************************************************************)
\* The task a call does first.
LEMMA DoingTask ==
  ASSUME Lists, NEW w \in Servers, NEW do, Doing(do, w)
  PROVE  /\ todo[w] # <<>> /\ Head(todo[w]) \in Tasks(w) /\ Head(todo[w]) \in Open
         /\ GoodTask(Head(todo[w])) /\ Head(todo[w]).do = do
         /\ do \in Sub => w \in Workers
BY HeadAndTail, TasksAreElements DEF Lists, Doing, Open

\* tryReserve took the days: the row of the ledger is next.
LEMMA GateKept ==
  ASSUME Lists, NEW w \in Servers, Gate(w), NEW t, t = Head(todo[w]), Covers(t.y, t.n)
  PROVE  /\ Lists' /\ Turned(w, t.r, {t}, {Task("row", t.r, t.y, t.n)})
         /\ Inc(t.y, t.n, 0)
<1>1. /\ todo[w] # <<>> /\ GoodTask(t) /\ t.do = "gate"
  BY DoingTask DEF Gate
<1> DEFINE u == Task("row", t.r, t.y, t.n)
<1>2. u = [t EXCEPT !.do = "row"] /\ u.r = t.r /\ u.do = "row" /\ u.y = t.y
  BY <1>1 DEF GoodTask, Task
<1>3. GoodTask(u)
  <2>1. "row" \in Yearly
    BY DEF Yearly
  <2>2. t.r \in Reqs /\ t.y \in Years /\ t.n \in 1..Full[t.r][t.y]
    BY <1>1 DEF GoodTask, Yearly, Plain
  <2> QED BY <2>1, <2>2, YearlyTask
<1>4. Rank(u) = Rank(t)
  BY <1>1, <1>2 DEF Rank, Starting
<1>5. Then(w, <<u>>) /\ Inc(t.y, t.n, 0)
  BY <1>2 DEF Gate
<1> HIDE DEF u
<1>6. Lists' /\ Turned(w, t.r, {t}, {u})
  BY <1>1, <1>2, <1>3, <1>4, <1>5, ListRenewed DEF Sub, Final, Starting
<1> QED BY <1>5, <1>6 DEF u

\* The years before y, given back.
Undoing(r, y) == {Task("undo", r, z, Full[r][z]) : z \in {z \in Years : z < y /\ Full[r][z] > 0}}

\* tryReserve refused: the years before are given back, then the request is deleted.
LEMMA GateLost ==
  ASSUME Lists, NEW w \in Servers, Gate(w), NEW t, t = Head(todo[w]), ~Covers(t.y, t.n)
  PROVE  /\ Lists'
         /\ Turned(w, t.r, Tasks(w), Undoing(t.r, t.y) \cup {Task("drop", t.r, 0, 0)})
         /\ UNCHANGED book
<1>1. todo[w] # <<>> /\ GoodTask(t) /\ t.do = "gate" /\ w \in Workers /\ t \in Tasks(w)
  BY DoingTask DEF Gate, Sub
<1> DEFINE n == [z \in Years |-> IF z < t.y THEN Full[t.r][z] ELSE 0]
           p == Each("undo", t.r, n)
           d == Call("drop", t.r)
<1>2. t.r \in Reqs /\ t.y \in Years
  BY <1>1 DEF GoodTask, Yearly, Plain
<1>3. \A z \in Years : n[z] \in 0..Full[t.r][z]
  BY <1>2, FullType
<1>4. GoodList(p) /\ Elements(p) = {Task("undo", t.r, z, n[z]) : z \in {z \in Years : n[z] > 0}}
  BY <1>2, <1>3, EachList, SMTT(30) DEF Yearly
<1>5. {Task("undo", t.r, z, n[z]) : z \in {z \in Years : n[z] > 0}} = Undoing(t.r, t.y)
  <2>1. \A z \in Years : /\ n[z] > 0 <=> z < t.y /\ Full[t.r][z] > 0
                         /\ n[z] > 0 => n[z] = Full[t.r][z]
    BY <1>2, FullType
  <2> HIDE DEF n
  <2> QED BY <2>1 DEF Undoing
<1>6. GoodList(d) /\ Elements(d) = {Task("drop", t.r, 0, 0)}
  BY <1>2, CallList DEF Plain
<1>7. \A u \in Undoing(t.r, t.y), v \in Elements(d) : Precedes(u, v)
  BY <1>6 DEF Undoing, Precedes, Rank, Task, Final, Starting, Years
<1>8. /\ todo' = [todo EXCEPT ![w] = p \o d] /\ UNCHANGED book
  BY DEF Gate
<1> HIDE DEF p, d, n
<1>9. GoodList(p \o d) /\ Elements(p \o d) = Undoing(t.r, t.y) \cup {Task("drop", t.r, 0, 0)}
  BY <1>4, <1>5, <1>6, <1>7, Joined
<1>10. \A u \in Undoing(t.r, t.y) \cup {Task("drop", t.r, 0, 0)} : u.r = t.r
  BY DEF Undoing, Task
<1>11. /\ Lists' /\ Tasks(w)' = Elements(p \o d)
       /\ \A v \in Servers \ {w} : Tasks(v)' = Tasks(v)
  BY <1>1, <1>8, <1>9, <1>10, ListReplaced
<1>12. \A u \in Tasks(w) : u.r = t.r
  BY <1>1 DEF Lists
<1> QED BY <1>8, <1>9, <1>10, <1>11, <1>12 DEF Turned

\* The row of a day that is in the ledger is not entered again, so that the
\* way from "row" to "undo" is never taken.
LEMMA RowStep ==
  ASSUME Lists, Fresh, NEW w \in Servers, ReserveRow(w), NEW t, t = Head(todo[w])
  PROVE  /\ Lists' /\ Turned(w, t.r, {t}, {})
         /\ ledger[t.r]["reserve"][t.y] = 0
         /\ ledger' = [ledger EXCEPT ![t.r]["reserve"][t.y] = t.n]
<1>1. todo[w] # <<>> /\ GoodTask(t) /\ t.do = "row" /\ t \in Open
  BY DoingTask DEF ReserveRow, Insert
<1>2. t.r \in Reqs /\ t \in Mine(t.r, {"gate", "row"})
  BY <1>1 DEF GoodTask, Mine
<1>3. ledger[t.r]["reserve"][t.y] = 0
  BY <1>2 DEF Fresh
<1>4. Then(w, <<>>) /\ ledger' = [ledger EXCEPT ![t.r]["reserve"][t.y] = t.n]
  BY <1>3 DEF ReserveRow, Insert
<1> QED BY <1>1, <1>3, <1>4, ListShortened

\* The task that follows another, for the same request, year and days.
LEMMA Renamed ==
  ASSUME NEW do, NEW r, NEW y, NEW n, NEW next, NEW t, t = Task(do, r, y, n)
  PROVE  [t EXCEPT !.do = next] = Task(next, r, y, n)
BY DEF Task

LeadsTo(do, next) ==
  \/ do = "release" /\ next = "undo"
  \/ do = "consume" /\ next = "spend"

\* A row that is new is followed by its change of the cache.
Entered(t, w, do, next) ==
  /\ Lists' /\ todo[w] # <<>> /\ GoodTask(t) /\ t.do = do
  /\ ledger[t.r][do][t.y] = 0 =>
       /\ Turned(w, t.r, {t}, {Task(next, t.r, t.y, t.n)})
       /\ ledger' = [ledger EXCEPT ![t.r][do][t.y] = t.n]
  /\ ledger[t.r][do][t.y] # 0 =>
       Turned(w, t.r, {t}, {}) /\ ledger' = ledger

\* The ledger insert of a release or of a consumption, new or refused as a duplicate.
LEMMA InsertStep ==
  ASSUME Lists, NEW w \in Servers, NEW do, NEW next, LeadsTo(do, next),
         Insert(w, do, do, next, ""), NEW t, t = Head(todo[w])
  PROVE  Entered(t, w, do, next)
<1>1. todo[w] # <<>> /\ GoodTask(t) /\ t.do = do
  BY DoingTask DEF Insert
<1>0. \/ do = "release" /\ next = "undo"
      \/ do = "consume" /\ next = "spend"
  BY DEF LeadsTo
<1> DEFINE u == Task(next, t.r, t.y, t.n)
<1>2. /\ t = Task(do, t.r, t.y, t.n) /\ t.r \in Reqs /\ t.y \in Years
      /\ t.n \in 1..Full[t.r][t.y]
  BY <1>0, <1>1 DEF GoodTask, Yearly, Plain
<1>3. u = [t EXCEPT !.do = next] /\ u.r = t.r /\ u.do = next /\ u.y = t.y
  <2>1. [t EXCEPT !.do = next] = u
    <3> DEFINE r == t.r
               y == t.y
               n == t.n
    <3>1. t = Task(do, r, y, n) /\ u = Task(next, r, y, n)
      BY <1>2
    <3> HIDE DEF r, y, n, u
    <3>2. [t EXCEPT !.do = next] = Task(next, r, y, n)
      BY ONLY <3>1, Renamed
    <3> QED BY <3>1, <3>2
  <2> QED BY <2>1 DEF Task
<1>4. GoodTask(u)
  <2>1. next \in Yearly
    BY <1>0 DEF Yearly
  <2> QED BY <1>2, <2>1, YearlyTask
<1>5. Rank(u) = Rank(t)
  BY <1>0, <1>1, <1>3 DEF Rank, Starting
<1> HIDE DEF u
<1>6. CASE ledger[t.r][do][t.y] = 0
  <2>1. Then(w, <<u>>) /\ ledger' = [ledger EXCEPT ![t.r][do][t.y] = t.n]
    BY <1>0, <1>3, <1>6 DEF Insert
  <2>2. Lists' /\ Turned(w, t.r, {t}, {u})
    BY <1>0, <1>1, <1>3, <1>4, <1>5, <2>1, ListRenewed DEF Sub, Final, Starting
  <2> QED BY <1>1, <1>6, <2>1, <2>2 DEF u, Entered
<1>7. CASE ledger[t.r][do][t.y] # 0
  <2>1. Then(w, <<>>) /\ ledger' = ledger
    BY <1>7 DEF Insert
  <2> QED BY <1>1, <1>7, <2>1, ListShortened DEF Entered
<1> QED BY <1>6, <1>7

\* releaseForRequest of one year.
LEMMA ReleaseStep ==
  ASSUME Lists, NEW w \in Servers, Release(w), NEW t, t = Head(todo[w])
  PROVE  Entered(t, w, "release", "undo")
BY InsertStep DEF Release, LeadsTo

\* consumeForRequest of one year.
LEMMA ConsumeStep ==
  ASSUME Lists, NEW w \in Servers, Consume(w), NEW t, t = Head(todo[w])
  PROVE  Entered(t, w, "consume", "spend")
BY InsertStep DEF Consume, LeadsTo

\* A task without a successor.
LEMMA TakenStep ==
  ASSUME Lists, NEW w \in Servers, NEW do, Doing(do, w), Then(w, <<>>)
  PROVE  Lists' /\ Turned(w, Head(todo[w]).r, {Head(todo[w])}, {})
BY DoingTask, ListShortened

\* Giving back, or consuming, what a request asked for.
Entries(do, r, n) == {Task(do, r, y, n[y]) : y \in {y \in Years : n[y] > 0}}

\* submit begins.
LEMMA SubmitStep ==
  ASSUME Lists, NEW w \in Workers, NEW r \in Reqs, Submit(w, r)
  PROVE  Lists' /\ Turned(w, r, {}, {Task("create", r, 0, 0)})
<1>1. GoodList(Call("create", r)) /\ Elements(Call("create", r)) = {Task("create", r, 0, 0)}
  BY CallList DEF Plain
<1>2. \A t \in Elements(Call("create", r)) : t.r = r
  BY <1>1 DEF Task
<1>3. todo[w] = <<>> /\ todo' = [todo EXCEPT ![w] = Call("create", r)]
  BY DEF Submit, Begin
<1> QED BY <1>1, <1>2, <1>3, ListBegun DEF Servers

\* submit inserts the document and goes on with the years and the recheck.
LEMMA CreateStep ==
  ASSUME Lists, NEW w \in Servers, Create(w), NEW t, t = Head(todo[w])
  PROVE  /\ Lists' /\ w \in Workers
         /\ Turned(w, t.r, {t}, Entries("gate", t.r, Full[t.r]) \cup {Task("recheck", t.r, 0, 0)})
<1>1. todo[w] # <<>> /\ GoodTask(t) /\ t.do = "create" /\ w \in Workers
  BY DoingTask DEF Create, Sub
<1>2. t.r \in Reqs
  BY <1>1 DEF GoodTask
<1> DEFINE p == Each("gate", t.r, Full[t.r])
           q == Call("recheck", t.r)
<1>3. GoodList(p) /\ Elements(p) = Entries("gate", t.r, Full[t.r])
  BY <1>2, FullType, EachList DEF Entries, Yearly
<1>4. GoodList(q) /\ Elements(q) = {Task("recheck", t.r, 0, 0)}
  BY <1>2, CallList DEF Plain
<1>5. \A u \in Elements(p), v \in Elements(q) : Precedes(u, v)
  BY <1>3, <1>4 DEF Entries, Precedes, Rank, Task, Final, Starting, Years
<1>6. Then(w, p \o q)
  BY DEF Create
<1> HIDE DEF p, q
<1>7. GoodList(p \o q) /\ Elements(p \o q) = Elements(p) \cup Elements(q)
  BY <1>3, <1>4, <1>5, Joined
<1>8. \A u \in Elements(p \o q) : u.r = t.r
  BY <1>3, <1>4, <1>7 DEF Entries, Task
<1>9. Lists' /\ Turned(w, t.r, {t}, Elements(p \o q))
  BY <1>1, <1>6, <1>7, <1>8, ListContinued DEF Sub, Final
<1> QED BY <1>1, <1>3, <1>4, <1>7, <1>9

\* The recheck passes, or has the days given back and the request rejected.
LEMMA RecheckStep ==
  ASSUME Lists, NEW w \in Servers, Recheck(w), NEW t, t = Head(todo[w])
  PROVE  /\ Lists' /\ w \in Workers
         /\ \/ Turned(w, t.r, {t}, {})
            \/ Turned(w, t.r, {t}, Entries("release", t.r, Full[t.r]) \cup {Task("lose", t.r, 0, 0)})
<1>1. todo[w] # <<>> /\ GoodTask(t) /\ t.do = "recheck" /\ w \in Workers
  BY DoingTask DEF Recheck, Sub
<1>2. t.r \in Reqs
  BY <1>1 DEF GoodTask
<1> DEFINE p == Each("release", t.r, Full[t.r])
           q == Call("lose", t.r)
<1>3. GoodList(p) /\ Elements(p) = Entries("release", t.r, Full[t.r])
  BY <1>2, FullType, EachList DEF Entries, Yearly
<1>4. GoodList(q) /\ Elements(q) = {Task("lose", t.r, 0, 0)}
  BY <1>2, CallList DEF Plain
<1>5. \A u \in Elements(p), v \in Elements(q) : Precedes(u, v)
  BY <1>3, <1>4 DEF Entries, Precedes, Rank, Task, Final, Starting, Years
<1>6. Then(w, p \o q) \/ Then(w, <<>>)
  BY DEF Recheck
<1> HIDE DEF p, q
<1>7. GoodList(p \o q) /\ Elements(p \o q) = Elements(p) \cup Elements(q)
  BY <1>3, <1>4, <1>5, Joined
<1>8. \A u \in Elements(p \o q) : u.r = t.r
  BY <1>3, <1>4, <1>7 DEF Entries, Task
<1>9. CASE Then(w, p \o q)
  <2>1. Lists' /\ Turned(w, t.r, {t}, Elements(p \o q))
    BY <1>1, <1>7, <1>8, <1>9, ListContinued DEF Sub, Final
  <2> QED BY <1>1, <1>3, <1>4, <1>7, <2>1
<1>10. CASE Then(w, <<>>)
  BY <1>1, <1>10, ListShortened
<1> QED BY <1>6, <1>9, <1>10

\* decide and cancel, and what follows the status they write.
LEMMA MoveStep ==
  ASSUME Lists, NEW w \in Workers, NEW r \in Reqs, NEW status, Move(w, r, status)
  PROVE  /\ Lists'
         /\ Turned(w, r, {},
              CASE status \in {"rejected", "cancelled"} -> Entries("release", r, Full[r])
                [] status = "approved"                  -> {Task("catchUp", r, 0, 0)}
                [] OTHER                                -> {})
<1> DEFINE q == After(r, status)
           E == CASE status \in {"rejected", "cancelled"} -> Entries("release", r, Full[r])
                  [] status = "approved"                  -> {Task("catchUp", r, 0, 0)}
                  [] OTHER                                -> {}
<1>1. GoodList(q) /\ Elements(q) = E
  <2>1. CASE status \in {"rejected", "cancelled"}
    <3>1. q = Each("release", r, Full[r]) /\ E = Entries("release", r, Full[r])
      BY <2>1 DEF After
    <3>2. \A y \in Years : Full[r][y] \in 0..Full[r][y]
      BY FullType
    <3> HIDE DEF q, E
    <3> QED BY <3>1, <3>2, EachList DEF Entries, Yearly
  <2>2. CASE status = "approved"
    <3>1. q = Call("catchUp", r) /\ E = {Task("catchUp", r, 0, 0)}
      BY <2>2 DEF After
    <3> QED BY <3>1, CallList DEF Plain
  <2>3. CASE status \notin {"rejected", "cancelled", "approved"}
    <3>1. q = <<>> /\ E = {}
      BY <2>3 DEF After
    <3> QED BY <3>1, EmptyList
  <2> QED BY <2>1, <2>2, <2>3
<1>2. \A t \in E : t.r = r /\ t.do \notin Sub
  BY DEF Entries, Task, Sub
<1>3. todo[w] = <<>> /\ todo' = [todo EXCEPT ![w] = q]
  BY DEF Move, Begin
<1> HIDE DEF q, E
<1>4. Lists' /\ Turned(w, r, {}, E)
  BY <1>1, <1>2, <1>3, ListBegun DEF Servers
<1> QED BY <1>4 DEF E

\* The days of a leave that ends on day d, and those after it.
Taken(r, d) == Days(Start[r], d - 1)
Left(r, d) == [y \in Years |-> Full[r][y] - Taken(r, d)[y]]
Closing(r, d) ==
  Entries("consume", r, Taken(r, d)) \cup Entries("release", r, Left(r, d))

\* The days before the return and those after it make up the request, year by year.
LEMMA TakenAndLeft ==
  ASSUME NEW r \in Reqs, NEW d \in Start[r]..(End[r] + 1), NEW y \in Years
  PROVE  /\ Taken(r, d)[y] \in 0..Full[r][y] /\ Left(r, d)[y] \in 0..Full[r][y]
         /\ Left(r, d)[y] = Full[r][y] - Taken(r, d)[y]
<1>1. Start[r] \in Nat /\ End[r] \in Nat
  BY LeaveAssumption
<1>2. Full[r] = Days(Start[r], End[r]) /\ Full[r][y] \in Nat
  BY FullType DEF Full
<1>3. d - 1 \in Int /\ d - 1 <= End[r]
  BY <1>1
<1>4. Taken(r, d)[y] \in Nat /\ Taken(r, d)[y] <= Full[r][y]
  <2> DEFINE c == d - 1
  <2>1. Start[r] \in Int /\ End[r] \in Int /\ c \in Int /\ c <= End[r]
    BY <1>1, <1>3
  <2>2. Taken(r, d) = Days(Start[r], c)
    BY DEF Taken
  <2> HIDE DEF c
  <2>3. Days(Start[r], c) \in [Years -> Nat] /\ Days(Start[r], c)[y] <= Days(Start[r], End[r])[y]
    BY <2>1, DaysType, DaysUpTo
  <2> QED BY <1>2, <2>2, <2>3
<1>5. Left(r, d)[y] = Full[r][y] - Taken(r, d)[y]
  BY DEF Left
<1> QED BY <1>2, <1>4, <1>5

\* What complete does after its flip is a good list.
LEMMA CloseList ==
  ASSUME NEW r \in Reqs, NEW d \in Start[r]..(End[r] + 1)
  PROVE  GoodList(Close(r, d)) /\ Elements(Close(r, d)) = Closing(r, d)
<1> DEFINE p == Each("consume", r, Taken(r, d))
           q == Each("release", r, Left(r, d))
<1>1. GoodList(p) /\ Elements(p) = Entries("consume", r, Taken(r, d))
  BY TakenAndLeft, EachList DEF Entries, Yearly
<1>2. GoodList(q) /\ Elements(q) = Entries("release", r, Left(r, d))
  BY TakenAndLeft, EachList DEF Entries, Yearly
<1>3. Close(r, d) = p \o q
  BY DEF Close, Taken, Left
<1>4. \A t \in Elements(p), u \in Elements(q) : Precedes(t, u)
  BY <1>1, <1>2 DEF Entries, Precedes, Rank, Task, Final, Starting, Years
<1> HIDE DEF p, q
<1>5. GoodList(p \o q) /\ Elements(p \o q) = Elements(p) \cup Elements(q)
  BY <1>1, <1>2, <1>4, Joined
<1> QED BY <1>1, <1>2, <1>3, <1>5 DEF Closing

\* It consumes and releases.
LEMMA ClosingTasks ==
  ASSUME NEW r, NEW d, NEW t \in Closing(r, d)
  PROVE  t.r = r /\ t.do \in {"consume", "release"}
BY DEF Closing, Entries, Task

\* complete, of a request that is active or no longer is.
LEMMA CompleteStep ==
  ASSUME Lists, NEW w \in Servers, Complete(w), NEW t, t = Head(todo[w])
  PROVE  /\ Lists' /\ GoodTask(t) /\ t.do = "complete"
         /\ doc[t.r] = "active" => Turned(w, t.r, {t}, Closing(t.r, End[t.r] + 1))
         /\ doc[t.r] # "active" => Turned(w, t.r, {t}, {})
<1>1. todo[w] # <<>> /\ GoodTask(t) /\ t.do = "complete"
  BY DoingTask DEF Complete
<1>2. t.r \in Reqs
  BY <1>1 DEF GoodTask
<1> DEFINE d == End[t.r] + 1
           q == Close(t.r, d)
<1>3. d \in Start[t.r]..(End[t.r] + 1)
  <2>1. Start[t.r] \in Nat /\ End[t.r] \in Nat /\ Start[t.r] <= End[t.r]
    BY <1>2, LeaveAssumption
  <2> QED BY <2>1
<1>4. GoodList(q) /\ Elements(q) = Closing(t.r, d)
  BY <1>2, <1>3, CloseList
<1>5. \A u \in Elements(q) : u.r = t.r /\ u.do \notin Sub
  BY <1>4, ClosingTasks DEF Sub
<1>6. CASE doc[t.r] = "active"
  <2>1. Then(w, q)
    BY <1>6 DEF Complete
  <2> HIDE DEF q, d
  <2>2. Lists' /\ Turned(w, t.r, {t}, Elements(q))
    BY <1>1, <1>4, <1>5, <2>1, ListContinued DEF Final
  <2> QED BY <1>1, <1>4, <1>6, <2>2 DEF d
<1>7. CASE doc[t.r] # "active"
  <2>1. Then(w, <<>>)
    BY <1>7 DEF Complete
  <2> QED BY <1>1, <1>7, <2>1, ListShortened
<1> QED BY <1>6, <1>7

\* earlyReturn closes the request for some day of return.
LEMMA EarlyReturnStep ==
  ASSUME Lists, NEW w \in Workers, NEW r \in Reqs, EarlyReturn(w, r)
  PROVE  Lists' /\ \E d \in Start[r]..(End[r] + 1) : Turned(w, r, {}, Closing(r, d))
<1>1. PICK d \in Start[r]..(End[r] + 1) : Begin(w, Close(r, d))
  BY DEF EarlyReturn
<1>2. GoodList(Close(r, d)) /\ Elements(Close(r, d)) = Closing(r, d)
  BY CloseList
<1>3. \A t \in Elements(Close(r, d)) : t.r = r /\ t.do \notin Sub
  BY <1>2, ClosingTasks DEF Sub
<1>4. todo[w] = <<>> /\ todo' = [todo EXCEPT ![w] = Close(r, d)]
  BY <1>1 DEF Begin
<1>5. Lists' /\ Turned(w, r, {}, Elements(Close(r, d)))
  BY <1>2, <1>3, <1>4, ListBegun DEF Servers
<1> QED BY <1>2, <1>5

-----------------------------------------------------------------------------
(***************************************************************************)
(* The steps, one by one: the lifecycle, the jobs, failures                *)
(***************************************************************************)
\* A late approval goes on with activate, and with complete when the leave is over.
LEMMA CatchUpStep ==
  ASSUME Lists, NEW w \in Servers, CatchUp(w), NEW t, t = Head(todo[w])
  PROVE  /\ Lists' /\ GoodTask(t) /\ t.do = "catchUp" /\ t \in Open
         /\ \E new \in SUBSET {Task("activate", t.r, 0, 0), Task("complete", t.r, 0, 0)} :
              Turned(w, t.r, {t}, new)
<1>1. todo[w] # <<>> /\ GoodTask(t) /\ t.do = "catchUp" /\ t \in Open
  BY DoingTask DEF CatchUp
<1>2. t.r \in Reqs
  BY <1>1 DEF GoodTask
<1> DEFINE p == Call("activate", t.r)
           q == IF End[t.r] < today THEN Call("complete", t.r) ELSE <<>>
<1>3. GoodList(p) /\ Elements(p) = {Task("activate", t.r, 0, 0)}
  BY <1>2, CallList DEF Plain
<1>4. GoodList(q) /\ Elements(q) \subseteq {Task("complete", t.r, 0, 0)}
  BY <1>2, CallList, EmptyList DEF Plain
<1>5. \A u \in Elements(p), v \in Elements(q) : Precedes(u, v)
  BY <1>3, <1>4 DEF Precedes, Rank, Task, Final, Starting
<1>6. Then(w, <<>>) \/ Then(w, p \o q)
  BY DEF CatchUp
<1> HIDE DEF p, q
<1>7. GoodList(p \o q) /\ Elements(p \o q) = Elements(p) \cup Elements(q)
  BY <1>3, <1>4, <1>5, Joined
<1>8. \A u \in Elements(p \o q) : u.r = t.r /\ u.do \notin Sub
  BY <1>3, <1>4, <1>7 DEF Task, Sub
<1>9. CASE Then(w, p \o q)
  <2>1. Lists' /\ Turned(w, t.r, {t}, Elements(p \o q))
    BY <1>1, <1>7, <1>8, <1>9, ListContinued DEF Final
  <2>2. Elements(p \o q) \in SUBSET {Task("activate", t.r, 0, 0), Task("complete", t.r, 0, 0)}
    BY <1>3, <1>4, <1>7
  <2> QED BY <1>1, <2>1, <2>2
<1>10. CASE Then(w, <<>>)
  <2>1. Lists' /\ Turned(w, t.r, {t}, {})
    BY <1>1, <1>10, ListShortened
  <2> QED BY <1>1, <2>1
<1> QED BY <1>6, <1>9, <1>10

\* activate, of a request that is approved or no longer is.
LEMMA ActivateStep ==
  ASSUME Lists, NEW w \in Servers, Activate(w), NEW t, t = Head(todo[w])
  PROVE  /\ Lists' /\ GoodTask(t) /\ t.do = "activate" /\ t \in Open
         /\ doc[t.r] = "approved" =>
              Turned(w, t.r, {t}, {}) /\ Set(t.r, "active")
         /\ doc[t.r] # "approved" =>
              /\ UNCHANGED doc
              /\ \E old : /\ Turned(w, t.r, old, {})
                          /\ \A u \in old : u.do \in {"activate", "complete"}
<1>1. todo[w] # <<>> /\ GoodTask(t) /\ t.do = "activate" /\ t \in Open
  BY DoingTask DEF Activate
<1>2. t.r \in Reqs
  BY <1>1 DEF GoodTask
<1>3. CASE doc[t.r] = "approved"
  <2>1. Then(w, <<>>) /\ Set(t.r, "active")
    BY <1>3 DEF Activate
  <2>2. Lists' /\ Turned(w, t.r, {t}, {})
    BY <1>1, <2>1, ListShortened
  <2> QED BY <1>1, <1>3, <2>1, <2>2
<1>4. CASE doc[t.r] # "approved"
  <2> DEFINE q == Skip(todo[w], t.r)
             old == Tasks(w) \ Elements(q)
  <2>1. todo' = [todo EXCEPT ![w] = q] /\ UNCHANGED doc
    BY <1>4 DEF Activate, Lists
  <2>2. GoodList(todo[w])
    BY DEF Lists
  <2>3. /\ GoodList(q) /\ Elements(q) \subseteq Elements(todo[w]) \ {t}
        /\ \A u \in Elements(todo[w]) : u.r # t.r => u \in Elements(q)
    BY <1>1, <2>2, Skipped
  <2> HIDE DEF q
  <2>4. Elements(q) \subseteq Tasks(w)
    BY <2>3, TasksAreElements
  <2>5. /\ Lists' /\ Tasks(w)' = Elements(q)
        /\ \A v \in Servers \ {w} : Tasks(v)' = Tasks(v)
    <3>1. /\ \A u \in Elements(q) : u.do \in Sub => w \in Workers
          /\ w \in Workers => \A u, v \in Elements(q) : u.r = v.r
      BY <2>4 DEF Lists
    <3> QED BY <2>1, <2>3, <3>1, ListReplaced
  <2>6. \A u \in old : u.r = t.r
    BY <2>3, TasksAreElements
  <2>7. Turned(w, t.r, old, {})
    BY <2>4, <2>5, <2>6 DEF Turned
  <2>8. ASSUME NEW u \in old PROVE u.do \in {"activate", "complete"}
    <3>1. CASE u = t
      BY <1>1, <3>1
    <3>2. CASE u # t
      <4>1. u \in Elements(Tail(todo[w])) /\ Precedes(t, u)
        BY <1>1, <2>2, <3>2, HeadAndTail, TasksAreElements
      <4> QED BY <1>1, <2>6, <4>1 DEF Precedes, Starting
    <3> QED BY <3>1, <3>2
  <2> QED BY <1>1, <1>4, <2>1, <2>5, <2>7, <2>8
<1> QED BY <1>3, <1>4

\* A job begins with its own tasks, and has none before.
LEMMA JobStep ==
  ASSUME Lists, NEW w \in Jobs, NEW do \in {"activate", "complete"}, NEW due \in SUBSET Reqs,
         Begin(w, Calls(do, due))
  PROVE  /\ Lists' /\ Tasks(w) = {} /\ \A v \in Servers \ {w} : Tasks(v)' = Tasks(v)
         /\ \A t \in Tasks(w)' : t.do = do /\ t.r \in due
<1> DEFINE q == Calls(do, due)
<1>1. GoodList(q) /\ \A t \in Elements(q) : \E r \in due : t = Task(do, r, 0, 0)
  BY CallsList
<1>2. \A t \in Elements(q) : t.do = do /\ t.r \in due /\ t.do \notin Sub
  BY <1>1 DEF Task, Sub
<1>3. todo[w] = <<>> /\ todo' = [todo EXCEPT ![w] = q]
  BY DEF Begin
<1>4. w \in Servers /\ w \notin Workers
  BY LeaveAssumption DEF Servers
<1> HIDE DEF q
<1>5. /\ Lists' /\ Tasks(w)' = Elements(q)
      /\ \A v \in Servers \ {w} : Tasks(v)' = Tasks(v)
  BY <1>1, <1>2, <1>3, <1>4, ListReplaced
<1>6. Tasks(w) = {}
  BY <1>3, TasksAreElements, EmptyList
<1> QED BY <1>2, <1>5, <1>6

\* A failed call: submit goes on to delete the request it was reserving for;
\* otherwise nothing new is to be done.
LEMMA FailStep ==
  ASSUME Lists, NEW w \in Servers, Fail(w), NEW t, t = Head(todo[w])
  PROVE  /\ Lists' /\ todo[w] # <<>> /\ t \in Tasks(w) /\ GoodTask(t)
         /\ \A v \in Servers \ {w} : Tasks(v)' = Tasks(v)
         /\ \/ /\ Tasks(w)' \subseteq Tasks(w)
               /\ w \in Workers => Tasks(w)' = {}
            \/ /\ Tasks(w)' = {Task("drop", t.r, 0, 0)}
               /\ w \in Workers /\ \A u \in Tasks(w) : u.r = t.r
               /\ t.do \in {"gate", "row"} \/ \E u \in Tasks(w) : u.do = "drop"
<1>1. todo[w] # <<>>
  BY DEF Fail
<1>2. GoodList(todo[w])
  BY DEF Lists
<1>3. t \in Tasks(w) /\ GoodTask(t) /\ t.r \in Reqs
  BY <1>1, <1>2, HeadAndTail, TasksAreElements DEF GoodTask
<1>4. PICK q \in {<<>>, Caught(w)} : todo' = [todo EXCEPT ![w] = q]
  BY DEF Fail
<1>5. ASSUME GoodList(q), Elements(q) \subseteq Tasks(w)
      PROVE  /\ Lists' /\ Tasks(w)' = Elements(q)
             /\ \A v \in Servers \ {w} : Tasks(v)' = Tasks(v)
  <2>1. /\ \A u \in Elements(q) : u.do \in Sub => w \in Workers
        /\ w \in Workers => \A u, v \in Elements(q) : u.r = v.r
    BY <1>5 DEF Lists
  <2> QED BY <1>4, <1>5, <2>1, ListReplaced
<1> DEFINE Deletes == t.do \in {"gate", "row"} \/ \E u \in Tasks(w) : u.do = "drop"
<1>6. CASE q = <<>>
  BY <1>1, <1>3, <1>5, <1>6, EmptyList
<1>7. CASE q = Caught(w) /\ Deletes
  <2>1. q = Call("drop", t.r)
    <3> DEFINE P == Head(todo[w]).do \in {"gate", "row"} \/ \E u \in Tasks(w) : u.do = "drop"
               x == Call("drop", Head(todo[w]).r)
               z == Skip(todo[w], Head(todo[w]).r)
    <3>1. Caught(w) = CASE P -> x [] OTHER -> z
      BY DEF Caught
    <3>2. P
      BY <1>7
    <3> HIDE DEF P, x, z
    <3>3. Caught(w) = x
      BY <3>1, <3>2
    <3> QED BY <1>7, <3>3 DEF x
  <2>2. w \in Workers /\ \A u \in Tasks(w) : u.r = t.r
    BY <1>3, <1>7 DEF Lists, Sub
  <2>3. GoodList(q) /\ Elements(q) = {Task("drop", t.r, 0, 0)}
    BY <1>3, <2>1, CallList DEF Plain
  <2>4. /\ Lists' /\ Tasks(w)' = Elements(q)
        /\ \A v \in Servers \ {w} : Tasks(v)' = Tasks(v)
    BY <1>4, <2>2, <2>3, ListReplaced
  <2> QED BY <1>1, <1>3, <1>7, <2>2, <2>3, <2>4
<1>8. CASE q = Caught(w) /\ ~Deletes
  <2>1. q = Skip(todo[w], t.r)
    BY <1>8 DEF Caught
  <2>2. GoodList(q) /\ Elements(q) \subseteq Elements(todo[w]) \ {t}
    BY <1>1, <1>2, <2>1, Skipped
  <2>3. Elements(q) \subseteq Tasks(w)
    BY <2>2, TasksAreElements
  <2>4. /\ Lists' /\ Tasks(w)' = Elements(q)
        /\ \A v \in Servers \ {w} : Tasks(v)' = Tasks(v)
    BY <1>5, <2>2, <2>3
  <2>5. ASSUME w \in Workers PROVE q = <<>>
    <3>1. \A i \in DOMAIN todo[w] : todo[w][i].r = t.r
      BY <1>3, <2>5 DEF Lists, Tasks
    <3>2. {i \in DOMAIN todo[w] : todo[w][i].r # t.r} = {}
      BY <3>1
    <3> QED BY <2>1, <3>2 DEF Skip
  <2> QED BY <1>1, <1>3, <2>3, <2>4, <2>5, EmptyList
<1> QED BY <1>4, <1>6, <1>7, <1>8

-----------------------------------------------------------------------------
\* The tasks of some sorts are not touched.
Steady(sorts) ==
  \A r : Mine(r, sorts)' = Mine(r, sorts) /\ (One(r, sorts) => One(r, sorts)')

\* A turn about other sorts of tasks leaves these alone.
LEMMA SteadyTurn ==
  ASSUME NEW w \in Servers, NEW s, NEW old, NEW new, Turned(w, s, old, new), NEW sorts,
         \A t \in old \cup new : t.do \notin sorts
  PROVE  Steady(sorts)
<1>1. ASSUME NEW r PROVE Mine(r, sorts)' = Mine(r, sorts)
  <2>1. ASSUME NEW t, t.do \in sorts PROVE t \in Open' <=> t \in Open
    <3>1. t \notin old /\ t \notin new
      BY <2>1
    <3> QED BY <3>1, OpenTurned
  <2> QED BY <2>1 DEF Mine
<1>2. ASSUME NEW r PROVE \A v \in Servers : Mine(r, sorts) \cap Tasks(v)' = Mine(r, sorts) \cap Tasks(v)
  BY DEF Turned, Mine
<1>3. ASSUME NEW r, One(r, sorts) PROVE One(r, sorts)'
  <2>1. Mine(r, sorts)' = Mine(r, sorts)
    BY <1>1
  <2>2. \A v \in Servers : Mine(r, sorts) \cap Tasks(v)' = Mine(r, sorts) \cap Tasks(v)
    BY <1>2
  <2> QED BY <1>3, <2>1, <2>2 DEF One
<1> QED BY <1>1, <1>3 DEF Steady

\* So does a job that begins with other sorts of tasks.
LEMMA SteadyJob ==
  ASSUME NEW w \in Servers, Tasks(w) = {}, \A v \in Servers \ {w} : Tasks(v)' = Tasks(v),
         NEW sorts, \A t \in Tasks(w)' : t.do \notin sorts
  PROVE  Steady(sorts)
<1>1. ASSUME NEW r PROVE Mine(r, sorts)' = Mine(r, sorts)
  <2>1. ASSUME NEW t, t.do \in sorts PROVE t \in Open' <=> t \in Open
    BY <2>1 DEF Open
  <2> QED BY <2>1 DEF Mine
<1>2. ASSUME NEW r PROVE \A v \in Servers : Mine(r, sorts) \cap Tasks(v)' = Mine(r, sorts) \cap Tasks(v)
  BY DEF Mine
<1>3. ASSUME NEW r, One(r, sorts) PROVE One(r, sorts)'
  <2>1. Mine(r, sorts)' = Mine(r, sorts)
    BY <1>1
  <2>2. \A v \in Servers : Mine(r, sorts) \cap Tasks(v)' = Mine(r, sorts) \cap Tasks(v)
    BY <1>2
  <2> QED BY <1>3, <2>1, <2>2 DEF One
<1> QED BY <1>1, <1>3 DEF Steady

\* So does a step that leaves the calls alone.
LEMMA SteadyIdle ==
  ASSUME UNCHANGED todo, NEW sorts
  PROVE  Steady(sorts)
<1>1. \A w : Tasks(w)' = Tasks(w)
  BY TasksAreElements
<1>2. Open' = Open
  BY <1>1 DEF Open
<1>3. \A r : Mine(r, sorts)' = Mine(r, sorts)
  BY <1>2 DEF Mine
<1> QED BY <1>1, <1>3 DEF Steady, One

-----------------------------------------------------------------------------
(***************************************************************************)
(* Types                                                                   *)
(***************************************************************************)
Statuses == Blocking \cup {"none", "gone", "completed", "rejected", "cancelled"}
Balances == [Years -> [granted : Nat, reserved : Int, consumed : Nat]]

\* The initial states are typed, and no call is under way.
LEMMA TypesInitially == Init => Types /\ Lists
<1> SUFFICES ASSUME Init PROVE Types /\ Lists
  OBVIOUS
<1>1. doc \in [Reqs -> Statuses]
  BY DEF Init, Statuses
<1>2. book \in Balances
  BY LeaveAssumption DEF Init, Balances
<1>3. ledger \in [Reqs -> [Kinds -> [Years -> Nat]]]
  BY DEF Init
<1>4. \A r \in Reqs, k \in Kinds, y \in Years : ledger[r][k][y] \in 0..Full[r][y]
  BY FullType DEF Init
<1>5. broken \subseteq Reqs /\ hasty \subseteq Reqs
  BY DEF Init
<1>6. Types
  BY <1>1, <1>2, <1>3, <1>4, <1>5 DEF Types, TypeOK, Statuses, Balances
<1>7. \A w \in Servers : todo[w] = <<>>
  BY DEF Init
<1>8. \A w \in Servers : GoodList(todo[w]) /\ Tasks(w) = {}
  BY <1>7, EmptyList, TasksAreElements
<1>9. todo = [w \in Servers |-> todo[w]]
  BY DEF Init
<1>10. Workers \subseteq Servers
  BY DEF Servers
<1> QED BY <1>6, <1>8, <1>9, <1>10 DEF Lists

\* What a write of a status does.
LEMMA DocWrites ==
  ASSUME Types, NEW r \in Reqs, NEW status, Set(r, status)
  PROVE  /\ doc'[r] = status /\ \A s \in Reqs \ {r} : doc'[s] = doc[s]
         /\ status \in Statuses => doc' \in [Reqs -> Statuses]
BY DEF Types, TypeOK, Set, Statuses

\* What an insert into the ledger does.
LEMMA LedgerWrites ==
  ASSUME Types, NEW r \in Reqs, NEW k \in Kinds, NEW y \in Years, NEW n \in 0..Full[r][y],
         ledger' = [ledger EXCEPT ![r][k][y] = n]
  PROVE  /\ ledger' \in [Reqs -> [Kinds -> [Years -> Nat]]]
         /\ ledger'[r][k][y] = n
         /\ \A s \in Reqs, j \in Kinds, z \in Years :
              <<s, j, z>> # <<r, k, y>> => ledger'[s][j][z] = ledger[s][j][z]
         /\ \A s \in Reqs : s # r => ledger'[s] = ledger[s]
         /\ \A j \in Kinds : j # k => ledger'[r][j] = ledger[r][j]
         /\ \A s \in Reqs, j \in Kinds, z \in Years : ledger'[s][j][z] \in 0..Full[s][z]
<1>1. n \in Nat
  BY FullType
<1>2. /\ ledger'[r] = [ledger[r] EXCEPT ![k][y] = n]
      /\ \A s \in Reqs : s # r => ledger'[s] = ledger[s]
      /\ ledger' = [s \in Reqs |-> ledger'[s]]
  BY DEF Types
<1>3. /\ ledger'[r][k] = [ledger[r][k] EXCEPT ![y] = n]
      /\ \A j \in Kinds : j # k => ledger'[r][j] = ledger[r][j]
      /\ ledger'[r] = [j \in Kinds |-> ledger'[r][j]]
  BY <1>2 DEF Types
<1>4. /\ ledger'[r][k][y] = n
      /\ \A z \in Years : z # y => ledger'[r][k][z] = ledger[r][k][z]
      /\ ledger'[r][k] \in [Years -> Nat]
  BY <1>1, <1>3 DEF Types
<1>5. ledger' \in [Reqs -> [Kinds -> [Years -> Nat]]]
  BY <1>2, <1>3, <1>4 DEF Types
<1>6. ASSUME NEW s \in Reqs, NEW j \in Kinds, NEW z \in Years, <<s, j, z>> # <<r, k, y>>
      PROVE  ledger'[s][j][z] = ledger[s][j][z]
  BY <1>2, <1>3, <1>4, <1>6
<1>7. \A s \in Reqs, j \in Kinds, z \in Years : ledger'[s][j][z] \in 0..Full[s][z]
  <2> SUFFICES ASSUME NEW s \in Reqs, NEW j \in Kinds, NEW z \in Years
               PROVE  ledger'[s][j][z] \in 0..Full[s][z]
    OBVIOUS
  <2>1. CASE s = r /\ j = k /\ z = y
    BY <1>4, <2>1
  <2>2. CASE ~(s = r /\ j = k /\ z = y)
    BY <1>6, <2>2 DEF Types, TypeOK
  <2> QED BY <2>1, <2>2
<1> QED BY <1>2, <1>3, <1>4, <1>5, <1>6, <1>7

\* What an $inc of the balance does.
LEMMA BookWrites ==
  ASSUME Types, NEW y \in Years, NEW a \in Int, NEW c \in Nat, Inc(y, a, c)
  PROVE  /\ book' \in Balances
         /\ book'[y].reserved = book[y].reserved + a
         /\ book'[y].consumed = book[y].consumed + c
         /\ \A z \in Years : book'[z].granted = book[z].granted
         /\ \A z \in Years \ {y} : book'[z] = book[z]
<1>1. book \in Balances
  BY DEF Types, TypeOK, Balances
<1>2. /\ book' = [z \in Years |-> book'[z]]
      /\ book'[y] = [book[y] EXCEPT !.reserved = @ + a, !.consumed = @ + c]
      /\ \A z \in Years \ {y} : book'[z] = book[z]
  BY <1>1 DEF Inc, Balances
<1>3. book[y] \in [granted : Nat, reserved : Int, consumed : Nat]
  BY <1>1 DEF Balances
<1>4. /\ book'[y].reserved = book[y].reserved + a
      /\ book'[y].consumed = book[y].consumed + c
      /\ book'[y].granted = book[y].granted
      /\ book'[y] \in [granted : Nat, reserved : Int, consumed : Nat]
  <2> DEFINE b == book[y]
  <2>1. b \in [granted : Nat, reserved : Int, consumed : Nat]
    BY <1>3
  <2>2. b.consumed + c \in Nat /\ b.reserved + a \in Int
    <3> HIDE DEF b
    <3> QED BY <2>1
  <2>3. book'[y] = [b EXCEPT !.reserved = b.reserved + a, !.consumed = b.consumed + c]
    BY <1>2
  <2> HIDE DEF b
  <2>4. /\ book'[y].reserved = b.reserved + a /\ book'[y].consumed = b.consumed + c
        /\ book'[y].granted = b.granted
        /\ book'[y] \in [granted : Nat, reserved : Int, consumed : Nat]
    BY <2>1, <2>2, <2>3
  <2> QED BY <2>4 DEF b
<1>5. book' \in Balances
  <2>1. \A z \in Years : book'[z] \in [granted : Nat, reserved : Int, consumed : Nat]
    BY <1>1, <1>2, <1>4 DEF Balances
  <2> QED BY <1>2, <2>1 DEF Balances
<1> QED BY <1>2, <1>4, <1>5

\* One step leaves the types alone if it leaves these alone.
LEMMA TypesKept ==
  ASSUME Types, doc' \in [Reqs -> Statuses], book' \in Balances,
         UNCHANGED ledger, broken' \subseteq Reqs, hasty' \subseteq Reqs
  PROVE  Types'
BY DEF Types, TypeOK, Statuses, Balances

\* Every step keeps the types.
LEMMA NextTypes == Types /\ Lists /\ Fresh /\ [Next]_vars => Types'
<1> SUFFICES ASSUME Types, Lists, Fresh, [Next]_vars PROVE Types'
  OBVIOUS
<1>0. /\ doc \in [Reqs -> Statuses] /\ book \in Balances
      /\ broken \subseteq Reqs /\ hasty \subseteq Reqs
  BY DEF Types, TypeOK, Statuses, Balances
<1>d. ASSUME NEW r \in Reqs, NEW status \in Statuses, Set(r, status), UNCHANGED <<book, ledger>>,
             broken' = broken, hasty' \subseteq Reqs
      PROVE  Types'
  BY <1>0, <1>d, DocWrites, TypesKept
<1>n. ASSUME UNCHANGED <<doc, book, ledger>>,
             broken' \subseteq Reqs, hasty' = hasty
      PROVE  Types'
  BY <1>0, <1>n, TypesKept
<1>b. ASSUME NEW y \in Years, NEW a \in Int, NEW c \in Nat, Inc(y, a, c),
             UNCHANGED <<doc, ledger, broken, hasty>>
      PROVE  Types'
  BY <1>0, <1>b, BookWrites, TypesKept
<1>l. ASSUME NEW r \in Reqs, NEW k \in Kinds, NEW y \in Years, NEW n \in 0..Full[r][y],
             ledger' = [ledger EXCEPT ![r][k][y] = n],
             UNCHANGED <<doc, book, broken, hasty>>
      PROVE  Types'
  <2>1. /\ ledger' \in [Reqs -> [Kinds -> [Years -> Nat]]]
        /\ \A s \in Reqs, j \in Kinds, z \in Years : ledger'[s][j][z] \in 0..Full[s][z]
    BY <1>l, LedgerWrites
  <2> QED BY <1>0, <1>l, <2>1 DEF Types, TypeOK, Statuses, Balances
<1>h. ASSUME NEW w \in Servers, todo[w] # <<>>
      PROVE  /\ GoodTask(Head(todo[w])) /\ Head(todo[w]).r \in Reqs
             /\ Head(todo[w]).do \in Yearly =>
                  /\ Head(todo[w]).y \in Years /\ Head(todo[w]).n \in Nat
                  /\ Head(todo[w]).n \in 0..Full[Head(todo[w]).r][Head(todo[w]).y]
  <2> DEFINE t == Head(todo[w])
  <2>1. GoodTask(t)
    BY <1>h, HeadAndTail DEF Lists
  <2> HIDE DEF t
  <2>2. t.r \in Reqs
    BY <2>1 DEF GoodTask
  <2>3. ASSUME t.do \in Yearly PROVE t.y \in Years /\ t.n \in 1..Full[t.r][t.y]
    BY <2>1, <2>3 DEF GoodTask, Yearly, Plain
  <2> QED BY <2>1, <2>2, <2>3, FullType DEF t
<1>1. ASSUME NEW w \in Servers, Gate(w) PROVE Types'
  <2>1. todo[w] # <<>> /\ Head(todo[w]).do = "gate"
    BY <1>1 DEF Gate, Doing
  <2>2. Inc(Head(todo[w]).y, Head(todo[w]).n, 0) \/ UNCHANGED book
    BY <1>1 DEF Gate
  <2>3. UNCHANGED <<doc, ledger, broken, hasty>>
    BY <1>1 DEF Gate, history
  <2>4. Head(todo[w]).y \in Years /\ Head(todo[w]).n \in Int
    BY <1>h, <2>1 DEF Yearly
  <2> QED BY <1>0, <1>b, <1>n, <2>2, <2>3, <2>4
<1>2. ASSUME NEW w \in Servers, NEW do \in Yearly, NEW k \in Kinds, NEW fresh, NEW dup,
             Insert(w, do, k, fresh, dup)
      PROVE  Types'
  <2>1. todo[w] # <<>> /\ Head(todo[w]).do = do
    BY <1>2 DEF Insert, Doing
  <2> DEFINE t == Head(todo[w])
  <2>2. ledger' = [ledger EXCEPT ![t.r][k][t.y] = t.n] \/ UNCHANGED ledger
    BY <1>2 DEF Insert
  <2>3. UNCHANGED <<doc, book, broken, hasty>>
    BY <1>2 DEF Insert, history
  <2>4. t.r \in Reqs /\ t.y \in Years /\ t.n \in 0..Full[t.r][t.y]
    BY <1>h, <2>1
  <2> HIDE DEF t
  <2> QED BY <1>0, <1>l, <1>n, <2>2, <2>3, <2>4
<1>3. ASSUME NEW w \in Servers, ReserveRow(w) \/ Release(w) \/ Consume(w) PROVE Types'
  <2>1. /\ {"row", "release", "consume"} \subseteq Yearly
        /\ {"reserve", "release", "consume"} \subseteq Kinds
    BY DEF Yearly, Kinds
  <2> QED BY <1>2, <1>3, <2>1 DEF ReserveRow, Release, Consume
<1>4. ASSUME NEW w \in Servers, Undo(w) \/ Spend(w) PROVE Types'
  <2>1. todo[w] # <<>> /\ Head(todo[w]).do \in {"undo", "spend"}
    BY <1>4 DEF Undo, Spend, Doing
  <2> DEFINE t == Head(todo[w])
  <2>2. Inc(t.y, -t.n, 0) \/ Inc(t.y, -t.n, t.n)
    BY <1>4 DEF Undo, Spend
  <2>3. UNCHANGED <<doc, ledger, broken, hasty>>
    BY <1>4 DEF Undo, Spend, history
  <2>4. t.y \in Years /\ -t.n \in Int /\ t.n \in Nat
    BY <1>h, <2>1 DEF Yearly
  <2> HIDE DEF t
  <2> QED BY <1>b, <2>2, <2>3, <2>4
<1>5. ASSUME NEW w \in Servers, Create(w) \/ Drop(w) \/ Lose(w) PROVE Types'
  <2>1. todo[w] # <<>>
    BY <1>5 DEF Create, Drop, Lose, Doing
  <2>2. \E status \in Statuses : Set(Head(todo[w]).r, status)
    BY <1>5 DEF Create, Drop, Lose, Statuses, Blocking, Pending
  <2>3. UNCHANGED <<book, ledger, broken, hasty>>
    BY <1>5 DEF Create, Drop, Lose, history
  <2> QED BY <1>0, <1>d, <1>h, <2>1, <2>2, <2>3
<1>6. ASSUME NEW w \in Servers, Activate(w) \/ Complete(w) PROVE Types'
  <2>1. todo[w] # <<>>
    BY <1>6 DEF Activate, Complete, Doing
  <2>2. (\E status \in Statuses : Set(Head(todo[w]).r, status)) \/ UNCHANGED doc
    BY <1>6 DEF Activate, Complete, Statuses, Blocking, Pending
  <2>3. UNCHANGED <<book, ledger, broken, hasty>>
    BY <1>6 DEF Activate, Complete, history
  <2> QED BY <1>0, <1>d, <1>n, <1>h, <2>1, <2>2, <2>3
<1>7. ASSUME NEW w \in Servers, Recheck(w) \/ CatchUp(w) PROVE Types'
  <2>1. UNCHANGED <<doc, book, ledger, broken, hasty>>
    BY <1>7 DEF Recheck, CatchUp, history
  <2> QED BY <1>0, <1>n, <2>1
<1>9. ASSUME NEW w \in Workers, NEW r \in Reqs,
             Submit(w, r) \/ Decide(w, r) \/ Cancel(w, r) \/ EarlyReturn(w, r)
      PROVE  Types'
  <2>1. CASE Submit(w, r)
    <3>1. UNCHANGED <<doc, book, ledger, broken, hasty>>
      BY <2>1 DEF Submit, history
    <3> QED BY <1>0, <1>n, <3>1
  <2>2. CASE Decide(w, r) \/ Cancel(w, r)
    <3>1. PICK status \in Statuses : Move(w, r, status)
      BY <2>2 DEF Decide, Cancel, Verdicts, Statuses, Blocking, Pending
    <3>2. /\ Set(r, status) /\ hasty' \subseteq Reqs
          /\ UNCHANGED <<book, ledger, broken>>
      BY <1>0, <3>1 DEF Move
    <3> QED BY <1>d, <3>2
  <2>3. CASE EarlyReturn(w, r)
    <3>1. Set(r, "completed") /\ UNCHANGED <<book, ledger, broken, hasty>>
      BY <2>3 DEF EarlyReturn, history
    <3> QED BY <1>0, <1>d, <3>1 DEF Statuses
  <2> QED BY <1>9, <2>1, <2>2, <2>3
<1>10. ASSUME NEW w \in Servers, Fail(w) PROVE Types'
  <2>1. UNCHANGED <<doc, book, ledger, hasty>>
    BY <1>10 DEF Fail
  <2>2. broken' = broken \cup {t.r : t \in Tasks(w)}
    BY <1>10 DEF Fail
  <2>3. \A t \in Tasks(w) : t.r \in Reqs
    BY TaskType DEF Open, GoodTask
  <2> QED BY <1>0, <1>n, <2>1, <2>2, <2>3
<1>11. ASSUME ActivateDueStarted \/ CompleteDueEnded \/ Tick PROVE Types'
  <2>1. UNCHANGED <<doc, book, ledger, broken, hasty>>
    BY <1>11 DEF ActivateDueStarted, CompleteDueEnded, Tick, history
  <2> QED BY <1>0, <1>n, <2>1
<1>12. CASE UNCHANGED vars
  BY <1>0, <1>12, <1>n DEF vars, history
<1>13. CASE Next
  BY <1>1, <1>3, <1>4, <1>5, <1>6, <1>7, <1>9, <1>10, <1>11, <1>13 DEF Next, Serve
<1> QED BY <1>12, <1>13

-----------------------------------------------------------------------------
(***************************************************************************)
(* A request is inserted, and its days entered, once                       *)
(***************************************************************************)
LEMMA NextLists == Types /\ Lists /\ Fresh /\ [Next]_vars => Lists'
<1> SUFFICES ASSUME Types, Lists, Fresh, [Next]_vars PROVE Lists'
  OBVIOUS
<1>1. ASSUME NEW w \in Servers, Gate(w) PROVE Lists'
  BY <1>1, GateKept, GateLost
<1>2. ASSUME NEW w \in Servers, ReserveRow(w) \/ Release(w) \/ Consume(w) PROVE Lists'
  <2>1. CASE ReserveRow(w)
    BY <2>1, RowStep
  <2>2. CASE Release(w)
    BY <2>2, ReleaseStep DEF Entered
  <2>3. CASE Consume(w)
    BY <2>3, ConsumeStep DEF Entered
  <2> QED BY <1>2, <2>1, <2>2, <2>3
<1>3. ASSUME NEW w \in Servers, Undo(w) \/ Spend(w) \/ Drop(w) \/ Lose(w)
      PROVE  Lists'
  BY <1>3, TakenStep DEF Undo, Spend, Drop, Lose
<1>4. ASSUME NEW w \in Servers, Create(w) \/ Recheck(w) \/ Complete(w) \/ CatchUp(w) \/ Activate(w)
      PROVE  Lists'
  BY <1>4, CreateStep, RecheckStep, CompleteStep, CatchUpStep, ActivateStep
<1>5. ASSUME NEW w \in Workers, NEW r \in Reqs,
             Submit(w, r) \/ Decide(w, r) \/ Cancel(w, r) \/ EarlyReturn(w, r)
      PROVE  Lists'
  BY <1>5, SubmitStep, MoveStep, EarlyReturnStep DEF Decide, Cancel
<1>6. ASSUME NEW w \in Servers, Fail(w) PROVE Lists'
  BY <1>6, FailStep
<1>7. CASE ActivateDueStarted \/ CompleteDueEnded
  BY <1>7, JobStep DEF ActivateDueStarted, CompleteDueEnded, Jobs
<1>8. CASE Tick \/ UNCHANGED vars
  BY <1>8, ServersUnchanged DEF Tick, vars
<1> QED BY <1>1, <1>2, <1>3, <1>4, <1>5, <1>6, <1>7, <1>8 DEF Next, Serve

\* Only s changes.
Elsewhere(s) == \A r \in Reqs \ {s} : doc'[r] = doc[r] /\ ledger'[r] = ledger[r]

\* What Fresh says of one request.
FreshOne(r) ==
  /\ One(r, Sub)
  /\ doc[r] = "none" => /\ \A t \in Open : t.r = r => t.do = "create"
                        /\ \A y \in Years : ledger[r]["reserve"][y] = 0
  /\ Mine(r, {"create"}) # {} => doc[r] = "none"
  /\ \A t \in Mine(r, {"gate", "row"}) : ledger[r]["reserve"][t.y] = 0

\* Fresh, request by request.
LEMMA FreshEach == Fresh <=> \A r \in Reqs : FreshOne(r)
  BY DEF Fresh, FreshOne

\* The same of the next state.
LEMMA FreshEachNext == (\A r \in Reqs : FreshOne(r)') => Fresh'
  BY DEF Fresh, FreshOne

\* A turn about one request leaves the others fresh.
LEMMA FreshOthers ==
  ASSUME Fresh, NEW w \in Servers, NEW s, NEW old, NEW new, Turned(w, s, old, new),
         Elsewhere(s), NEW r \in Reqs \ {s}
  PROVE  FreshOne(r)'
<1>1. FreshOne(r)
  BY FreshEach
<1>2. doc'[r] = doc[r] /\ ledger'[r] = ledger[r]
  BY DEF Elsewhere
<1>3. /\ One(r, Sub)' /\ Mine(r, {"create"})' = Mine(r, {"create"})
      /\ Mine(r, {"gate", "row"})' = Mine(r, {"gate", "row"})
  BY <1>1, OthersTasks DEF FreshOne
<1>4. \A t \in Open' : t.r = r => t \in Open
  BY OpenTurned DEF Turned
<1> QED BY <1>1, <1>2, <1>3, <1>4 DEF FreshOne

\* The request of a step has been inserted.
LEMMA FreshTurn ==
  ASSUME Fresh, NEW w \in Servers, NEW s \in Reqs, NEW old, NEW new, Turned(w, s, old, new),
         Elsewhere(s), doc[s] # "none", doc'[s] # "none", \A t \in new : t.do # "create",
         (\E t \in new : t.do \in Sub) => Mine(s, Sub) \subseteq Tasks(w),
         \A t \in new \cup (Mine(s, {"gate", "row"}) \ old) :
           t.do \in {"gate", "row"} => ledger'[s]["reserve"][t.y] = 0
  PROVE  Fresh'
<1>1. FreshOne(s)
  BY FreshEach
<1>2. One(s, Sub)'
  BY <1>1, OwnTasks DEF FreshOne
<1>3. Mine(s, {"create"})' = {}
  <2> SUFFICES ASSUME NEW t \in Mine(s, {"create"})' PROVE FALSE
    OBVIOUS
  <2>1. t \in Open /\ t.r = s /\ t.do = "create"
    BY OpenTurned DEF Mine
  <2>2. t \in Mine(s, {"create"})
    BY <2>1 DEF Mine
  <2> QED BY <1>1, <2>2 DEF FreshOne
<1>4. ASSUME NEW t \in Mine(s, {"gate", "row"})' PROVE ledger'[s]["reserve"][t.y] = 0
  <2>1. t \in Open' /\ t.r = s /\ t.do \in {"gate", "row"}
    BY DEF Mine
  <2>2. t \in Mine(s, {"gate", "row"}) \ old \/ t \in new
    <3> SUFFICES ASSUME t \notin new PROVE t \in Open /\ t \notin old
      BY <2>1 DEF Mine
    <3>1. t \in Open
      BY <2>1, OpenTurned
    <3>2. ASSUME t \in old PROVE FALSE
      <4>1. t \in Tasks(w) /\ t \in Mine(s, Sub)
        BY <2>1, <3>1, <3>2 DEF Turned, Mine, Sub
      <4>2. PICK v \in Servers : t \in Tasks(v)'
        BY <2>1 DEF Open
      <4>3. v # w /\ t \in Tasks(v)
        BY <3>2, <4>2 DEF Turned
      <4> QED BY <1>1, <4>1, <4>3 DEF FreshOne, One
    <3> QED BY <3>1, <3>2
  <2> QED BY <2>1, <2>2
<1>5. FreshOne(s)'
  BY <1>2, <1>3, <1>4 DEF FreshOne
<1>6. \A r \in Reqs \ {s} : FreshOne(r)'
  BY FreshOthers
<1> QED BY <1>5, <1>6, FreshEachNext

\* And its reservations stay as they are.
LEMMA FreshStep ==
  ASSUME Fresh, NEW w \in Servers, NEW s \in Reqs, NEW old, NEW new, Turned(w, s, old, new),
         Elsewhere(s), doc[s] # "none", doc'[s] # "none", ledger'[s]["reserve"] = ledger[s]["reserve"],
         \A t \in new : t.do \notin {"create", "gate", "row"},
         (\E t \in new : t.do \in Sub) => Mine(s, Sub) \subseteq Tasks(w)
  PROVE  Fresh'
<1>1. \A t \in Mine(s, {"gate", "row"}) : ledger'[s]["reserve"][t.y] = 0
  BY DEF Fresh
<1> QED BY <1>1, FreshTurn

\* The documents of the tasks that follow the insertion.
LEMMA Inserted ==
  ASSUME Fresh, Lists, NEW w \in Servers, todo[w] # <<>>, Head(todo[w]).do # "create"
  PROVE  doc[Head(todo[w]).r] # "none" /\ Head(todo[w]).r \in Reqs
<1>1. Head(todo[w]) \in Open /\ GoodTask(Head(todo[w]))
  BY HeadAndTail, TasksAreElements DEF Lists, Open
<1> QED BY <1>1 DEF Fresh, GoodTask

\* The tasks of a submission are all in the call that has one of them, in their order.
LEMMA SoleSub ==
  ASSUME Fresh, Lists, NEW w \in Servers, todo[w] # <<>>, NEW t, t = Head(todo[w]), t.do \in Sub
  PROVE  /\ t.r \in Reqs /\ t \in Mine(t.r, Sub) /\ Mine(t.r, Sub) \subseteq Tasks(w)
         /\ \A u \in Mine(t.r, Sub) \ {t} : Rank(t) < Rank(u) /\ t.do \notin Final
<1>1. GoodTask(t) /\ t.r \in Reqs
  BY HeadAndTail DEF Lists, GoodTask
<1>2. One(t.r, Sub)
  BY <1>1 DEF Fresh
<1> QED BY <1>1, <1>2, HeadOfMine

\* A step that leaves every request as it is.
LEMMA FreshSteady ==
  ASSUME Fresh, Steady(Sub), Steady({"create"}), Steady({"gate", "row"}),
         UNCHANGED <<doc, ledger>>,
         \A t \in Open' : t \notin Open => doc[t.r] # "none"
  PROVE  Fresh'
<1> SUFFICES ASSUME NEW r \in Reqs PROVE FreshOne(r)'
  BY FreshEachNext
<1>1. FreshOne(r)
  BY FreshEach
<1>2. /\ One(r, Sub)' /\ Mine(r, {"create"})' = Mine(r, {"create"})
      /\ Mine(r, {"gate", "row"})' = Mine(r, {"gate", "row"})
  BY <1>1 DEF FreshOne, Steady
<1> QED BY <1>1, <1>2 DEF FreshOne

\* Initially no request was inserted.
LEMMA FreshInitially == Init => Fresh
<1> SUFFICES ASSUME Init PROVE Fresh
  OBVIOUS
<1>1. \A w \in Servers : Tasks(w) = {}
  BY TasksAreElements, EmptyList DEF Init
<1>2. Open = {}
  BY <1>1 DEF Open
<1>3. \A r, sorts : Mine(r, sorts) = {}
  BY <1>2 DEF Mine
<1>4. \A r \in Reqs : \A y \in Years : ledger[r]["reserve"][y] = 0
  BY DEF Init, Kinds
<1> QED BY <1>2, <1>3, <1>4 DEF Fresh, One

\* A write of a status leaves the other requests, and the ledger, alone.
LEMMA ElsewhereSet ==
  ASSUME Types, NEW r \in Reqs, NEW status, Set(r, status), UNCHANGED ledger
  PROVE  Elsewhere(r) /\ doc'[r] = status /\ ledger'[r]["reserve"] = ledger[r]["reserve"]
BY DocWrites DEF Elsewhere

\* No step inserts a request, or enters its days, a second time.
LEMMA NextFresh == Types /\ Lists /\ Fresh /\ [Next]_vars => Fresh'
<1> SUFFICES ASSUME Types, Lists, Fresh, [Next]_vars PROVE Fresh'
  OBVIOUS
<1>u. ASSUME NEW r, UNCHANGED <<doc, ledger>>
      PROVE  Elsewhere(r) /\ doc'[r] = doc[r] /\ ledger'[r]["reserve"] = ledger[r]["reserve"]
  BY <1>u DEF Elsewhere
<1>1. ASSUME NEW w \in Servers, Gate(w) PROVE Fresh'
  <2> DEFINE t == Head(todo[w])
  <2>1. todo[w] # <<>> /\ t.do = "gate" /\ t \in Open /\ GoodTask(t)
    BY <1>1, DoingTask DEF Gate
  <2>2. UNCHANGED <<doc, ledger>>
    BY <1>1 DEF Gate
  <2>3. t.r \in Reqs /\ doc[t.r] # "none"
    BY <2>1, Inserted
  <2>4. Mine(t.r, Sub) \subseteq Tasks(w)
    BY <2>1, SoleSub DEF Sub
  <2>5. ledger[t.r]["reserve"][t.y] = 0
    BY <2>1, <2>3 DEF Fresh, Mine
  <2>6. \A u \in Mine(t.r, {"gate", "row"}) : ledger'[t.r]["reserve"][u.y] = 0
    BY <2>2, <2>3 DEF Fresh
  <2>7. CASE Covers(t.y, t.n)
    <3> DEFINE u == Task("row", t.r, t.y, t.n)
    <3>1. Turned(w, t.r, {t}, {u})
      BY <1>1, <2>7, GateKept
    <3>2. u.do = "row" /\ u.y = t.y
      BY DEF Task
    <3> HIDE DEF t, u
    <3> QED BY <1>u, <2>2, <2>3, <2>4, <2>5, <2>6, <3>1, <3>2, FreshTurn
  <2>8. CASE ~Covers(t.y, t.n)
    <3> DEFINE new == Undoing(t.r, t.y) \cup {Task("drop", t.r, 0, 0)}
    <3>1. Turned(w, t.r, Tasks(w), new)
      BY <1>1, <2>8, GateLost
    <3>2. \A u \in new : u.do \notin {"create", "gate", "row"}
      BY DEF Undoing, Task
    <3> HIDE DEF t, new
    <3> QED BY <1>u, <2>2, <2>3, <2>4, <3>1, <3>2, FreshStep
  <2> QED BY <2>7, <2>8
<1>2. ASSUME NEW w \in Servers, ReserveRow(w) PROVE Fresh'
  <2> DEFINE t == Head(todo[w])
  <2>1. todo[w] # <<>> /\ t.do = "row" /\ t \in Open /\ GoodTask(t)
    BY <1>2, DoingTask DEF ReserveRow, Insert
  <2>2. UNCHANGED doc
    BY <1>2 DEF ReserveRow, Insert
  <2>3. t.r \in Reqs /\ doc[t.r] # "none"
    BY <2>1, Inserted
  <2>4. /\ Turned(w, t.r, {t}, {})
        /\ ledger' = [ledger EXCEPT ![t.r]["reserve"][t.y] = t.n]
    BY <1>2, RowStep
  <2>5. t.y \in Years /\ t.n \in 0..Full[t.r][t.y]
    BY <2>1, <2>3, FullType DEF GoodTask, Yearly, Plain
  <2>6. \A u \in Mine(t.r, Sub) \ {t} : Rank(t) < Rank(u)
    BY <2>1, SoleSub DEF Sub
  <2> HIDE DEF t
  <2>7. /\ \A s \in Reqs : s # t.r => ledger'[s] = ledger[s]
        /\ \A z \in Years : z # t.y => ledger'[t.r]["reserve"][z] = ledger[t.r]["reserve"][z]
    <3>1. "reserve" \in Kinds
      BY DEF Kinds
    <3>2. \A s \in Reqs : s # t.r => ledger'[s] = ledger[s]
      BY <2>3, <2>4, <2>5, <3>1, LedgerWrites
    <3>3. \A s \in Reqs, j \in Kinds, z \in Years :
            <<s, j, z>> # <<t.r, "reserve", t.y>> => ledger'[s][j][z] = ledger[s][j][z]
      BY <2>3, <2>4, <2>5, <3>1, LedgerWrites, SMTT(30)
    <3> QED BY <2>3, <3>1, <3>2, <3>3
  <2>8. ASSUME NEW u \in Mine(t.r, {"gate", "row"}) \ {t} PROVE ledger'[t.r]["reserve"][u.y] = 0
    <3>1. u \in Mine(t.r, Sub) /\ u.do \in {"gate", "row"} /\ u \in Open
      BY DEF Mine, Sub
    <3>2. u.y \in Years
      BY <3>1, TaskType DEF GoodTask, Yearly, Plain
    <3>3. u.y # t.y
      <4>1. Rank(t) = 1 + t.y /\ Rank(u) = 1 + u.y
        BY <2>1, <3>1 DEF Rank, Starting
      <4>2. Rank(t) < Rank(u)
        BY <2>6, <3>1
      <4> QED BY <2>5, <3>2, <4>1, <4>2 DEF Years
    <3>4. ledger[t.r]["reserve"][u.y] = 0
      BY <2>3 DEF Fresh
    <3> QED BY <2>7, <3>2, <3>3, <3>4
  <2>9. Elsewhere(t.r)
    BY <2>2, <2>7 DEF Elsewhere
  <2> QED BY <2>2, <2>3, <2>4, <2>8, <2>9, FreshTurn
<1>3. ASSUME NEW w \in Servers, NEW t, t = Head(todo[w]), NEW k \in {"release", "consume"}, NEW next,
             Entered(t, w, k, next), LeadsTo(k, next), UNCHANGED doc
      PROVE  Fresh'
  <2>1. todo[w] # <<>> /\ t.do = k /\ GoodTask(t)
    BY <1>3 DEF Entered
  <2>2. t.r \in Reqs /\ doc[t.r] # "none"
    BY <1>3, <2>1, Inserted
  <2>3. t.y \in Years /\ t.n \in 0..Full[t.r][t.y]
    BY <2>1, <2>2, FullType DEF GoodTask, Yearly, Plain
  <2>4. CASE ledger[t.r][k][t.y] = 0
    <3> DEFINE u == Task(next, t.r, t.y, t.n)
    <3>1. Turned(w, t.r, {t}, {u}) /\ ledger' = [ledger EXCEPT ![t.r][k][t.y] = t.n]
      BY <1>3, <2>4 DEF Entered
    <3>2. u.do \notin Sub /\ u.do \notin {"create", "gate", "row"}
      BY <1>3 DEF Task, Sub, LeadsTo
    <3>3. k \in Kinds /\ "reserve" \in Kinds /\ k # "reserve"
      BY DEF Kinds
    <3>4. /\ \A s \in Reqs : s # t.r => ledger'[s] = ledger[s]
          /\ ledger'[t.r]["reserve"] = ledger[t.r]["reserve"]
      BY <2>2, <2>3, <3>1, <3>3, LedgerWrites, SMTT(30)
    <3>5. Elsewhere(t.r)
      BY <1>3, <3>4 DEF Elsewhere
    <3> HIDE DEF u
    <3> QED BY <1>3, <2>2, <3>1, <3>2, <3>4, <3>5, FreshStep, SMTT(30)
  <2>5. CASE ledger[t.r][k][t.y] # 0
    <3>1. Turned(w, t.r, {t}, {}) /\ ledger' = ledger
      BY <1>3, <2>5 DEF Entered
    <3> QED BY <1>u, <1>3, <2>2, <3>1, FreshStep
  <2> QED BY <2>4, <2>5
<1>4. ASSUME NEW w \in Servers, Release(w) \/ Consume(w) PROVE Fresh'
  <2>1. UNCHANGED doc
    BY <1>4 DEF Release, Consume, Insert
  <2>2. CASE Release(w)
    BY <1>3, <2>1, <2>2, ReleaseStep DEF LeadsTo
  <2>3. CASE Consume(w)
    BY <1>3, <2>1, <2>3, ConsumeStep DEF LeadsTo
  <2> QED BY <1>4, <2>2, <2>3
<1>5. ASSUME NEW w \in Servers, NEW do, Doing(do, w), do # "create", Then(w, <<>>), UNCHANGED ledger,
             \/ UNCHANGED doc
             \/ \E status : status # "none" /\ Set(Head(todo[w]).r, status)
      PROVE  Fresh'
  <2> DEFINE t == Head(todo[w])
  <2>1. todo[w] # <<>> /\ t.do = do
    BY <1>5 DEF Doing
  <2>2. t.r \in Reqs /\ doc[t.r] # "none"
    BY <1>5, <2>1, Inserted
  <2>3. Turned(w, t.r, {t}, {})
    BY <1>5, TakenStep
  <2>4. Elsewhere(t.r) /\ doc'[t.r] # "none" /\ ledger'[t.r]["reserve"] = ledger[t.r]["reserve"]
    BY <1>u, <1>5, <2>2, ElsewhereSet
  <2> HIDE DEF t
  <2> QED BY <2>2, <2>3, <2>4, FreshStep
<1>6. ASSUME NEW w \in Servers,
             Undo(w) \/ Spend(w) \/ Drop(w) \/ Lose(w)
      PROVE  Fresh'
  <2>1. CASE Undo(w)
    BY <1>5, <2>1 DEF Undo
  <2>2. CASE Spend(w)
    BY <1>5, <2>2 DEF Spend
  <2>3. CASE Drop(w)
    BY <1>5, <2>3 DEF Drop
  <2>4. CASE Lose(w)
    BY <1>5, <2>4 DEF Lose
  <2> QED BY <1>6, <2>1, <2>2, <2>3, <2>4
<1>7. ASSUME NEW w \in Servers, Create(w), NEW t, t = Head(todo[w]) PROVE Fresh'
  <2> DEFINE new == Entries("gate", t.r, Full[t.r]) \cup {Task("recheck", t.r, 0, 0)}
  <2>1. todo[w] # <<>> /\ t.do = "create" /\ t \in Open /\ GoodTask(t)
    BY <1>7, DoingTask DEF Create
  <2>2. t.r \in Reqs /\ t \in Mine(t.r, {"create"})
    BY <2>1 DEF Mine, GoodTask
  <2>3. doc[t.r] = "none"
    BY <2>2 DEF Fresh
  <2>4. Turned(w, t.r, {t}, new)
    BY <1>7, CreateStep
  <2>5. \E status : status # "none" /\ Set(t.r, status)
    BY <1>7 DEF Create
  <2>6. ledger' = ledger
    BY <1>7 DEF Create
  <2>7. \A u \in new : u.do \in {"gate", "recheck"} /\ u.do \in Sub
    BY DEF Entries, Task, Sub
  <2>8. \A u \in Mine(t.r, Sub) : u = t
    BY <1>7, <2>1, SoleSub DEF Sub, Final
  <2> HIDE DEF new
  <2>9. Elsewhere(t.r) /\ doc'[t.r] # "none"
    BY <2>2, <2>5, <2>6, ElsewhereSet
  <2>10. t \in Tasks(w)
    BY <2>4 DEF Turned
  <2>11. One(t.r, Sub) /\ One(t.r, {"create"})
    <3>1. One(t.r, Sub)
      BY <2>2 DEF Fresh
    <3>2. Mine(t.r, {"create"}) \subseteq Mine(t.r, Sub)
      BY DEF Mine, Sub
    <3> QED BY <3>1, <3>2 DEF One
  <2>20. Mine(t.r, Sub) \subseteq Tasks(w)
    BY <2>8, <2>10
  <2>12. One(t.r, Sub)' /\ Mine(t.r, Sub)' = (Mine(t.r, Sub) \ {t}) \cup {u \in new : u.do \in Sub}
    BY <2>4, <2>11, <2>20, OwnTasks
  <2>13. Mine(t.r, Sub)' \subseteq new
    BY <2>8, <2>12
  <2>14. Mine(t.r, {"create"})' \subseteq Mine(t.r, Sub)' /\ Mine(t.r, {"gate", "row"})' \subseteq Mine(t.r, Sub)'
    BY DEF Mine, Sub
  <2>15. Mine(t.r, {"create"})' = {}
    <3>1. \A u \in Mine(t.r, {"create"})' : u.do = "create" /\ u \in new
      BY <2>13, <2>14 DEF Mine
    <3> QED BY <2>7, <3>1
  <2>16. ASSUME NEW u \in Mine(t.r, {"gate", "row"})' PROVE ledger'[t.r]["reserve"][u.y] = 0
    <3>1. u \in Open' /\ u.do \in {"gate", "row"}
      BY DEF Mine
    <3>2. u \in new
      BY <2>13, <2>14
    <3>3. u.y \in Years
      BY <3>1, <3>2 DEF new, Entries, Task
    <3>4. ledger[t.r]["reserve"][u.y] = 0
      BY <2>2, <2>3, <3>3 DEF Fresh
    <3> QED BY <2>6, <3>4
  <2>17. FreshOne(t.r)'
    <3>1. doc'[t.r] # "none" /\ One(t.r, Sub)' /\ Mine(t.r, {"create"})' = {}
      BY <2>9, <2>12, <2>15
    <3>2. FreshOne(t.r)' <=>
            /\ One(t.r, Sub)'
            /\ doc'[t.r] = "none" => /\ \A u \in Open' : u.r = t.r => u.do = "create"
                                     /\ \A y \in Years : ledger'[t.r]["reserve"][y] = 0
            /\ Mine(t.r, {"create"})' # {} => doc'[t.r] = "none"
            /\ \A u \in Mine(t.r, {"gate", "row"})' : ledger'[t.r]["reserve"][u.y] = 0
      BY DEF FreshOne
    <3> QED BY <2>16, <3>1, <3>2
  <2>18. ASSUME NEW r \in Reqs \ {t.r} PROVE FreshOne(r)'
    BY <2>4, <2>9, FreshOthers
  <2> QED BY <2>17, <2>18, FreshEachNext
<1>8. ASSUME NEW w \in Servers, Recheck(w) PROVE Fresh'
  <2> DEFINE t == Head(todo[w])
             new == Entries("release", t.r, Full[t.r]) \cup {Task("lose", t.r, 0, 0)}
  <2>1. todo[w] # <<>> /\ t.do = "recheck"
    BY <1>8, DoingTask DEF Recheck
  <2>2. t.r \in Reqs /\ doc[t.r] # "none"
    BY <2>1, Inserted
  <2>3. Mine(t.r, Sub) \subseteq Tasks(w)
    BY <2>1, SoleSub DEF Sub
  <2>4. Turned(w, t.r, {t}, {}) \/ Turned(w, t.r, {t}, new)
    BY <1>8, RecheckStep
  <2>5. \A u \in new : u.do \notin {"create", "gate", "row"}
    BY DEF Entries, Task
  <2>6. UNCHANGED <<doc, ledger>>
    BY <1>8 DEF Recheck
  <2> HIDE DEF t, new
  <2> QED BY <1>u, <2>2, <2>3, <2>4, <2>5, <2>6, FreshStep
<1>9. ASSUME NEW w \in Servers, CatchUp(w) PROVE Fresh'
  <2> DEFINE t == Head(todo[w])
  <2>1. todo[w] # <<>> /\ t.do # "create"
    BY <1>9, DoingTask DEF CatchUp
  <2>2. t.r \in Reqs /\ doc[t.r] # "none"
    BY <2>1, Inserted
  <2>3. UNCHANGED <<doc, ledger>>
    BY <1>9 DEF CatchUp
  <2>4. PICK new : Turned(w, t.r, {t}, new) /\ \A u \in new : u.do \in {"activate", "complete"}
    <3>1. PICK new \in SUBSET {Task("activate", t.r, 0, 0), Task("complete", t.r, 0, 0)} :
            Turned(w, t.r, {t}, new)
      BY <1>9, CatchUpStep
    <3>2. \A u \in new : u.do \in {"activate", "complete"}
      BY <3>1 DEF Task
    <3> QED BY <3>1, <3>2
  <2>5. \A u \in new : u.do \notin {"create", "gate", "row"} /\ u.do \notin Sub
    BY <2>4 DEF Sub
  <2> HIDE DEF t
  <2> QED BY <1>u, <2>2, <2>3, <2>4, <2>5, FreshStep
<1>10. ASSUME NEW w \in Servers, Activate(w) PROVE Fresh'
  <2> DEFINE t == Head(todo[w])
  <2>1. todo[w] # <<>> /\ t.do # "create"
    BY <1>10, DoingTask DEF Activate
  <2>2. t.r \in Reqs /\ doc[t.r] # "none"
    BY <2>1, Inserted
  <2>3. UNCHANGED ledger
    BY <1>10 DEF Activate
  <2>4. CASE doc[t.r] = "approved"
    <3>1. Turned(w, t.r, {t}, {}) /\ Set(t.r, "active")
      BY <1>10, <2>4, ActivateStep
    <3> HIDE DEF t
    <3> QED BY <2>2, <2>3, <3>1, ElsewhereSet, FreshStep
  <2>5. CASE doc[t.r] # "approved"
    <3>1. PICK old : Turned(w, t.r, old, {})
      BY <1>10, <2>5, ActivateStep
    <3>2. UNCHANGED doc
      BY <1>10, <2>5, ActivateStep
    <3> HIDE DEF t
    <3> QED BY <1>u, <2>2, <2>3, <3>1, <3>2, FreshStep
  <2> QED BY <2>4, <2>5
<1>11. ASSUME NEW w \in Servers, Complete(w) PROVE Fresh'
  <2> DEFINE t == Head(todo[w])
             new == Closing(t.r, End[t.r] + 1)
  <2>1. todo[w] # <<>> /\ t.do # "create"
    BY <1>11, DoingTask DEF Complete
  <2>2. t.r \in Reqs /\ doc[t.r] # "none"
    BY <2>1, Inserted
  <2>3. UNCHANGED ledger
    BY <1>11 DEF Complete
  <2>4. \A u \in new : u.do \notin {"create", "gate", "row"} /\ u.do \notin Sub
    BY ClosingTasks DEF Sub
  <2>5. \/ Turned(w, t.r, {t}, new) /\ Set(t.r, "completed")
        \/ Turned(w, t.r, {t}, {}) /\ UNCHANGED doc
    BY <1>11, CompleteStep DEF Complete
  <2> HIDE DEF t, new
  <2> QED BY <1>u, <2>2, <2>3, <2>4, <2>5, ElsewhereSet, FreshStep
<1>12. ASSUME NEW w \in Workers, NEW r \in Reqs, Submit(w, r) PROVE Fresh'
  <2> DEFINE u == Task("create", r, 0, 0)
  <2>1. w \in Servers /\ Turned(w, r, {}, {u})
    BY <1>12, SubmitStep DEF Servers
  <2>2. doc[r] = "none" /\ UNCHANGED <<doc, ledger>>
    BY <1>12 DEF Submit
  <2>3. \A t \in Open : t.r # r
    BY <1>12 DEF Submit, InFlight, Open
  <2>4. u.do = "create" /\ u.r = r
    BY DEF Task
  <2>5. \A sorts : Mine(r, sorts) = {}
    BY <2>3 DEF Mine
  <2> HIDE DEF u
  <2>6. \A t \in Open' : t.r = r => t = u
    BY <2>1, <2>3, OpenTurned
  <2>7. One(r, Sub)'
    BY <2>1, <2>5, OwnTasks DEF One
  <2>8. \A t \in Mine(r, {"gate", "row"})' : FALSE
    BY <2>4, <2>6 DEF Mine
  <2>9. \A y \in Years : ledger[r]["reserve"][y] = 0
    BY <2>2 DEF Fresh
  <2>10. FreshOne(r)'
    BY <2>2, <2>4, <2>6, <2>7, <2>8, <2>9 DEF FreshOne
  <2>11. \A s \in Reqs \ {r} : FreshOne(s)'
    BY <1>u, <2>1, <2>2, FreshOthers
  <2> QED BY <2>10, <2>11, FreshEachNext
<1>13. ASSUME NEW w \in Workers, NEW r \in Reqs, Decide(w, r) \/ Cancel(w, r) PROVE Fresh'
  <2>1. PICK status : Move(w, r, status) /\ status # "none"
    BY <1>13 DEF Decide, Cancel, Verdicts
  <2>2. doc[r] # "none"
    BY <1>13 DEF Decide, Cancel, Pending
  <2> DEFINE new == CASE status \in {"rejected", "cancelled"} -> Entries("release", r, Full[r])
                      [] status = "approved"                  -> {Task("catchUp", r, 0, 0)}
                      [] OTHER                                -> {}
  <2>3. w \in Servers /\ Turned(w, r, {}, new)
    BY <2>1, MoveStep DEF Servers
  <2>4. \A u \in new : u.do \notin {"create", "gate", "row"} /\ u.do \notin Sub
    BY DEF Entries, Task, Sub
  <2>5. Set(r, status) /\ UNCHANGED ledger
    BY <2>1 DEF Move
  <2> HIDE DEF new
  <2> QED BY <2>1, <2>2, <2>3, <2>4, <2>5, ElsewhereSet, FreshStep
<1>14. ASSUME NEW w \in Workers, NEW r \in Reqs, EarlyReturn(w, r) PROVE Fresh'
  <2>1. PICK d : Turned(w, r, {}, Closing(r, d))
    BY <1>14, EarlyReturnStep
  <2>2. \A u \in Closing(r, d) : u.do \notin {"create", "gate", "row"} /\ u.do \notin Sub
    BY ClosingTasks DEF Sub
  <2>3. doc[r] # "none" /\ Set(r, "completed") /\ UNCHANGED ledger /\ w \in Servers
    BY <1>14 DEF EarlyReturn, Servers
  <2> QED BY <2>1, <2>2, <2>3, ElsewhereSet, FreshStep
<1>15. ASSUME NEW w \in Jobs, NEW do \in {"activate", "complete"}, NEW due \in SUBSET Reqs,
              Begin(w, Calls(do, due)), UNCHANGED <<doc, ledger>>, \A r \in due : doc[r] # "none"
       PROVE  Fresh'
  <2>1. /\ w \in Servers /\ Tasks(w) = {} /\ \A v \in Servers \ {w} : Tasks(v)' = Tasks(v)
        /\ \A t \in Tasks(w)' : t.do = do /\ t.r \in due
    BY <1>15, JobStep DEF Servers
  <2>2. Steady(Sub) /\ Steady({"create"}) /\ Steady({"gate", "row"})
    BY <2>1, SteadyJob DEF Sub
  <2>3. \A t \in Open' : t \notin Open => doc[t.r] # "none"
    BY <1>15, <2>1 DEF Open
  <2> QED BY <1>15, <2>2, <2>3, FreshSteady
<1>16. CASE ActivateDueStarted
  <2> DEFINE due == {r \in Reqs : doc[r] = "approved" /\ Start[r] <= today}
  <2>1. Begin("activateStarted", Calls("activate", due)) /\ UNCHANGED <<doc, ledger>>
    BY <1>16 DEF ActivateDueStarted
  <2>2. due \in SUBSET Reqs /\ \A r \in due : doc[r] # "none"
    OBVIOUS
  <2> HIDE DEF due
  <2> QED BY <1>15, <2>1, <2>2 DEF Jobs
<1>17. CASE CompleteDueEnded
  <2> DEFINE due == {r \in Reqs : doc[r] = "active" /\ End[r] < today}
  <2>1. Begin("completeEnded", Calls("complete", due)) /\ UNCHANGED <<doc, ledger>>
    BY <1>17 DEF CompleteDueEnded
  <2>2. due \in SUBSET Reqs /\ \A r \in due : doc[r] # "none"
    OBVIOUS
  <2> HIDE DEF due
  <2> QED BY <1>15, <2>1, <2>2 DEF Jobs
<1>18. CASE Tick \/ UNCHANGED vars
  <2>1. UNCHANGED <<doc, ledger, todo>>
    BY <1>18 DEF Tick, vars
  <2>2. Steady(Sub) /\ Steady({"create"}) /\ Steady({"gate", "row"})
    BY <2>1, SteadyIdle
  <2>3. Open' = Open
    BY <2>1, ServersUnchanged
  <2> QED BY <2>1, <2>2, <2>3, FreshSteady
<1>19. ASSUME NEW w \in Servers, Fail(w) PROVE Fresh'
  <2> DEFINE t == Head(todo[w])
  <2>1. UNCHANGED <<doc, ledger>>
    BY <1>19 DEF Fail
  <2>2. /\ t \in Tasks(w) /\ GoodTask(t) /\ \A v \in Servers \ {w} : Tasks(v)' = Tasks(v)
        /\ \/ Tasks(w)' \subseteq Tasks(w)
           \/ Turned(w, t.r, {t}, {})
           \/ /\ Tasks(w)' = {Task("drop", t.r, 0, 0)}
              /\ w \in Workers /\ \A u \in Tasks(w) : u.r = t.r
              /\ t.do \in {"gate", "row"} \/ \E u \in Tasks(w) : u.do = "drop"
    BY <1>19, FailStep
  <2> HIDE DEF t
  <2>3. CASE Tasks(w)' \subseteq Tasks(w)
    <3>1. \A v \in Servers : Tasks(v)' \subseteq Tasks(v)
      BY <2>2, <2>3
    <3>2. Open' \subseteq Open
      BY <3>1 DEF Open
    <3>3. \A r, sorts : Mine(r, sorts)' \subseteq Mine(r, sorts)
      BY <3>2 DEF Mine
    <3>4. \A r \in Reqs : One(r, Sub)'
      BY <3>1, <3>3 DEF One, Fresh
    <3> QED BY <2>1, <3>2, <3>3, <3>4 DEF Fresh
  <2>4. CASE Turned(w, t.r, {t}, {})
    <3>1. Tasks(w)' \subseteq Tasks(w)
      BY <2>4 DEF Turned
    <3> QED BY <2>3, <3>1
  <2>5. CASE /\ Tasks(w)' = {Task("drop", t.r, 0, 0)}
             /\ w \in Workers /\ \A u \in Tasks(w) : u.r = t.r
             /\ t.do \in {"gate", "row"} \/ \E u \in Tasks(w) : u.do = "drop"
    <3> DEFINE new == {Task("drop", t.r, 0, 0)}
    <3>1. \A u \in new : u.r = t.r /\ u.do = "drop"
      BY DEF Task
    <3>2. Turned(w, t.r, Tasks(w), new)
      BY <2>2, <2>5, <3>1 DEF Turned
    <3>3. t.r \in Reqs /\ t \in Open
      BY <2>2 DEF GoodTask, Open
    <3>4. \E u \in Tasks(w) : u.r = t.r /\ u.do \in Sub /\ u.do # "create" /\ u \in Open
      BY <2>2, <2>5 DEF Sub, Open
    <3>5. doc[t.r] # "none"
      BY <3>3, <3>4 DEF Fresh
    <3>6. Mine(t.r, Sub) \subseteq Tasks(w)
      BY <3>3, <3>4 DEF Fresh, One, Mine, Open
    <3> HIDE DEF new
    <3> QED BY <1>u, <2>1, <3>1, <3>2, <3>3, <3>5, <3>6, FreshStep
  <2> QED BY <2>2, <2>3, <2>4, <2>5
<1> QED BY <1>1, <1>2, <1>4, <1>6, <1>7, <1>8, <1>9, <1>10, <1>11, <1>12, <1>13, <1>14, <1>16,
           <1>17, <1>18, <1>19 DEF Next, Serve

-----------------------------------------------------------------------------
(***************************************************************************)
(* How the place of a request changes                                      *)
(***************************************************************************)
\* A holds accounting tasks of r, and e its entries.
Books(r, e, A) ==
  /\ r \in Reqs
  /\ e \in [Kinds -> [Years -> Nat]]
  /\ \A k \in Kinds, y \in Years : e[k][y] <= Full[r][y]
  /\ \A t \in A : GoodTask(t) /\ t.r = r /\ t.do \in Accounting

\* t is the next of the tasks A.
NextTask(t, A) == t \in A /\ \A u \in A \ {t} : Rank(t) < Rank(u) /\ t.do \notin Final

\* The kinds of the ledger's entries.
LEMMA KindsAre == {"reserve", "release", "consume"} = Kinds
BY DEF Kinds

\* The tasks of submit tell what it is doing with its request.
LEMMA Submitted ==
  ASSUME NEW r, NEW st \in Statuses, NEW e, NEW A, NEW failed, NEW lost,
         Place(r, st, e, A, failed, lost), NEW t \in A
  PROVE  /\ t.do \in {"gate", "row", "recheck"} => st \in Pending /\ ~lost /\ Reserving(r, e, A)
         /\ t.do = "lose" => st \in Pending /\ ~lost /\ Losing(r, e, A)
         /\ t.do = "drop" => st \in Pending /\ Deleting(r, e, A)
         /\ t.do = "create" => st = "none"
<1>1. t.do \in Does(A)
  BY DEF Does
<1> QED BY <1>1 DEF Place, Statuses, Blocking, Pending, Reserving, Losing, Deleting, Abandoned, Holding

\* A task that is last, and next, is the only one.
LEMMA OnlyTask ==
  ASSUME NEW A, NEW t, NextTask(t, A), t.do \in Final
  PROVE  A = {t} /\ A \ {t} = {}
BY DEF NextTask

\* The gate took the days of a year.
LEMMA PlaceGate ==
  ASSUME NEW r, NEW e, NEW A, Books(r, e, A), NEW st \in Statuses, NEW failed, NEW lost,
         Place(r, st, e, A, failed, lost), NEW t, NextTask(t, A), t.do = "gate"
  PROVE  Place(r, st, e, (A \ {t}) \cup {Task("row", r, t.y, t.n)}, failed, lost)
<1> DEFINE u == Task("row", r, t.y, t.n)
           B == (A \ {t}) \cup {u}
<1>1. st \in Pending /\ ~lost /\ Reserving(r, e, A) /\ t \in A
  BY Submitted DEF NextTask
<1>2. u.do = "row" /\ u.y = t.y /\ u.n = t.n
  BY DEF Task
<1> HIDE DEF u
<1>3. Reserving(r, e, B)
  <2>1. Does(B) \subseteq {"gate", "row", "recheck"} /\ "recheck" \in Does(B)
    BY <1>1, <1>2 DEF Reserving, Does
  <2>2. \A x \in B : x.do \in {"gate", "row"} => e["reserve"][x.y] = 0 /\ x.n = Full[r][x.y]
    BY <1>1, <1>2 DEF Reserving
  <2>3. ASSUME NEW y \in Years
        PROVE  \/ e["reserve"][y] = Full[r][y]
               \/ e["reserve"][y] = 0 /\ \E x \in B : x.do \in {"gate", "row"} /\ x.y = y
    BY <1>1, <1>2 DEF Reserving
  <2>4. ASSUME NEW x \in B, NEW z \in B, x.do = "row", z.do \in {"gate", "row"} PROVE x.y <= z.y
    <3>1. x.do = "row" /\ x \in A => x.y <= t.y
      BY <1>1 DEF Reserving
    <3>2. ASSUME NEW v \in A \ {t}, v.do \in {"gate", "row"} PROVE v.y \in Years /\ t.y < v.y
      <4>1. v.y \in Years /\ t.y \in Years
        BY <1>1, <3>2 DEF Books, GoodTask, Plain
      <4>2. Rank(t) = 1 + t.y /\ Rank(v) = 1 + v.y
        BY <3>2 DEF Rank, Starting
      <4>3. Rank(t) < Rank(v)
        BY DEF NextTask
      <4> QED BY <4>1, <4>2, <4>3 DEF Years
    <3>3. x = u
      <4> SUFFICES ASSUME x # u PROVE FALSE
        OBVIOUS
      <4>1. x.y \in Years /\ t.y < x.y /\ x.y <= t.y
        BY <2>4, <3>1, <3>2
      <4>2. t.y \in Years
        BY <1>1 DEF Books, GoodTask, Plain
      <4> QED BY <4>1, <4>2 DEF Years
    <3>4. t.y \in Years /\ (z = u \/ (z.y \in Years /\ t.y < z.y))
      BY <1>1, <2>4, <3>2 DEF Books, GoodTask, Plain
    <3> QED BY <1>2, <3>3, <3>4 DEF Years
  <2> QED BY <1>1, <2>1, <2>2, <2>3, <2>4 DEF Reserving
<1>4. Place(r, st, e, B, failed, lost)
  BY <1>1, <1>3 DEF Place, Pending
<1> QED BY <1>4 DEF u

\* The reservation failed: what is left gives the days back and deletes r.
LEMMA PlaceGateLost ==
  ASSUME NEW r, NEW e, NEW A, Books(r, e, A), NEW st \in Statuses, NEW failed, NEW lost,
         NEW failed1, NEW lost1, Place(r, st, e, A, failed, lost),
         NEW t \in A, t.do \in {"gate", "row", "drop"},
         NEW B, Does(B) \subseteq {"undo", "drop"}, "drop" \in Does(B)
  PROVE  Place(r, st, e, B, failed1, lost1)
<1>1. st \in Pending
  BY Submitted
<1>2. Deleting(r, e, B)
  <2>1. CASE t.do = "drop"
    <3>1. Deleting(r, e, A)
      BY <2>1, Submitted
    <3> QED BY <3>1 DEF Deleting
  <2>2. CASE t.do \in {"gate", "row"}
    <3>1. Reserving(r, e, A)
      BY <2>2, Submitted
    <3>2. t.y \in Years /\ t.n \in 1..Full[r][t.y]
      BY <2>2 DEF Books, GoodTask, Plain
    <3>3. e["reserve"][t.y] = 0 /\ Full[r][t.y] # 0
      <4>1. e["reserve"][t.y] = 0
        BY <2>2, <3>1 DEF Reserving
      <4>2. Full[r][t.y] # 0
        BY <3>2
      <4> QED BY <4>1, <4>2
    <3>4. ~Reserved(r, e)
      BY <3>3 DEF Reserved
    <3> QED BY <3>1, <3>4 DEF Deleting, Reserving
  <2> QED BY <2>1, <2>2
<1> QED BY <1>1, <1>2 DEF Place, Pending

\* The row of a year is entered.
LEMMA PlaceRow ==
  ASSUME NEW r, NEW e, NEW A, Books(r, e, A), NEW st \in Statuses, NEW failed, NEW lost,
         Place(r, st, e, A, failed, lost), NEW t, NextTask(t, A), t.do = "row",
         NEW f, f["reserve"][t.y] = t.n, f["release"] = e["release"], f["consume"] = e["consume"],
         \A z \in Years : z # t.y => f["reserve"][z] = e["reserve"][z]
  PROVE  Place(r, st, f, A \ {t}, failed, lost)
<1> DEFINE B == A \ {t}
<1>1. st \in Pending /\ ~lost /\ Reserving(r, e, A) /\ t \in A
  BY Submitted DEF NextTask
<1>2. t.y \in Years /\ t.n = Full[r][t.y]
  BY <1>1 DEF Books, GoodTask, Plain, Reserving
<1>3. ASSUME NEW x \in B, x.do \in {"gate", "row"} PROVE x.y \in Years /\ t.y < x.y
  <2>1. x.y \in Years
    BY <1>3 DEF Books, GoodTask, Plain
  <2>2. Rank(t) = 1 + t.y /\ Rank(x) = 1 + x.y
    BY <1>3 DEF Rank, Starting
  <2>3. Rank(t) < Rank(x)
    BY DEF NextTask
  <2> QED BY <1>2, <2>1, <2>2, <2>3 DEF Years
<1>4. Reserving(r, f, B)
  <2>1. Does(B) \subseteq {"gate", "row", "recheck"} /\ "recheck" \in Does(B)
    BY <1>1 DEF Reserving, Does
  <2>2. Nil(f, "release") /\ Nil(f, "consume")
    BY <1>1 DEF Reserving, Nil
  <2>3. ASSUME NEW x \in B, x.do \in {"gate", "row"}
        PROVE  f["reserve"][x.y] = 0 /\ x.n = Full[r][x.y]
    <3>1. x.y \in Years /\ x.y # t.y
      BY <1>2, <1>3, <2>3 DEF Years
    <3>2. e["reserve"][x.y] = 0 /\ x.n = Full[r][x.y]
      BY <1>1, <2>3 DEF Reserving
    <3> QED BY <3>1, <3>2
  <2>4. ASSUME NEW y \in Years
        PROVE  \/ f["reserve"][y] = Full[r][y]
               \/ f["reserve"][y] = 0 /\ \E x \in B : x.do \in {"gate", "row"} /\ x.y = y
    <3>1. CASE y = t.y
      BY <1>2, <3>1
    <3>2. CASE y # t.y
      BY <1>1, <3>2 DEF Reserving
    <3> QED BY <3>1, <3>2
  <2>5. ASSUME NEW y \in Years, NEW z \in Years, y < z, f["reserve"][z] # 0
        PROVE  f["reserve"][y] = Full[r][y]
    <3>1. CASE y = t.y
      BY <1>2, <3>1
    <3>2. CASE y # t.y /\ z # t.y
      BY <1>1, <2>5, <3>2 DEF Reserving
    <3>3. CASE y # t.y /\ z = t.y
      <4>1. ~\E x \in A : x.do \in {"gate", "row"} /\ x.y = y
        <5> SUFFICES ASSUME NEW x \in A, x.do \in {"gate", "row"}, x.y = y PROVE FALSE
          OBVIOUS
        <5>1. t.y < x.y
          BY <1>3, <3>3
        <5> QED BY <2>5, <3>3, <5>1 DEF Years
      <4>2. e["reserve"][y] = Full[r][y]
        BY <1>1, <4>1 DEF Reserving
      <4> QED BY <3>3, <4>2
    <3> QED BY <3>1, <3>2, <3>3
  <2>6. \A x, z \in B : x.do = "row" /\ z.do \in {"gate", "row"} => x.y <= z.y
    BY <1>1 DEF Reserving
  <2> QED BY <2>1, <2>2, <2>3, <2>4, <2>5, <2>6 DEF Reserving
<1> QED BY <1>1, <1>4 DEF Place, Pending

\* Two tasks of one kind and year are one.
LEMMA SameRank ==
  ASSUME NEW r, NEW e, NEW A, Books(r, e, A), NEW t, NextTask(t, A), NEW x \in A, x.do = t.do, x.y = t.y
  PROVE  x = t
<1> SUFFICES ASSUME x # t PROVE FALSE
  OBVIOUS
<1>1. Rank(t) < Rank(x)
  BY DEF NextTask
<1>2. Rank(t) = Rank(x)
  BY DEF Rank
<1>3. Rank(t) \in 0..10
  BY RankOfHead DEF NextTask, Books
<1> QED BY <1>1, <1>2, <1>3

\* A row that was about to be written is.
LEMMA BookedStep ==
  ASSUME NEW r, NEW e, NEW A, Books(r, e, A), NEW t, NextTask(t, A), NEW k \in {"release", "consume"},
         t.do = k, e[k][t.y] = 0,
         NEW f, f[k][t.y] = t.n, \A z \in Years : z # t.y => f[k][z] = e[k][z],
         NEW u, u.do # k, NEW y \in Years, NEW n \in Nat, Booked(r, e, A, k, y, n)
  PROVE  Booked(r, f, (A \ {t}) \cup {u}, k, y, n)
<1>1. ASSUME NEW x \in A, x.do = k, x.y = t.y PROVE x = t
  BY <1>1, SameRank
<1>2. CASE y = t.y
  <2>1. Task(k, r, y, n) \in A
    <3>1. t \in A
      BY DEF NextTask
    <3> QED BY <1>2, <3>1 DEF Booked
  <2>2. t = Task(k, r, y, n)
    <3> DEFINE x == Task(k, r, y, n)
    <3>1. x.do = k /\ x.y = y
      BY DEF Task
    <3> HIDE DEF x
    <3>2. x \in A => x = t
      BY <1>1, <1>2, <3>1
    <3> QED BY <2>1, <3>2 DEF x
  <2>3. t.n = n
    BY <2>2 DEF Task
  <2>4. \A x \in (A \ {t}) \cup {u} : x.do = k => x.y # y
    BY <1>1, <1>2
  <2> QED BY <1>2, <2>3, <2>4 DEF Booked
<1>3. CASE y # t.y
  <2>1. CASE e[k][y] = n /\ \A x \in A : x.do = k => x.y # y
    BY <1>3, <2>1 DEF Booked
  <2>2. CASE e[k][y] = 0 /\ Task(k, r, y, n) \in A
    <3>1. Task(k, r, y, n) # t
      BY <1>3 DEF Task
    <3> QED BY <1>3, <2>2, <3>1 DEF Booked
  <2> QED BY <2>1, <2>2 DEF Booked
<1> QED BY <1>2, <1>3

\* The rows of another kind are as they were.
LEMMA BookedKept ==
  ASSUME NEW r, NEW e, NEW A, NEW k, NEW f, f[k] = e[k],
         NEW B, \A x : x.do = k => (x \in B <=> x \in A),
         NEW y, NEW n, Booked(r, e, A, k, y, n)
  PROVE  Booked(r, f, B, k, y, n)
<1>1. \A x \in B : x.do = k => x \in A
  OBVIOUS
<1>2. Task(k, r, y, n) \in A => Task(k, r, y, n) \in B
  BY DEF Task
<1> QED BY <1>1, <1>2 DEF Booked

\* Where a request is whose days are being given back or consumed.
LEMMA Writing ==
  ASSUME NEW r, NEW e, NEW A, NEW st \in Statuses, NEW failed, NEW lost,
         Place(r, st, e, A, failed, lost), NEW t \in A
  PROVE  /\ t.do = "release" =>
              \/ st \in Pending /\ Losing(r, e, A)
              \/ st \in {"rejected", "cancelled"} \/ st = "completed"
         /\ t.do \in {"consume", "spend"} => st = "completed"
         /\ t.do = "undo" => \/ st \in Pending /\ (Losing(r, e, A) \/ Deleting(r, e, A))
                             \/ st \in {"rejected", "cancelled"} \/ st = "completed"
<1>1. t.do \in Does(A)
  BY DEF Does
<1> QED BY <1>1 DEF Place, Statuses, Blocking, Pending, Reserving, Losing, Deleting, Abandoned, Holding

\* A row of k is entered, and its change of the cache is next.
Entering(r, st, e, A, failed, lost, t, k, next, f) ==
  /\ Books(r, e, A) /\ st \in Statuses /\ Place(r, st, e, A, failed, lost)
  /\ NextTask(t, A) /\ t.do = k /\ LeadsTo(k, next)
  /\ e[k][t.y] = 0 /\ f[k][t.y] = t.n
  /\ \A z \in Years : z # t.y => f[k][z] = e[k][z]
  /\ \A j \in Kinds : j # k => f[j] = e[j]

\* A release or a consumption is entered: its days, or the task that writes them, still make up the request.
LEMMA PlaceEntered ==
  ASSUME NEW r, NEW st, NEW e, NEW A, NEW failed, NEW lost, NEW t, NEW k, NEW next, NEW f,
         Entering(r, st, e, A, failed, lost, t, k, next, f)
  PROVE  Place(r, st, f, (A \ {t}) \cup {Task(next, r, t.y, t.n)}, failed, lost)
<1> USE DEF Entering
<1> DEFINE u == Task(next, r, t.y, t.n)
           B == (A \ {t}) \cup {u}
<1>1. /\ u.do = next /\ next \notin {"release", "consume", "lose"}
      /\ k \in {"release", "consume"}
      /\ k = "release" => next = "undo"
      /\ k = "consume" => next = "spend"
  BY DEF Task, LeadsTo
<1>2. t \in A /\ r \in Reqs
  BY DEF NextTask, Books
<1> HIDE DEF u
<1>3. ASSUME NEW j \in {"release", "consume"}, NEW y \in Years, NEW n \in Nat, Booked(r, e, A, j, y, n)
      PROVE  Booked(r, f, B, j, y, n)
  <2>1. CASE j = k
    BY <1>1, <1>3, <2>1, BookedStep
  <2>2. CASE j # k
    <3>1. f[j] = e[j]
      BY <2>2 DEF Kinds
    <3>2. \A x : x.do = j => (x \in B <=> x \in A)
      BY <1>1, <2>2
    <3> QED BY <1>3, <3>1, <3>2, BookedKept
  <2> QED BY <2>1, <2>2
<1>4. Released(r, e, A) => Released(r, f, B)
  <2>1. \A y \in Years : Full[r][y] \in Nat
    BY <1>2, FullType
  <2> QED BY <1>3, <2>1 DEF Released
<1>5. Shared(r, e, A) => Shared(r, f, B)
  <2> SUFFICES ASSUME Shared(r, e, A), NEW y \in Years
               PROVE  \E c \in 0..Full[r][y] :
                        Booked(r, f, B, "consume", y, c) /\ Booked(r, f, B, "release", y, Full[r][y] - c)
    BY DEF Shared
  <2>1. PICK c \in 0..Full[r][y] :
          Booked(r, e, A, "consume", y, c) /\ Booked(r, e, A, "release", y, Full[r][y] - c)
    BY DEF Shared
  <2>2. c \in Nat /\ Full[r][y] - c \in Nat
    BY <1>2, FullType
  <2> QED BY <1>3, <2>1, <2>2
<1>6. (Reserved(r, e) => Reserved(r, f)) /\ (k = "release" /\ Nil(e, "consume") => Nil(f, "consume"))
  BY <1>1 DEF Kinds, Reserved, Nil
<1>7. Does(B) \subseteq Does(A) \cup {next} /\ ("lose" \in Does(A) => "lose" \in Does(B))
  BY <1>1, <1>2 DEF Does
<1>8. Place(r, st, f, B, failed, lost)
  <2>1. CASE st \in Pending
    <3>1. k = "release" /\ Losing(r, e, A) /\ ~lost
      <4>1. ~Deleting(r, e, A) /\ ~Reserving(r, e, A) /\ ~Holding(r, e, A) /\ ~Abandoned(r, e, A, failed, lost)
        BY <1>1, <1>2 DEF Does, Deleting, Reserving, Holding, Abandoned
      <4> QED BY <1>1, <1>2, <2>1, <4>1, Writing DEF Place, Pending
    <3>2. Losing(r, f, B)
      BY <1>1, <1>4, <1>6, <1>7, <3>1 DEF Losing
    <3> QED BY <2>1, <3>1, <3>2 DEF Place, Pending
  <2>2. CASE st \in {"rejected", "cancelled"}
    <3>1. k = "release"
      <4>1. k = "consume" => st = "completed"
        <5> HAVE k = "consume"
        <5>1. t \in A /\ t.do \in {"consume", "spend"}
          BY <1>2
        <5> QED BY <5>1, Writing
      <4> QED BY <1>1, <2>2, <4>1
    <3>2. /\ Does(A) \subseteq {"release", "undo"} /\ ~lost /\ Reserved(r, e)
          /\ ~failed => Released(r, e, A) /\ Nil(e, "consume")
      BY <2>2 DEF Place
    <3>3. Does(B) \subseteq {"release", "undo"}
      BY <1>1, <1>7, <3>1, <3>2
    <3>4. Reserved(r, f) /\ (~failed => Released(r, f, B) /\ Nil(f, "consume"))
      BY <1>4, <1>6, <3>1, <3>2
    <3> HIDE DEF B
    <3> QED BY <2>2, <3>2, <3>3, <3>4 DEF Place, Pending
  <2>3. CASE st = "completed"
    BY <1>1, <1>5, <1>6, <1>7, <2>3 DEF Place, Pending
  <2> QED BY <1>1, <1>2, <2>1, <2>2, <2>3, Writing
<1> QED BY <1>8 DEF u

\* Only after a failure is there a row already.
LEMMA PlaceDuplicate ==
  ASSUME NEW r, NEW e, NEW A, Books(r, e, A), NEW st \in Statuses, NEW failed, NEW lost,
         Place(r, st, e, A, failed, lost), NEW t \in A, t.do \in {"release", "consume"}, e[t.do][t.y] # 0
  PROVE  failed /\ Place(r, st, e, A \ {t}, failed, lost)
<1>1. t.y \in Years /\ r \in Reqs
  BY DEF Books, GoodTask, Plain
<1>2. ASSUME NEW n PROVE ~Booked(r, e, A, t.do, t.y, n)
  BY DEF Booked
<1>3. t.do = "release" => ~Released(r, e, A)
  BY <1>1, <1>2 DEF Released
<1>4. ~Shared(r, e, A)
  BY <1>1, <1>2 DEF Shared
<1>5. Does(A \ {t}) \subseteq Does(A)
  BY DEF Does
<1>6. CASE st \in Pending
  <2>1. st \notin {"rejected", "cancelled", "completed"}
    BY <1>6 DEF Pending
  <2>2. t.do = "release" /\ Losing(r, e, A)
    BY <2>1, Writing
  <2> QED BY <1>3, <2>2 DEF Losing
<1>7. CASE st \in {"rejected", "cancelled"}
  <2>1. t.do = "release"
    BY <1>7, Writing
  <2> QED BY <1>3, <1>5, <1>7, <2>1 DEF Place, Pending
<1>8. CASE st = "completed"
  BY <1>4, <1>5, <1>8 DEF Place, Pending
<1> QED BY <1>6, <1>7, <1>8, Writing

\* The cache follows the row.
LEMMA PlaceCached ==
  ASSUME NEW r, NEW e, NEW A, Books(r, e, A), NEW st \in Statuses, NEW failed, NEW lost,
         Place(r, st, e, A, failed, lost), NEW t \in A, t.do \in {"undo", "spend"}
  PROVE  Place(r, st, e, A \ {t}, failed, lost)
<1> DEFINE B == A \ {t}
<1>1. ASSUME NEW j \in {"release", "consume"}, NEW y, NEW n, Booked(r, e, A, j, y, n)
      PROVE  Booked(r, e, B, j, y, n)
  <2>1. \A x : x.do = j => (x \in B <=> x \in A)
    OBVIOUS
  <2> QED BY <1>1, <2>1, BookedKept
<1>2. Released(r, e, A) => Released(r, e, B)
  BY <1>1 DEF Released
<1>3. Shared(r, e, A) => Shared(r, e, B)
  BY <1>1 DEF Shared
<1>4. /\ Does(B) \subseteq Does(A) /\ ("lose" \in Does(A) => "lose" \in Does(B))
      /\ "drop" \in Does(A) => "drop" \in Does(B)
  BY DEF Does
<1> HIDE DEF B
<1>5. CASE st \in Pending
  <2>1. ~Reserving(r, e, A) /\ ~Holding(r, e, A) /\ ~Abandoned(r, e, A, failed, lost)
    BY DEF Does, Reserving, Holding, Abandoned
  <2>2. \/ ~lost /\ Losing(r, e, A)
        \/ Deleting(r, e, A)
    BY <1>5, <2>1 DEF Place, Pending
  <2>3. \/ ~lost /\ Losing(r, e, B)
        \/ Deleting(r, e, B)
    BY <1>2, <1>4, <2>2 DEF Losing, Deleting
  <2> QED BY <1>5, <2>3 DEF Place, Pending, B
<1>6. CASE st \in {"rejected", "cancelled"}
  BY <1>2, <1>4, <1>6 DEF Place, Pending, B
<1>7. CASE st = "completed"
  BY <1>3, <1>4, <1>7 DEF Place, Pending, B
<1> QED BY <1>5, <1>6, <1>7, Writing

-----------------------------------------------------------------------------
\* submit inserts the request and will take its days.
LEMMA PlaceCreate ==
  ASSUME NEW r, NEW e, NEW A, Books(r, e, A), NEW failed, NEW lost,
         Place(r, "none", e, A, failed, lost), NEW st \in Pending,
         NEW B, B = Entries("gate", r, Full[r]) \cup {Task("recheck", r, 0, 0)}
  PROVE  Place(r, st, e, B, failed, lost)
<1>1. ~lost /\ \A k \in Kinds, y \in Years : e[k][y] = 0
  BY DEF Place, Nil
<1>2. \A t \in B : \/ t.do = "recheck"
                   \/ t.do = "gate" /\ t.y \in Years /\ t.n = Full[r][t.y]
  BY DEF Entries, Task
<1>3. "recheck" \in Does(B)
  <2>1. Task("recheck", r, 0, 0) \in B /\ Task("recheck", r, 0, 0).do = "recheck"
    BY DEF Task
  <2> QED BY <2>1 DEF Does
<1>4. ASSUME NEW y \in Years, Full[r][y] # 0 PROVE \E t \in B : t.do = "gate" /\ t.y = y
  <2>1. Full[r][y] > 0
    BY <1>4, FullType DEF Books
  <2>2. Task("gate", r, y, Full[r][y]) \in B
    BY <2>1 DEF Entries
  <2> QED BY <2>2 DEF Task
<1>5. Reserving(r, e, B)
  <2>1. Does(B) \subseteq {"gate", "row", "recheck"}
    BY <1>2 DEF Does
  <2>2. Nil(e, "release") /\ Nil(e, "consume")
    BY <1>1 DEF Nil, Kinds
  <2>3. \A y \in Years : e["reserve"][y] = 0
    BY <1>1 DEF Kinds
  <2> QED BY <1>2, <1>3, <1>4, <2>1, <2>2, <2>3 DEF Reserving
<1> QED BY <1>1, <1>5 DEF Place, Pending

\* What gives all the days back.
LEMMA GivingBack ==
  ASSUME NEW r \in Reqs, NEW e, Nil(e, "release"),
         NEW B, Entries("release", r, Full[r]) \subseteq B,
         \A t \in B : t.do = "release" => t \in Entries("release", r, Full[r])
  PROVE  Released(r, e, B)
<1> SUFFICES ASSUME NEW y \in Years PROVE Booked(r, e, B, "release", y, Full[r][y])
  BY DEF Released
<1>1. e["release"][y] = 0 /\ Full[r][y] \in Nat
  BY FullType DEF Nil
<1>2. CASE Full[r][y] > 0
  <2>1. Task("release", r, y, Full[r][y]) \in B
    BY <1>2 DEF Entries
  <2> QED BY <1>1, <2>1 DEF Booked
<1>3. CASE Full[r][y] = 0
  <2>1. ASSUME NEW t \in B, t.do = "release", t.y = y PROVE FALSE
    BY <1>3, <2>1 DEF Entries, Task
  <2> QED BY <1>1, <1>3, <2>1 DEF Booked
<1> QED BY <1>1, <1>2, <1>3

\* The recheck leaves the request holding its days, or losing them.
LEMMA PlaceRechecked ==
  ASSUME NEW r, NEW e, NEW A, Books(r, e, A), NEW st \in Statuses, NEW failed, NEW lost,
         Place(r, st, e, A, failed, lost), NEW t, NextTask(t, A), t.do = "recheck",
         NEW B, \/ B = {}
                \/ B = Entries("release", r, Full[r]) \cup {Task("lose", r, 0, 0)}
  PROVE  Place(r, st, e, B, failed, lost)
<1>1. A = {t}
  BY OnlyTask DEF Final
<1>2. st \in Pending /\ ~lost /\ Reserving(r, e, A)
  BY Submitted DEF NextTask
<1>3. \A y \in Years : e["reserve"][y] = Full[r][y]
  BY <1>1, <1>2 DEF Reserving
<1>4. Reserved(r, e)
  <2>1. e["reserve"] \in [Years -> Nat] /\ Full[r] \in [Years -> Nat]
    BY FullType DEF Books, Kinds
  <2> QED BY <1>3, <2>1 DEF Reserved
<1>5. CASE B = {}
  BY <1>2, <1>4, <1>5 DEF Reserving, Holding, Place, Pending
<1>6. CASE B = Entries("release", r, Full[r]) \cup {Task("lose", r, 0, 0)}
  <2>1. \A x \in B : \/ x.do = "lose"
                     \/ x.do = "release" /\ x \in Entries("release", r, Full[r])
    BY <1>6 DEF Entries, Task
  <2>2. Released(r, e, B)
    BY <1>2, <1>6, <2>1, GivingBack DEF Reserving, Books
  <2>3. Task("lose", r, 0, 0).do = "lose" /\ Task("lose", r, 0, 0) \in B
    BY <1>6 DEF Task
  <2>4. Does(B) \subseteq {"release", "undo", "lose"} /\ "lose" \in Does(B)
    BY <2>1, <2>3 DEF Does
  <2>5. Losing(r, e, B)
    BY <1>2, <1>4, <2>2, <2>4 DEF Losing, Reserving
  <2> QED BY <1>2, <2>5 DEF Place, Pending
<1> QED BY <1>5, <1>6

\* The loser of the recheck has given its days back when it is rejected.
LEMMA PlaceLost ==
  ASSUME NEW r, NEW e, NEW A, Books(r, e, A), NEW st \in Statuses, NEW failed, NEW lost,
         Place(r, st, e, A, failed, lost), NEW t, NextTask(t, A), t.do = "lose"
  PROVE  Place(r, "rejected", e, {}, failed, lost)
<1>1. A = {t}
  BY OnlyTask DEF Final
<1>2. st \in Pending /\ ~lost /\ Losing(r, e, A)
  BY Submitted DEF NextTask
<1>3. Released(r, e, {})
  <2>1. \A x : x.do = "release" => (x \in {} <=> x \in A)
    BY <1>1
  <2>2. Released(r, e, A)
    BY <1>2 DEF Losing
  <2> QED BY <2>1, <2>2, BookedKept DEF Released
<1> QED BY <1>2, <1>3 DEF Place, Pending, Losing, Does

\* A request that is turned down or withdrawn gives its days back.
LEMMA PlaceRejected ==
  ASSUME NEW r, NEW e, NEW st \in {"rejected", "cancelled"}, NEW B, Does(B) \subseteq {"release", "undo"},
         NEW failed, NEW lost, ~lost, Reserved(r, e),
         ~failed => Released(r, e, B) /\ Nil(e, "consume")
  PROVE  Place(r, st, e, B, failed, lost)
BY DEF Place, Pending

\* decide and cancel, once submit is done with the request and all its days
\* are in the ledger.
LEMMA PlaceMoved ==
  ASSUME NEW r, NEW e, NEW A, Books(r, e, A), NEW st \in Pending \cup {"approved"}, NEW failed, NEW lost,
         Place(r, st, e, A, failed, lost), Reserved(r, e), \A t \in A : t.do \notin Sub,
         NEW verdict, NEW B,
         \/ verdict \in {"rejected", "cancelled"} /\ B = Entries("release", r, Full[r])
         \/ verdict \in Pending \cup {"approved"} /\ B = {}
  PROVE  A = {} /\ Place(r, verdict, e, B, failed, lost)
<1>1. ~Reserving(r, e, A) /\ ~Losing(r, e, A) /\ ~Deleting(r, e, A)
  BY DEF Does, Sub, Reserving, Losing, Deleting
<1>2. A = {} /\ ~lost /\ (~failed => Holding(r, e, A))
  BY <1>1 DEF Place, Holding, Abandoned, Pending
<1>3. (~failed => Nil(e, "release") /\ Nil(e, "consume"))
  BY <1>2 DEF Holding
<1>4. CASE verdict \in {"rejected", "cancelled"} /\ B = Entries("release", r, Full[r])
  <2>1. \A t \in B : t.do = "release"
    BY <1>4 DEF Entries, Task
  <2>2. ~failed => Released(r, e, B)
    BY <1>3, <1>4, GivingBack DEF Books
  <2>3. Does(B) \subseteq {"release", "undo"}
    BY <2>1 DEF Does
  <2>4. ~failed => Released(r, e, B) /\ Nil(e, "consume")
    BY <1>3, <2>2
  <2> QED BY <1>2, <1>4, <2>3, <2>4, PlaceRejected
<1>5. CASE verdict \in Pending /\ B = {}
  <2>1. Holding(r, e, B) \/ Abandoned(r, e, B, failed, lost)
    <3>1. \A y \in Years : e["release"][y] <= e["reserve"][y]
      BY DEF Books, Reserved, Kinds
    <3>2. CASE failed
      BY <1>2, <1>5, <3>1, <3>2 DEF Abandoned
    <3> QED BY <1>2, <1>5, <3>2
  <2> QED BY <1>2, <1>5, <2>1 DEF Place, Pending
<1>6. CASE verdict = "approved" /\ B = {}
  BY <1>2, <1>6 DEF Place, Pending
<1> QED BY <1>2, <1>4, <1>5, <1>6

\* complete and earlyReturn.
LEMMA PlaceClosed ==
  ASSUME NEW r, NEW e, NEW A, Books(r, e, A), NEW failed, NEW lost,
         Place(r, "active", e, A, failed, lost), NEW d \in Start[r]..(End[r] + 1),
         NEW B, B = Entries("consume", r, Taken(r, d)) \cup Entries("release", r, Left(r, d))
  PROVE  A = {} /\ Place(r, "completed", e, B, failed, lost)
<1>1. A = {} /\ ~lost /\ Reserved(r, e) /\ (~failed => Holding(r, e, A))
  BY DEF Place
<1>2. \A t \in B : \/ t.do = "consume" /\ t \in Entries("consume", r, Taken(r, d))
                   \/ t.do = "release" /\ t \in Entries("release", r, Left(r, d))
  BY DEF Entries, Task
<1>3. ASSUME ~failed, NEW y \in Years
      PROVE  \E c \in 0..Full[r][y] :
               Booked(r, e, B, "consume", y, c) /\ Booked(r, e, B, "release", y, Full[r][y] - c)
  <2> DEFINE c == Taken(r, d)[y]
             n == Left(r, d)[y]
  <2>1. c \in 0..Full[r][y] /\ n \in Nat /\ n = Full[r][y] - c /\ c \in Nat
    BY TakenAndLeft, FullType DEF Books
  <2>2. e["release"][y] = 0 /\ e["consume"][y] = 0
    BY <1>1, <1>3 DEF Holding, Nil
  <2>3. Booked(r, e, B, "consume", y, c)
    <3>1. CASE c > 0
      BY <2>2, <3>1 DEF Booked, Entries
    <3>2. CASE c = 0
      <4>1. ASSUME NEW t \in B, t.do = "consume", t.y = y PROVE FALSE
        <5>1. t \in Entries("consume", r, Taken(r, d))
          BY <1>2, <4>1
        <5> QED BY <3>2, <4>1, <5>1 DEF Entries, Task
      <4> QED BY <2>2, <3>2, <4>1 DEF Booked
    <3> QED BY <2>1, <3>1, <3>2
  <2>4. Booked(r, e, B, "release", y, n)
    <3>1. CASE n > 0
      BY <2>2, <3>1 DEF Booked, Entries
    <3>2. CASE n = 0
      <4>1. ASSUME NEW t \in B, t.do = "release", t.y = y PROVE FALSE
        <5>1. t \in Entries("release", r, Left(r, d))
          BY <1>2, <4>1
        <5> QED BY <3>2, <4>1, <5>1 DEF Entries, Task
      <4> QED BY <2>2, <3>2, <4>1 DEF Booked
    <3> QED BY <2>1, <3>1, <3>2
  <2> HIDE DEF c, n
  <2> QED BY <2>1, <2>3, <2>4
<1>4. ~failed => Shared(r, e, B)
  BY <1>3 DEF Shared
<1>5. Does(B) \subseteq {"consume", "spend", "release", "undo"}
  BY <1>2 DEF Does
<1> QED BY <1>1, <1>4, <1>5 DEF Place, Pending

\* A request that is deleted has no more tasks.
LEMMA PlaceDropped ==
  ASSUME NEW r, NEW e, NEW A, NEW st \in Statuses, NEW failed, NEW lost,
         Place(r, st, e, A, failed, lost), NEW t, NextTask(t, A), t.do = "drop"
  PROVE  A \ {t} = {} /\ Place(r, "gone", e, {}, failed, lost)
<1>1. A \ {t} = {}
  BY OnlyTask DEF Final
<1>2. Deleting(r, e, A)
  BY Submitted DEF NextTask
<1>3. Nil(e, "consume")
  BY <1>2 DEF Deleting
<1> QED BY <1>1, <1>3 DEF Place, Pending

\* The call that kept the accounts of a request dies: nothing more is written.
LEMMA PlaceCut ==
  ASSUME NEW r, NEW e, NEW A, Books(r, e, A), NEW st \in Statuses, NEW failed, NEW lost,
         Place(r, st, e, A, failed, lost), A # {},
         NEW B, B \subseteq A, (\E t \in A : t.do \in Sub) => B = {},
         NEW lost1, lost1 <=> lost \/ "drop" \in Does(A)
  PROVE  Place(r, st, e, B, TRUE, lost1)
<1>1. Does(B) \subseteq Does(A) /\ (B = {} => Does(B) = {})
  BY DEF Does
<1>2. Does(A) \cap Sub # {} => B = {}
  BY DEF Does
<1>3. CASE st = "none"
  BY <1>1, <1>3 DEF Place, Pending
<1>4. CASE st \in Pending
  <2>1. Does(A) \cap Sub # {}
    BY <1>4 DEF Place, Reserving, Losing, Holding, Deleting, Abandoned, Sub
  <2>2. B = {}
    BY <1>2, <2>1
  <2>3. CASE ~lost /\ Reserving(r, e, A)
    <3>1. ~lost1
      BY <2>3 DEF Reserving
    <3>2. \A y \in Years : e["release"][y] <= e["reserve"][y]
      BY <2>3 DEF Reserving, Nil, Books, Kinds
    <3> QED BY <1>4, <2>2, <3>1, <3>2 DEF Place, Pending, Abandoned
  <2>4. CASE ~lost /\ Losing(r, e, A)
    <3>1. ~lost1
      BY <2>4 DEF Losing
    <3>2. \A y \in Years : e["release"][y] <= e["reserve"][y]
      BY <2>4 DEF Losing, Reserved, Books, Kinds
    <3> QED BY <1>4, <2>2, <3>1, <3>2 DEF Place, Pending, Abandoned
  <2>5. CASE Deleting(r, e, A)
    <3>1. \A y \in Years : e["release"][y] <= e["reserve"][y]
      BY <2>5 DEF Deleting, Nil, Books, Kinds
    <3> QED BY <1>4, <2>2, <2>5, <3>1 DEF Place, Pending, Abandoned, Deleting
  <2> QED BY <1>4, <2>3, <2>4, <2>5 DEF Place, Pending, Holding, Abandoned
<1>5. CASE st \in {"rejected", "cancelled"}
  BY <1>1, <1>5 DEF Place, Pending
<1>6. CASE st = "completed"
  BY <1>1, <1>6 DEF Place, Pending
<1> QED BY <1>3, <1>4, <1>5, <1>6 DEF Place, Statuses, Blocking, Pending

-----------------------------------------------------------------------------
(***************************************************************************)
(* What each step does to the accounts of the requests                     *)
(***************************************************************************)
\* The accounts of s are then B, those of the others as they were.
Acted(s, B) ==
  /\ \A r \in Reqs \ {s} : Account(r)' = Account(r) /\ (One(r, Accounting) => One(r, Accounting)')
  /\ s \notin hasty => Account(s)' = B /\ One(s, Accounting)'

\* A turn of a call about s, seen from the accounts.
LEMMA ActedTurn ==
  ASSUME Sole, NEW w \in Servers, NEW s \in Reqs, NEW old, NEW new, Turned(w, s, old, new),
         s \notin hasty /\ (\E t \in new : t.do \in Accounting) => Account(s) \subseteq Tasks(w)
  PROVE  Acted(s, (Account(s) \ old) \cup {t \in new : t.do \in Accounting})
<1>1. ASSUME NEW r \in Reqs \ {s}
      PROVE  Account(r)' = Account(r) /\ (One(r, Accounting) => One(r, Accounting)')
  BY <1>1, OthersTasks DEF Account
<1>2. ASSUME s \notin hasty
      PROVE  /\ Account(s)' = (Account(s) \ old) \cup {t \in new : t.do \in Accounting}
             /\ One(s, Accounting)'
  <2>1. One(s, Accounting)
    BY <1>2 DEF Sole
  <2> QED BY <1>2, <2>1, OwnTasks DEF Account
<1> QED BY <1>1, <1>2 DEF Acted

\* Rewriting the tasks.
LEMMA ActedSame ==
  ASSUME NEW s, NEW B, NEW C, Acted(s, B), B = C
  PROVE  Acted(s, C)
OBVIOUS

\* No step of the accounts.
LEMMA ActedSteady ==
  ASSUME Sole, Steady(Accounting), NEW s \in Reqs
  PROVE  Acted(s, Account(s))
BY DEF Acted, Steady, Account, Sole

\* What holds of the accounting task a call does first.
Heading(t, w) ==
  /\ t.r \in Reqs /\ t \in Tasks(w)
  /\ t.r \notin hasty =>
       /\ NextTask(t, Account(t.r))
       /\ Account(t.r) \subseteq Tasks(w)
       /\ t \in Account(t.r)

\* What Books asks holds of every request.
LEMMA BooksOf ==
  ASSUME Types, Lists, NEW r \in Reqs
  PROVE  Books(r, ledger[r], Account(r)) /\ doc[r] \in Statuses
<1>1. ledger[r] \in [Kinds -> [Years -> Nat]]
  BY DEF Types
<1>2. \A k \in Kinds, y \in Years : ledger[r][k][y] <= Full[r][y]
  BY DEF Types, TypeOK
<1>3. \A t \in Account(r) : GoodTask(t) /\ t.r = r /\ t.do \in Accounting
  BY TaskType DEF Account, Mine
<1>4. doc[r] \in Statuses
  BY DEF Types, TypeOK, Statuses
<1> QED BY <1>1, <1>2, <1>3, <1>4 DEF Books

\* An accounting task at the head of a list is the next of its request.
LEMMA HeadingTask ==
  ASSUME Lists, Sole, NEW w \in Servers, todo[w] # <<>>, NEW t, t = Head(todo[w]), t.do \in Accounting
  PROVE  Heading(t, w)
<1>1. t \in Mine(t.r, Accounting) /\ t \in Tasks(w) /\ GoodTask(t)
  BY HeadOfMine
<1>2. t.r \in Reqs
  BY <1>1 DEF GoodTask
<1>3. ASSUME t.r \notin hasty
      PROVE  NextTask(t, Account(t.r)) /\ Account(t.r) \subseteq Tasks(w)
  <2>1. One(t.r, Accounting)
    BY <1>2, <1>3 DEF Sole
  <2>2. /\ Mine(t.r, Accounting) \subseteq Tasks(w)
        /\ \A u \in Mine(t.r, Accounting) \ {t} : Rank(t) < Rank(u) /\ t.do \notin Final
    BY <2>1, HeadOfMine
  <2> QED BY <1>1, <2>2 DEF Account, NextTask
<1> QED BY <1>1, <1>2, <1>3 DEF Heading, Account

\* The first task gives way to others.
LEMMA ActedHead ==
  ASSUME Lists, Sole, NEW w \in Servers, todo[w] # <<>>, NEW t, t = Head(todo[w]), t.do \in Accounting,
         NEW new, Turned(w, t.r, {t}, new), \A u \in new : u.do \in Accounting
  PROVE  Heading(t, w) /\ Acted(t.r, (Account(t.r) \ {t}) \cup new)
<1>1. Heading(t, w)
  BY HeadingTask
<1>2. Acted(t.r, (Account(t.r) \ {t}) \cup {u \in new : u.do \in Accounting})
  BY <1>1, ActedTurn DEF Heading
<1>3. {u \in new : u.do \in Accounting} = new
  OBVIOUS
<1> QED BY <1>1, <1>2, <1>3

\* The first task is done and has no successor.
LEMMA ActedGone ==
  ASSUME Lists, Sole, NEW w \in Servers, NEW do \in Accounting, Doing(do, w), Then(w, <<>>),
         NEW t, t = Head(todo[w])
  PROVE  Heading(t, w) /\ Acted(t.r, Account(t.r) \ {t})
<1>1. todo[w] # <<>> /\ t.do \in Accounting
  BY DEF Doing
<1>2. Turned(w, t.r, {t}, {})
  BY TakenStep
<1>5. Heading(t, w)
  BY <1>1, HeadingTask
<1>3. Acted(t.r, (Account(t.r) \ {t}) \cup {})
  BY <1>1, <1>2, ActedHead
<1>4. (Account(t.r) \ {t}) \cup {} = Account(t.r) \ {t}
  OBVIOUS
<1> QED BY <1>3, <1>4, <1>5

\* tryReserve.
LEMMA GateActed ==
  ASSUME Lists, Sole, NEW w \in Servers, Gate(w), NEW t, t = Head(todo[w])
  PROVE  /\ Heading(t, w) /\ t.do = "gate"
         /\ Covers(t.y, t.n) =>
              Acted(t.r, (Account(t.r) \ {t}) \cup {Task("row", t.r, t.y, t.n)})
         /\ ~Covers(t.y, t.n) =>
              Acted(t.r, Undoing(t.r, t.y) \cup {Task("drop", t.r, 0, 0)})
<1>1. todo[w] # <<>> /\ t.do = "gate"
  BY DEF Gate, Doing
<1>2. Heading(t, w)
  BY <1>1, HeadingTask DEF Accounting, Sub
<1>3. ASSUME Covers(t.y, t.n)
      PROVE  Acted(t.r, (Account(t.r) \ {t}) \cup {Task("row", t.r, t.y, t.n)})
  <2> DEFINE new == {Task("row", t.r, t.y, t.n)}
  <2>1. Turned(w, t.r, {t}, new)
    BY <1>3, GateKept
  <2>2. \A u \in new : u.do \in Accounting
    BY DEF Task, Accounting, Sub
  <2> HIDE DEF new
  <2>3. Acted(t.r, (Account(t.r) \ {t}) \cup new)
    BY <1>1, <2>1, <2>2, ActedHead DEF Accounting, Sub
  <2> QED BY <2>3 DEF new
<1>4. ASSUME ~Covers(t.y, t.n)
      PROVE  Acted(t.r, Undoing(t.r, t.y) \cup {Task("drop", t.r, 0, 0)})
  <2> DEFINE new == Undoing(t.r, t.y) \cup {Task("drop", t.r, 0, 0)}
  <2>1. Turned(w, t.r, Tasks(w), new)
    BY <1>4, GateLost
  <2>2. \A u \in new : u.do \in Accounting
    BY DEF Undoing, Task, Accounting, Sub
  <2> HIDE DEF new
  <2>3. Acted(t.r, (Account(t.r) \ Tasks(w)) \cup {u \in new : u.do \in Accounting})
    BY <1>2, <2>1, ActedTurn DEF Heading
  <2>4. t.r \notin hasty => (Account(t.r) \ Tasks(w)) \cup {u \in new : u.do \in Accounting} = new
    BY <1>2, <2>2 DEF Heading
  <2>5. Acted(t.r, new)
    BY <2>3, <2>4 DEF Acted
  <2> QED BY <2>5 DEF new
<1> QED BY <1>1, <1>2, <1>3, <1>4

\* The reserve row.
LEMMA RowActed ==
  ASSUME Lists, Sole, Fresh, NEW w \in Servers, ReserveRow(w), NEW t, t = Head(todo[w])
  PROVE  /\ Heading(t, w) /\ t.do = "row"
         /\ Acted(t.r, Account(t.r) \ {t})
<1>1. todo[w] # <<>> /\ t.do = "row" /\ t.do \in Accounting
  BY DEF ReserveRow, Insert, Doing, Accounting, Sub
<1>2. Turned(w, t.r, {t}, {})
  BY RowStep
<1>5. Heading(t, w)
  BY <1>1, HeadingTask
<1>3. Acted(t.r, (Account(t.r) \ {t}) \cup {})
  BY <1>1, <1>2, ActedHead
<1>4. (Account(t.r) \ {t}) \cup {} = Account(t.r) \ {t}
  OBVIOUS
<1> QED BY <1>1, <1>3, <1>4, <1>5

\* The rows of a release and of a consumption.
LEMMA EnteredActed ==
  ASSUME Lists, Sole, NEW w \in Servers, NEW k, NEW next, LeadsTo(k, next),
         NEW t, t = Head(todo[w]), Entered(t, w, k, next)
  PROVE  /\ Heading(t, w) /\ t.do = k
         /\ ledger[t.r][k][t.y] = 0 =>
              Acted(t.r, (Account(t.r) \ {t}) \cup {Task(next, t.r, t.y, t.n)})
         /\ ledger[t.r][k][t.y] # 0 => Acted(t.r, Account(t.r) \ {t})
<1>1. todo[w] # <<>> /\ t.do = k /\ t.do \in Accounting
  BY DEF Entered, LeadsTo, Accounting
<1>2. ASSUME ledger[t.r][k][t.y] = 0
      PROVE  Acted(t.r, (Account(t.r) \ {t}) \cup {Task(next, t.r, t.y, t.n)})
  <2> DEFINE new == {Task(next, t.r, t.y, t.n)}
  <2>1. Turned(w, t.r, {t}, new)
    BY <1>2 DEF Entered
  <2>2. \A u \in new : u.do \in Accounting
    BY DEF Task, Accounting, LeadsTo
  <2> HIDE DEF new
  <2>3. Acted(t.r, (Account(t.r) \ {t}) \cup new)
    BY <1>1, <2>1, <2>2, ActedHead
  <2> QED BY <2>3 DEF new
<1>3. ASSUME ledger[t.r][k][t.y] # 0
      PROVE  Acted(t.r, Account(t.r) \ {t})
  <2>1. Turned(w, t.r, {t}, {})
    BY <1>3 DEF Entered
  <2>2. Acted(t.r, (Account(t.r) \ {t}) \cup {})
    BY <1>1, <2>1, ActedHead
  <2>3. (Account(t.r) \ {t}) \cup {} = Account(t.r) \ {t}
    OBVIOUS
  <2> QED BY <2>2, <2>3
<1> QED BY <1>1, <1>2, <1>3, HeadingTask

\* The insert of the document.
LEMMA CreateActed ==
  ASSUME Lists, Sole, NEW w \in Servers, Create(w), NEW t, t = Head(todo[w])
  PROVE  /\ Heading(t, w) /\ t.do = "create"
         /\ Acted(t.r, Entries("gate", t.r, Full[t.r]) \cup {Task("recheck", t.r, 0, 0)})
<1> DEFINE new == Entries("gate", t.r, Full[t.r]) \cup {Task("recheck", t.r, 0, 0)}
<1>1. todo[w] # <<>> /\ t.do = "create" /\ t.do \in Accounting /\ t.do \in Final
  BY DEF Create, Doing, Accounting, Sub, Final
<1>2. Turned(w, t.r, {t}, new)
  BY CreateStep
<1>3. \A u \in new : u.do \in Accounting
  BY DEF Entries, Task, Accounting, Sub
<1> HIDE DEF new
<1>4. Heading(t, w) /\ Acted(t.r, (Account(t.r) \ {t}) \cup new)
  BY <1>1, <1>2, <1>3, ActedHead
<1>5. t.r \notin hasty => Account(t.r) \ {t} = {}
  BY <1>1, <1>4, OnlyTask DEF Heading
<1>6. Acted(t.r, new)
  BY <1>4, <1>5 DEF Acted
<1> QED BY <1>1, <1>4, <1>6 DEF new

\* The recheck.
LEMMA RecheckActed ==
  ASSUME Lists, Sole, NEW w \in Servers, Recheck(w), NEW t, t = Head(todo[w])
  PROVE  /\ Heading(t, w) /\ t.do = "recheck"
         /\ \/ Acted(t.r, {})
            \/ Acted(t.r, Entries("release", t.r, Full[t.r]) \cup {Task("lose", t.r, 0, 0)})
<1> DEFINE new == Entries("release", t.r, Full[t.r]) \cup {Task("lose", t.r, 0, 0)}
<1>1. todo[w] # <<>> /\ t.do = "recheck" /\ t.do \in Accounting /\ t.do \in Final
  BY DEF Recheck, Doing, Accounting, Sub, Final
<1>2. Turned(w, t.r, {t}, {}) \/ Turned(w, t.r, {t}, new)
  BY RecheckStep
<1>3. \A u \in new : u.do \in Accounting
  BY DEF Entries, Task, Accounting, Sub
<1> HIDE DEF new
<1>4. Heading(t, w)
  BY <1>1, HeadingTask
<1>5. t.r \notin hasty => Account(t.r) \ {t} = {}
  BY <1>1, <1>4, OnlyTask DEF Heading
<1>6. CASE Turned(w, t.r, {t}, {})
  <2>1. Acted(t.r, (Account(t.r) \ {t}) \cup {})
    BY <1>1, <1>6, ActedHead
  <2>2. Acted(t.r, {})
    BY <1>5, <2>1 DEF Acted
  <2> QED BY <1>1, <1>4, <2>2
<1>7. CASE Turned(w, t.r, {t}, new)
  <2>1. Acted(t.r, (Account(t.r) \ {t}) \cup new)
    BY <1>1, <1>3, <1>7, ActedHead
  <2>2. Acted(t.r, new)
    BY <1>5, <2>1 DEF Acted
  <2> QED BY <1>1, <1>4, <2>2 DEF new
<1> QED BY <1>2, <1>6, <1>7

\* Where a request is, of the invariant.
LEMMA PhaseOf ==
  ASSUME Types, Lists, Phases, NEW r \in Reqs \ hasty
  PROVE  /\ Place(r, doc[r], ledger[r], Account(r), r \in broken, r \in stray)
         /\ Books(r, ledger[r], Account(r)) /\ doc[r] \in Statuses
BY BooksOf DEF Phases, Phase

\* A request that no worker submits has no task of submit.
LEMMA NotSubmitting ==
  ASSUME Lists, NEW r, r \notin Submitting, NEW t \in Account(r)
  PROVE  t.do \notin Sub
<1> SUFFICES ASSUME t.do \in Sub PROVE FALSE
  OBVIOUS
<1>1. PICK w \in Servers : t \in Tasks(w)
  BY DEF Account, Mine, Open
<1>2. w \in Workers
  BY <1>1 DEF Lists
<1>3. t.r = r
  BY DEF Account, Mine
<1> QED BY <1>1, <1>2, <1>3 DEF Submitting, Sub

\* submit of a request that has no tasks and no document.
LEMMA SubmitActed ==
  ASSUME Lists, Sole, NEW w \in Workers, NEW r \in Reqs, Submit(w, r)
  PROVE  /\ Account(r) = {} /\ doc[r] = "none"
         /\ Acted(r, {Task("create", r, 0, 0)})
<1> DEFINE new == {Task("create", r, 0, 0)}
<1>1. w \in Servers /\ Turned(w, r, {}, new)
  BY SubmitStep DEF Servers
<1>2. \A u \in new : u.do \in Accounting
  BY DEF Task, Accounting, Sub
<1>3. Account(r) = {} /\ doc[r] = "none"
  BY DEF Submit, InFlight, Account, Mine, Open
<1> HIDE DEF new
<1>4. Acted(r, (Account(r) \ {}) \cup {u \in new : u.do \in Accounting})
  BY <1>1, <1>3, ActedTurn
<1>5. (Account(r) \ {}) \cup {u \in new : u.do \in Accounting} = new
  BY <1>2, <1>3
<1>6. Acted(r, new)
  BY <1>4, <1>5
<1> QED BY <1>3, <1>6 DEF new

\* What a decision leaves to do for the accounts.
Returned(r, status) ==
  IF status \in {"rejected", "cancelled"} THEN Entries("release", r, Full[r]) ELSE {}

\* decide and cancel of a request whose submission is over.
LEMMA MoveActed ==
  ASSUME Types, Lists, Sole, Phases, NEW w \in Workers, NEW r \in Reqs, NEW status, Move(w, r, status),
         doc[r] \in Pending \cup {"approved"}, status \in Pending \cup {"approved", "rejected", "cancelled"}
  PROVE  /\ r \notin hasty' => r \notin hasty
         /\ \A s \in Reqs \ {r} : Account(s)' = Account(s) /\ (One(s, Accounting) => One(s, Accounting)')
         /\ r \notin hasty' =>
              /\ Account(r) = {} /\ Account(r)' = Returned(r, status) /\ One(r, Accounting)'
              /\ Place(r, status, ledger[r], Returned(r, status), r \in broken, r \in stray)
<1> DEFINE new == CASE status \in {"rejected", "cancelled"} -> Entries("release", r, Full[r])
                    [] status = "approved"                  -> {Task("catchUp", r, 0, 0)}
                    [] OTHER                                -> {}
           E == {u \in new : u.do \in Accounting}
<1>1. w \in Servers /\ Turned(w, r, {}, new)
  BY MoveStep DEF Servers
<1>2. E = Returned(r, status)
  <2>1. \A u \in Entries("release", r, Full[r]) : u.do \in Accounting
    BY DEF Entries, Task, Accounting
  <2>2. Task("catchUp", r, 0, 0).do \notin Accounting
    BY DEF Task, Accounting, Sub
  <2>3. CASE status \in {"rejected", "cancelled"}
    BY <2>1, <2>3 DEF Returned
  <2>4. CASE status = "approved"
    BY <2>2, <2>4 DEF Returned
  <2>5. CASE status \in Pending
    BY <2>5 DEF Returned, Pending
  <2> QED BY <2>3, <2>4, <2>5
<1> HIDE DEF new
<1>3. \A s \in Reqs \ {r} : Account(s)' = Account(s) /\ (One(s, Accounting) => One(s, Accounting)')
  BY <1>1, OthersTasks DEF Account
<1>4. r \notin hasty' => r \notin hasty /\ r \notin Submitting /\ ledger[r]["reserve"] = Full[r]
  BY DEF Move
<1>5. ASSUME r \notin hasty'
      PROVE  /\ Account(r) = {} /\ Account(r)' = Returned(r, status) /\ One(r, Accounting)'
             /\ Place(r, status, ledger[r], Returned(r, status), r \in broken, r \in stray)
  <2>1. /\ Place(r, doc[r], ledger[r], Account(r), r \in broken, r \in stray)
        /\ Books(r, ledger[r], Account(r)) /\ Reserved(r, ledger[r])
        /\ \A t \in Account(r) : t.do \notin Sub
    BY <1>4, <1>5, PhaseOf, NotSubmitting DEF Reserved
  <2>2. \/ status \in {"rejected", "cancelled"} /\ Returned(r, status) = Entries("release", r, Full[r])
        \/ status \in Pending \cup {"approved"} /\ Returned(r, status) = {}
    BY DEF Returned, Pending
  <2>3. Account(r) = {} /\ Place(r, status, ledger[r], Returned(r, status), r \in broken, r \in stray)
    BY <2>1, <2>2, PlaceMoved
  <2>4. Acted(r, (Account(r) \ {}) \cup E)
    BY <1>1, <2>3, ActedTurn
  <2>5. (Account(r) \ {}) \cup E = Returned(r, status)
    BY <1>2, <2>3
  <2> HIDE DEF E
  <2> QED BY <1>4, <1>5, <2>3, <2>4, <2>5 DEF Acted
<1> QED BY <1>3, <1>4, <1>5

\* complete and earlyReturn have all of the accounts before them.
Settlement(r, d) == Entries("consume", r, Taken(r, d)) \cup Entries("release", r, Left(r, d))

\* complete and earlyReturn.
LEMMA CloseActed ==
  ASSUME Types, Lists, Sole, Phases, NEW w \in Servers, NEW r \in Reqs, NEW d, NEW old,
         Turned(w, r, old, Closing(r, d)), doc[r] = "active"
  PROVE  /\ Acted(r, Settlement(r, d))
         /\ r \notin hasty => Account(r) = {}
<1>1. r \notin hasty => Account(r) = {}
  BY PhaseOf DEF Place
<1>2. {u \in Closing(r, d) : u.do \in Accounting} = Settlement(r, d)
  <2>1. \A u \in Settlement(r, d) : u.do \in Accounting
    BY DEF Settlement, Entries, Task, Accounting
  <2> QED BY <2>1 DEF Closing, Settlement
<1>3. Acted(r, (Account(r) \ old) \cup {u \in Closing(r, d) : u.do \in Accounting})
  BY <1>1, ActedTurn
<1>4. Acted(r, (Account(r) \ old) \cup Settlement(r, d))
  BY <1>2, <1>3
<1>5. r \notin hasty => (Account(r) \ old) \cup Settlement(r, d) = Settlement(r, d)
  BY <1>1
<1> QED BY <1>1, <1>4, <1>5 DEF Acted

-----------------------------------------------------------------------------
\* The requests that did not move keep their place.
LEMMA PhasesStep ==
  ASSUME Sole, Phases, NEW s \in Reqs, NEW B, Acted(s, B), Elsewhere(s),
         UNCHANGED <<hasty, broken, stray>>,
         s \notin hasty => Place(s, doc'[s], ledger'[s], B, s \in broken, s \in stray)
  PROVE  Sole' /\ Phases'
<1>1. ASSUME NEW r \in Reqs \ hasty, r # s
      PROVE  One(r, Accounting)' /\ Phase(r)'
  <2>1. One(r, Accounting) /\ Phase(r)
    BY DEF Sole, Phases
  <2>2. Account(r)' = Account(r) /\ doc'[r] = doc[r] /\ ledger'[r] = ledger[r] /\ One(r, Accounting)'
    BY <1>1, <2>1 DEF Acted, Elsewhere
  <2> QED BY <2>1, <2>2 DEF Phase
<1>2. ASSUME s \notin hasty
      PROVE  One(s, Accounting)' /\ Phase(s)'
  BY <1>2 DEF Acted, Phase
<1> QED BY <1>1, <1>2 DEF Sole, Phases

\* Steps that are not about the accounts.
LEMMA PhasesSteady ==
  ASSUME Sole, Phases, Steady(Accounting), UNCHANGED <<doc, ledger, hasty, broken, stray>>
  PROVE  Sole' /\ Phases'
<1>1. ASSUME NEW r \in Reqs \ hasty PROVE One(r, Accounting)' /\ Phase(r)'
  <2>1. One(r, Accounting) /\ Phase(r)
    BY DEF Sole, Phases
  <2>2. Account(r)' = Account(r) /\ One(r, Accounting)'
    BY <2>1 DEF Steady, Account
  <2> QED BY <2>1, <2>2 DEF Phase
<1> QED BY <1>1 DEF Sole, Phases

-----------------------------------------------------------------------------
(***************************************************************************)
(* Every step keeps the phases                                             *)
(***************************************************************************)
\* One entry of the ledger is written.
Wrote(r, k, y, n) ==
  /\ \A s \in Reqs : s # r => ledger'[s] = ledger[s]
  /\ \A j \in Kinds : j # k => ledger'[r][j] = ledger[r][j]
  /\ ledger'[r][k][y] = n
  /\ \A z \in Years : z # y => ledger'[r][k][z] = ledger[r][k][z]

\* An insert into the ledger, entry by entry.
LEMMA EntryWritten ==
  ASSUME Types, NEW r \in Reqs, NEW k \in Kinds, NEW y \in Years, NEW n \in 0..Full[r][y],
         ledger' = [ledger EXCEPT ![r][k][y] = n]
  PROVE  Wrote(r, k, y, n)
<1>1. n \in Nat
  BY FullType
<1>2. /\ ledger'[r] = [ledger[r] EXCEPT ![k][y] = n]
      /\ \A s \in Reqs : s # r => ledger'[s] = ledger[s]
  BY DEF Types
<1>3. /\ ledger'[r][k] = [ledger[r][k] EXCEPT ![y] = n]
      /\ \A j \in Kinds : j # k => ledger'[r][j] = ledger[r][j]
  <2>1. ledger[r] \in [Kinds -> [Years -> Nat]]
    BY DEF Types
  <2>2. \A j : j \notin Kinds => j # k
    OBVIOUS
  <2> QED BY <1>2, <2>1, <2>2
<1>4. /\ ledger'[r][k][y] = n
      /\ \A z \in Years : z # y => ledger'[r][k][z] = ledger[r][k][z]
  BY <1>1, <1>3 DEF Types
<1> QED BY <1>2, <1>3, <1>4 DEF Wrote

\* The accounting steps of a call.
LEMMA PhasesReserve ==
  ASSUME Types, Lists, Fresh, Sole, Phases, NEW w \in Servers, Gate(w) \/ ReserveRow(w)
  PROVE  Sole' /\ Phases'
<1>1. CASE Gate(w)
  <2> SUFFICES ASSUME NEW t, t = Head(todo[w]) PROVE Sole' /\ Phases'
    OBVIOUS
  <2> DEFINE A == Account(t.r)
  <2>1. Heading(t, w) /\ t.do = "gate" /\ t.r \in Reqs /\ UNCHANGED <<doc, ledger, hasty, broken, stray>>
    BY <1>1, GateActed DEF Heading, Gate, history
  <2>2. Elsewhere(t.r)
    BY <2>1 DEF Elsewhere
  <2>3. ASSUME t.r \notin hasty
        PROVE  /\ Place(t.r, doc[t.r], ledger[t.r], A, t.r \in broken, t.r \in stray)
               /\ Books(t.r, ledger[t.r], A) /\ doc[t.r] \in Statuses /\ NextTask(t, A) /\ t \in A
    BY <2>1, <2>3, PhaseOf DEF Heading
  <2>4. CASE Covers(t.y, t.n)
    <3> DEFINE B == (A \ {t}) \cup {Task("row", t.r, t.y, t.n)}
    <3>1. Acted(t.r, B)
      BY <1>1, <2>4, GateActed
    <3>2. ASSUME t.r \notin hasty
          PROVE  Place(t.r, doc[t.r], ledger[t.r], B, t.r \in broken, t.r \in stray)
      BY <2>1, <2>3, <3>2, PlaceGate
    <3> HIDE DEF B
    <3> QED BY <2>1, <2>2, <3>1, <3>2, PhasesStep
  <2>5. CASE ~Covers(t.y, t.n)
    <3> DEFINE B == Undoing(t.r, t.y) \cup {Task("drop", t.r, 0, 0)}
    <3>1. Acted(t.r, B)
      BY <1>1, <2>5, GateActed
    <3>2. Does(B) \subseteq {"undo", "drop"} /\ "drop" \in Does(B)
      <4>1. Task("drop", t.r, 0, 0) \in B /\ Task("drop", t.r, 0, 0).do = "drop"
        BY DEF Task
      <4>2. \A u \in B : u.do \in {"undo", "drop"}
        BY DEF Undoing, Task
      <4> HIDE DEF B
      <4> QED BY <4>1, <4>2 DEF Does
    <3> HIDE DEF B
    <3>3. ASSUME t.r \notin hasty
          PROVE  Place(t.r, doc[t.r], ledger[t.r], B, t.r \in broken, t.r \in stray)
      BY <2>1, <2>3, <3>2, <3>3, PlaceGateLost
    <3> QED BY <2>1, <2>2, <3>1, <3>3, PhasesStep
  <2> QED BY <2>4, <2>5
<1>2. CASE ReserveRow(w)
  <2> SUFFICES ASSUME NEW t, t = Head(todo[w]) PROVE Sole' /\ Phases'
    OBVIOUS
  <2> DEFINE A == Account(t.r)
  <2>1. Heading(t, w) /\ t.do = "row" /\ t.r \in Reqs /\ Acted(t.r, A \ {t})
    BY <1>2, RowActed DEF Heading
  <2>2. UNCHANGED <<doc, hasty, broken, stray>>
    BY <1>2 DEF ReserveRow, Insert, history
  <2>3. ledger' = [ledger EXCEPT ![t.r]["reserve"][t.y] = t.n]
    BY <1>2, RowStep
  <2>4. t.y \in Years /\ t.n \in 0..Full[t.r][t.y]
    <3>1. GoodTask(t)
      BY <2>1, TaskType DEF Heading, Open
    <3> QED BY <2>1, <3>1, FullType DEF GoodTask, Plain
  <2>5. "reserve" \in Kinds /\ "release" \in Kinds /\ "consume" \in Kinds
    BY DEF Kinds
  <2>6. /\ \A s \in Reqs : s # t.r => ledger'[s] = ledger[s]
        /\ ledger'[t.r]["reserve"][t.y] = t.n
        /\ ledger'[t.r]["release"] = ledger[t.r]["release"]
        /\ ledger'[t.r]["consume"] = ledger[t.r]["consume"]
        /\ \A z \in Years : z # t.y => ledger'[t.r]["reserve"][z] = ledger[t.r]["reserve"][z]
    <3>1. Wrote(t.r, "reserve", t.y, t.n)
      BY <2>1, <2>3, <2>4, <2>5, EntryWritten
    <3> QED BY <2>5, <3>1 DEF Wrote
  <2>7. Elsewhere(t.r)
    BY <2>2, <2>6 DEF Elsewhere
  <2>8. ASSUME t.r \notin hasty
        PROVE  /\ Place(t.r, doc[t.r], ledger[t.r], A, t.r \in broken, t.r \in stray)
               /\ Books(t.r, ledger[t.r], A) /\ doc[t.r] \in Statuses /\ NextTask(t, A)
    BY <2>1, <2>8, PhaseOf DEF Heading
  <2>9. ASSUME t.r \notin hasty
        PROVE  Place(t.r, doc'[t.r], ledger'[t.r], A \ {t}, t.r \in broken, t.r \in stray)
    <3> DEFINE e == ledger[t.r]
               f == ledger'[t.r]
    <3>1. /\ Place(t.r, doc[t.r], e, A, t.r \in broken, t.r \in stray)
          /\ Books(t.r, e, A) /\ doc[t.r] \in Statuses /\ NextTask(t, A)
          /\ f["reserve"][t.y] = t.n /\ f["release"] = e["release"] /\ f["consume"] = e["consume"]
          /\ \A z \in Years : z # t.y => f["reserve"][z] = e["reserve"][z]
      BY <2>6, <2>8, <2>9
    <3> HIDE DEF e, f, A
    <3>2. Place(t.r, doc[t.r], f, A \ {t}, t.r \in broken, t.r \in stray)
      BY <2>1, <3>1, PlaceRow
    <3> QED BY <2>2, <3>2 DEF f
  <2> QED BY <2>1, <2>2, <2>7, <2>9, PhasesStep
<1> QED BY <1>1, <1>2

\* Release and Consume.
LEMMA PhasesEntered ==
  ASSUME Types, Lists, Sole, Phases, NEW w \in Servers, NEW k, NEW next, LeadsTo(k, next),
         NEW t, t = Head(todo[w]), Entered(t, w, k, next), UNCHANGED <<doc, hasty, broken, stray>>
  PROVE  Sole' /\ Phases'
<1> DEFINE A == Account(t.r)
<1>1. Heading(t, w) /\ t.do = k /\ t.r \in Reqs
  BY EnteredActed DEF Heading
<1>2. k \in Kinds /\ k \in {"release", "consume"}
  BY DEF LeadsTo, Kinds
<1>3. t.y \in Years /\ t.n \in 0..Full[t.r][t.y]
  <2>1. GoodTask(t)
    BY DEF Entered
  <2> QED BY <1>1, <1>2, <2>1, FullType DEF GoodTask, Plain
<1>4. ASSUME t.r \notin hasty
      PROVE  /\ Place(t.r, doc[t.r], ledger[t.r], A, t.r \in broken, t.r \in stray)
             /\ Books(t.r, ledger[t.r], A) /\ doc[t.r] \in Statuses /\ NextTask(t, A) /\ t \in A
  BY <1>1, <1>4, PhaseOf DEF Heading
<1>5. CASE ledger[t.r][k][t.y] = 0
  <2> DEFINE B == (A \ {t}) \cup {Task(next, t.r, t.y, t.n)}
  <2>1. Acted(t.r, B)
    BY <1>5, EnteredActed
  <2>2. ledger' = [ledger EXCEPT ![t.r][k][t.y] = t.n]
    BY <1>5 DEF Entered
  <2>3. Wrote(t.r, k, t.y, t.n)
    BY <1>1, <1>2, <1>3, <2>2, EntryWritten
  <2>5. Elsewhere(t.r)
    BY <2>3 DEF Elsewhere, Wrote
  <2>6. ASSUME t.r \notin hasty
        PROVE  Place(t.r, doc[t.r], ledger'[t.r], B, t.r \in broken, t.r \in stray)
    <3> DEFINE e == ledger[t.r]
               f == ledger'[t.r]
    <3>1. /\ Place(t.r, doc[t.r], e, A, t.r \in broken, t.r \in stray)
          /\ Books(t.r, e, A) /\ doc[t.r] \in Statuses /\ NextTask(t, A)
          /\ e[k][t.y] = 0 /\ f[k][t.y] = t.n
          /\ \A z \in Years : z # t.y => f[k][z] = e[k][z]
          /\ \A j \in Kinds : j # k => f[j] = e[j]
      BY <1>4, <1>5, <2>3, <2>6 DEF Wrote
    <3> HIDE DEF e, f, A
    <3>2. Place(t.r, doc[t.r], f, (A \ {t}) \cup {Task(next, t.r, t.y, t.n)}, t.r \in broken, t.r \in stray)
      <4>1. Entering(t.r, doc[t.r], e, A, t.r \in broken, t.r \in stray, t, k, next, f)
        BY <1>1, <3>1 DEF Entering
      <4> QED BY <4>1, PlaceEntered
    <3> QED BY <3>2 DEF f
  <2> HIDE DEF B
  <2> QED BY <1>1, <2>1, <2>5, <2>6, PhasesStep
<1>6. CASE ledger[t.r][k][t.y] # 0
  <2>1. Acted(t.r, A \ {t}) /\ ledger' = ledger
    BY <1>6, EnteredActed DEF Entered
  <2>2. Elsewhere(t.r)
    BY <2>1 DEF Elsewhere
  <2>3. ASSUME t.r \notin hasty
        PROVE  Place(t.r, doc[t.r], ledger[t.r], A \ {t}, t.r \in broken, t.r \in stray)
    BY <1>1, <1>2, <1>4, <1>6, <2>3, PlaceDuplicate
  <2> QED BY <1>1, <2>1, <2>2, <2>3, PhasesStep
<1> QED BY <1>5, <1>6

\* Undo, Spend, Drop and Lose.
LEMMA PhasesTaken ==
  ASSUME Types, Lists, Sole, Phases, NEW w \in Servers, Undo(w) \/ Spend(w) \/ Drop(w) \/ Lose(w)
  PROVE  Sole' /\ Phases'
<1> SUFFICES ASSUME NEW t, t = Head(todo[w]) PROVE Sole' /\ Phases'
  OBVIOUS
<1> DEFINE A == Account(t.r)
<1>1. UNCHANGED <<ledger, hasty, broken, stray>>
  BY DEF Undo, Spend, Drop, Lose, history
<1>2. Heading(t, w) /\ t.r \in Reqs /\ Acted(t.r, A \ {t})
  <2>1. CASE Undo(w)
    BY <2>1, ActedGone DEF Undo, Accounting, Heading
  <2>2. CASE Spend(w)
    BY <2>2, ActedGone DEF Spend, Accounting, Heading
  <2>3. CASE Drop(w)
    BY <2>3, ActedGone DEF Drop, Accounting, Sub, Heading
  <2>4. CASE Lose(w)
    BY <2>4, ActedGone DEF Lose, Accounting, Sub, Heading
  <2> QED BY <2>1, <2>2, <2>3, <2>4
<1>3. ASSUME t.r \notin hasty
      PROVE  /\ Place(t.r, doc[t.r], ledger[t.r], A, t.r \in broken, t.r \in stray)
             /\ Books(t.r, ledger[t.r], A) /\ doc[t.r] \in Statuses /\ NextTask(t, A) /\ t \in A
  BY <1>2, <1>3, PhaseOf DEF Heading
<1>4. CASE Undo(w) \/ Spend(w)
  <2>1. t.do \in {"undo", "spend"} /\ UNCHANGED doc
    BY <1>4 DEF Undo, Spend, Doing
  <2>2. ASSUME t.r \notin hasty
        PROVE  Place(t.r, doc'[t.r], ledger'[t.r], A \ {t}, t.r \in broken, t.r \in stray)
    BY <1>1, <1>3, <2>1, <2>2, PlaceCached
  <2> QED BY <1>1, <1>2, <2>1, <2>2, PhasesStep DEF Elsewhere
<1>5. CASE Drop(w)
  <2>1. t.do = "drop" /\ Set(t.r, "gone")
    BY <1>5 DEF Drop, Doing
  <2>2. doc'[t.r] = "gone" /\ Elsewhere(t.r)
    BY <1>1, <1>2, <2>1, ElsewhereSet
  <2>3. ASSUME t.r \notin hasty
        PROVE  Place(t.r, doc'[t.r], ledger'[t.r], A \ {t}, t.r \in broken, t.r \in stray)
    <3>1. A \ {t} = {} /\ Place(t.r, "gone", ledger[t.r], {}, t.r \in broken, t.r \in stray)
      BY <1>3, <2>1, <2>3, PlaceDropped
    <3> QED BY <1>1, <2>2, <3>1
  <2> QED BY <1>1, <1>2, <2>2, <2>3, PhasesStep
<1>6. CASE Lose(w)
  <2>1. t.do = "lose" /\ Set(t.r, "rejected")
    BY <1>6 DEF Lose, Doing
  <2>2. doc'[t.r] = "rejected" /\ Elsewhere(t.r)
    BY <1>1, <1>2, <2>1, ElsewhereSet
  <2>3. ASSUME t.r \notin hasty
        PROVE  Place(t.r, doc'[t.r], ledger'[t.r], A \ {t}, t.r \in broken, t.r \in stray)
    <3>1. A \ {t} = {}
      BY <1>3, <2>1, <2>3, OnlyTask DEF Final
    <3>2. Place(t.r, "rejected", ledger[t.r], {}, t.r \in broken, t.r \in stray)
      BY <1>3, <2>1, <2>3, PlaceLost
    <3> QED BY <1>1, <2>2, <3>1, <3>2
  <2> QED BY <1>1, <1>2, <2>2, <2>3, PhasesStep
<1> QED BY <1>4, <1>5, <1>6

\* Create.
LEMMA PhasesCreate ==
  ASSUME Types, Lists, Sole, Phases, NEW w \in Servers, Create(w)
  PROVE  Sole' /\ Phases'
<1> SUFFICES ASSUME NEW t, t = Head(todo[w]) PROVE Sole' /\ Phases'
  OBVIOUS
<1> DEFINE A == Account(t.r)
           B == Entries("gate", t.r, Full[t.r]) \cup {Task("recheck", t.r, 0, 0)}
<1>1. Heading(t, w) /\ t.do = "create" /\ t.r \in Reqs /\ Acted(t.r, B)
  BY CreateActed DEF Heading
<1>2. UNCHANGED <<ledger, hasty, broken, stray>>
  BY DEF Create
<1>3. PICK st \in Pending : Set(t.r, st)
  BY DEF Create, Pending
<1>4. doc'[t.r] = st /\ Elsewhere(t.r)
  BY <1>1, <1>2, <1>3, ElsewhereSet
<1>5. ASSUME t.r \notin hasty
      PROVE  Place(t.r, doc'[t.r], ledger'[t.r], B, t.r \in broken, t.r \in stray)
  <2>1. /\ Place(t.r, doc[t.r], ledger[t.r], A, t.r \in broken, t.r \in stray)
        /\ Books(t.r, ledger[t.r], A) /\ doc[t.r] \in Statuses /\ t \in A
    BY <1>1, <1>5, PhaseOf DEF Heading
  <2>2. doc[t.r] = "none"
    BY <1>1, <2>1, Submitted
  <2>3. Place(t.r, st, ledger[t.r], B, t.r \in broken, t.r \in stray)
    BY <2>1, <2>2, PlaceCreate
  <2> QED BY <1>2, <1>4, <2>3
<1> HIDE DEF B
<1> QED BY <1>1, <1>2, <1>4, <1>5, PhasesStep

\* Recheck: the larger id of two that overlap gives way.
LEMMA PhasesRecheck ==
  ASSUME Types, Lists, Sole, Phases, NEW w \in Servers, Recheck(w)
  PROVE  Sole' /\ Phases'
<1> SUFFICES ASSUME NEW t, t = Head(todo[w]) PROVE Sole' /\ Phases'
  OBVIOUS
<1> DEFINE A == Account(t.r)
<1>1. Heading(t, w) /\ t.do = "recheck" /\ t.r \in Reqs
  BY RecheckActed DEF Heading
<1>2. UNCHANGED <<doc, ledger, hasty, broken, stray>>
  BY DEF Recheck
<1>3. PICK B : /\ Acted(t.r, B)
               /\ \/ B = {}
                  \/ B = Entries("release", t.r, Full[t.r]) \cup {Task("lose", t.r, 0, 0)}
  BY RecheckActed
<1>4. Elsewhere(t.r)
  BY <1>2 DEF Elsewhere
<1>5. ASSUME t.r \notin hasty
      PROVE  Place(t.r, doc[t.r], ledger[t.r], B, t.r \in broken, t.r \in stray)
  <2>1. /\ Place(t.r, doc[t.r], ledger[t.r], A, t.r \in broken, t.r \in stray)
        /\ Books(t.r, ledger[t.r], A) /\ doc[t.r] \in Statuses /\ NextTask(t, A)
    BY <1>1, <1>5, PhaseOf DEF Heading
  <2> QED BY <1>1, <1>3, <2>1, PlaceRechecked
<1> QED BY <1>1, <1>2, <1>3, <1>4, <1>5, PhasesStep

\* Submit.
LEMMA PhasesSubmit ==
  ASSUME Types, Lists, Sole, Phases, NEW w \in Workers, NEW r \in Reqs, Submit(w, r)
  PROVE  Sole' /\ Phases'
<1> DEFINE B == {Task("create", r, 0, 0)}
<1>1. Account(r) = {} /\ doc[r] = "none" /\ Acted(r, B)
  BY SubmitActed
<1>2. UNCHANGED <<doc, ledger, hasty, broken, stray>>
  BY DEF Submit, history
<1>3. Elsewhere(r)
  BY <1>2 DEF Elsewhere
<1>4. Does(B) \subseteq {"create"}
  BY DEF Does, Task
<1> HIDE DEF B
<1>5. ASSUME r \notin hasty
      PROVE  Place(r, doc[r], ledger[r], B, r \in broken, r \in stray)
  <2>1. Place(r, doc[r], ledger[r], Account(r), r \in broken, r \in stray)
    BY <1>5, PhaseOf
  <2> QED BY <1>1, <1>4, <2>1 DEF Place, Pending
<1> QED BY <1>1, <1>2, <1>3, <1>5, PhasesStep

\* Decide and Cancel.
LEMMA PhasesMove ==
  ASSUME Types, Lists, Sole, Phases, NEW w \in Workers, NEW r \in Reqs, Decide(w, r) \/ Cancel(w, r)
  PROVE  Sole' /\ Phases'
<1>1. PICK status \in Pending \cup {"approved", "rejected", "cancelled"} :
        Move(w, r, status) /\ doc[r] \in Pending \cup {"approved"}
  BY DEF Decide, Cancel, Verdicts, Pending
<1>2. Set(r, status) /\ hasty \subseteq hasty' /\ hasty' \subseteq hasty \cup {r}
      /\ UNCHANGED <<ledger, broken, stray>>
  BY <1>1 DEF Move
<1>3. doc'[r] = status /\ Elsewhere(r)
  BY <1>2, ElsewhereSet
<1>4. /\ \A s \in Reqs \ {r} : Account(s)' = Account(s) /\ (One(s, Accounting) => One(s, Accounting)')
      /\ r \notin hasty' =>
           /\ Account(r)' = Returned(r, status) /\ One(r, Accounting)'
           /\ Place(r, status, ledger[r], Returned(r, status), r \in broken, r \in stray)
  BY <1>1, MoveActed
<1>5. ASSUME NEW s \in Reqs \ hasty', s # r PROVE One(s, Accounting)' /\ Phase(s)'
  <2>1. One(s, Accounting) /\ Phase(s)
    BY <1>2 DEF Sole, Phases
  <2>2. Account(s)' = Account(s) /\ doc'[s] = doc[s] /\ ledger'[s] = ledger[s] /\ One(s, Accounting)'
    BY <1>3, <1>4, <1>5, <2>1 DEF Elsewhere
  <2> QED BY <1>2, <2>1, <2>2 DEF Phase
<1>6. ASSUME r \notin hasty' PROVE One(r, Accounting)' /\ Phase(r)'
  BY <1>2, <1>3, <1>4, <1>6 DEF Phase
<1> QED BY <1>5, <1>6 DEF Sole, Phases

\* Complete and EarlyReturn, of a request that is active.
LEMMA PhasesClose ==
  ASSUME Types, Lists, Sole, Phases, NEW w \in Servers, NEW r \in Reqs, NEW d \in Start[r]..(End[r] + 1),
         NEW old, Turned(w, r, old, Closing(r, d)), doc[r] = "active", Set(r, "completed"),
         UNCHANGED <<ledger, hasty, broken, stray>>
  PROVE  Sole' /\ Phases'
<1> DEFINE B == Settlement(r, d)
<1>1. Acted(r, B)
  BY CloseActed
<1>2. doc'[r] = "completed" /\ Elsewhere(r)
  BY ElsewhereSet
<1>3. ASSUME r \notin hasty
      PROVE  Place(r, "completed", ledger[r], B, r \in broken, r \in stray)
  <2>1. /\ Place(r, doc[r], ledger[r], Account(r), r \in broken, r \in stray)
        /\ Books(r, ledger[r], Account(r))
    BY <1>3, PhaseOf
  <2> QED BY <2>1, PlaceClosed DEF Settlement
<1> HIDE DEF B
<1> QED BY <1>1, <1>2, <1>3, PhasesStep

\* Complete, Activate and what does not touch the accounts.
LEMMA PhasesLifecycle ==
  ASSUME Types, Lists, Sole, Phases, NEW w \in Servers,
         CatchUp(w) \/ Activate(w) \/ Complete(w)
  PROVE  Sole' /\ Phases'
<1> SUFFICES ASSUME NEW t, t = Head(todo[w]) PROVE Sole' /\ Phases'
  OBVIOUS
<1>1. UNCHANGED <<ledger, hasty, broken, stray>>
  BY DEF CatchUp, Activate, Complete, history
<1>2. {"catchUp", "activate", "complete"} \cap Accounting = {}
  BY DEF Accounting, Sub
<1>3. ASSUME NEW new, NEW old, Turned(w, t.r, old, new),
             \A u \in old \cup new :
               u.do \in {"catchUp", "activate", "complete"}
      PROVE  Steady(Accounting)
  <2>1. \A u \in old \cup new : u.do \notin Accounting
    BY <1>2, <1>3
  <2> QED BY <1>3, <2>1, SteadyTurn
<1>4. CASE CatchUp(w)
  <2>1. UNCHANGED doc /\ t.do = "catchUp"
    BY <1>4, CatchUpStep DEF CatchUp
  <2>2. PICK new \in SUBSET {Task("activate", t.r, 0, 0), Task("complete", t.r, 0, 0)} :
          Turned(w, t.r, {t}, new)
    BY <1>4, CatchUpStep
  <2>3. \A u \in new : u.do \in {"activate", "complete"}
    BY <2>2 DEF Task
  <2>4. Steady(Accounting)
    BY <1>3, <2>1, <2>2, <2>3
  <2> QED BY <1>1, <2>1, <2>4, PhasesSteady
<1>7. CASE Activate(w)
  <2>1. t.do = "activate" /\ GoodTask(t) /\ t.r \in Reqs
    BY <1>7, ActivateStep DEF GoodTask
  <2>2. CASE doc[t.r] = "approved"
    <3>1. Turned(w, t.r, {t}, {}) /\ Set(t.r, "active")
      BY <1>7, <2>2, ActivateStep
    <3>3. Steady(Accounting)
      BY <1>3, <2>1, <3>1
    <3>4. Acted(t.r, Account(t.r))
      BY <2>1, <3>3, ActedSteady
    <3>5. doc'[t.r] = "active" /\ Elsewhere(t.r)
      BY <1>1, <2>1, <3>1, ElsewhereSet
    <3>6. ASSUME t.r \notin hasty
          PROVE  Place(t.r, "active", ledger[t.r], Account(t.r), t.r \in broken, t.r \in stray)
      <4>1. Place(t.r, doc[t.r], ledger[t.r], Account(t.r), t.r \in broken, t.r \in stray)
        BY <2>1, <3>6, PhaseOf
      <4> QED BY <2>2, <4>1 DEF Place, Pending
    <3> QED BY <1>1, <2>1, <3>4, <3>5, <3>6, PhasesStep
  <2>3. CASE doc[t.r] # "approved"
    <3>1. UNCHANGED doc
      BY <1>7, <2>3, ActivateStep
    <3>2. PICK old : Turned(w, t.r, old, {}) /\ \A u \in old : u.do \in {"activate", "complete"}
      BY <1>7, <2>3, ActivateStep
    <3>3. Steady(Accounting)
      BY <1>3, <3>2
    <3> QED BY <1>1, <3>1, <3>3, PhasesSteady
  <2> QED BY <2>2, <2>3
<1>8. CASE Complete(w)
  <2>1. t.do = "complete" /\ GoodTask(t) /\ t.r \in Reqs
    BY <1>8, CompleteStep DEF GoodTask
  <2>2. CASE doc[t.r] = "active"
    <3>1. Turned(w, t.r, {t}, Closing(t.r, End[t.r] + 1)) /\ Set(t.r, "completed")
      BY <1>8, <2>2, CompleteStep DEF Complete
    <3>2. PICK d \in Start[t.r]..(End[t.r] + 1) : d = End[t.r] + 1
      <4>1. Start[t.r] \in Nat /\ End[t.r] \in Nat /\ Start[t.r] <= End[t.r]
        BY <2>1, LeaveAssumption
      <4>2. End[t.r] + 1 \in Start[t.r]..(End[t.r] + 1)
        BY <4>1
      <4> QED BY <4>2
    <3>3. Turned(w, t.r, {t}, Closing(t.r, d))
      BY <3>1, <3>2
    <3> QED BY <1>1, <2>1, <2>2, <3>1, <3>3, PhasesClose
  <2>3. CASE doc[t.r] # "active"
    <3>1. UNCHANGED doc
      BY <1>8, <2>3 DEF Complete
    <3>2. Turned(w, t.r, {t}, {})
      BY <1>8, <2>3, CompleteStep
    <3>3. Steady(Accounting)
      BY <1>3, <2>1, <3>2
    <3> QED BY <1>1, <3>1, <3>3, PhasesSteady
  <2> QED BY <2>2, <2>3
<1> QED BY <1>4, <1>7, <1>8

\* The jobs, the calendar and the steps that do nothing.
LEMMA PhasesJobs ==
  ASSUME Types, Lists, Sole, Phases,
         \/ ActivateDueStarted \/ CompleteDueEnded \/ Tick
         \/ UNCHANGED vars
  PROVE  Sole' /\ Phases'
<1>1. UNCHANGED <<doc, ledger, hasty, broken, stray>>
  BY DEF ActivateDueStarted, CompleteDueEnded, Tick, vars, history
<1>2. ASSUME NEW w \in Jobs, NEW do \in {"activate", "complete"}, NEW due \in SUBSET Reqs,
             Begin(w, Calls(do, due))
      PROVE  Steady(Accounting)
  <2>1. /\ Tasks(w) = {} /\ \A v \in Servers \ {w} : Tasks(v)' = Tasks(v)
        /\ \A t \in Tasks(w)' : t.do = do /\ t.r \in due
    BY <1>2, JobStep
  <2>2. \A t \in Tasks(w)' : t.do \notin Accounting
    BY <2>1 DEF Accounting, Sub
  <2> QED BY <2>1, <2>2, SteadyJob DEF Servers
<1>3. CASE ActivateDueStarted
  <2> DEFINE due == {r \in Reqs : doc[r] = "approved" /\ Start[r] <= today}
  <2>1. Begin("activateStarted", Calls("activate", due)) /\ due \in SUBSET Reqs
    BY <1>3 DEF ActivateDueStarted
  <2> HIDE DEF due
  <2> QED BY <1>1, <1>2, <2>1, PhasesSteady DEF Jobs
<1>4. CASE CompleteDueEnded
  <2> DEFINE due == {r \in Reqs : doc[r] = "active" /\ End[r] < today}
  <2>1. Begin("completeEnded", Calls("complete", due)) /\ due \in SUBSET Reqs
    BY <1>4 DEF CompleteDueEnded
  <2> HIDE DEF due
  <2> QED BY <1>1, <1>2, <2>1, PhasesSteady DEF Jobs
<1>5. CASE Tick \/ UNCHANGED vars
  <2>1. UNCHANGED todo
    BY <1>5 DEF Tick, vars
  <2> QED BY <1>1, <2>1, SteadyIdle, PhasesSteady
<1> QED BY <1>3, <1>4, <1>5

\* A call dies.  A request whose accounts it kept has no more of them written, or
\* is to be deleted; of a job the requests left in its list go on.
LEMMA FailActed ==
  ASSUME Lists, Sole, NEW w \in Servers, Fail(w), NEW s \in Reqs \ hasty
  PROVE  /\ One(s, Accounting)'
         /\ \/ /\ Account(s)' = Account(s) /\ (s \in stray' <=> s \in stray)
               /\ s \in broken => s \in broken'
            \/ /\ Account(s)' \subseteq Account(s) /\ Account(s) # {}
               /\ (\E t \in Account(s) : t.do \in Sub) => Account(s)' = {}
               /\ s \in broken' /\ (s \in stray' <=> s \in stray \/ "drop" \in Does(Account(s)))
            \/ /\ Account(s)' = {Task("drop", s, 0, 0)}
               /\ \E t \in Account(s) : t.do \in {"gate", "row", "drop"}
<1> SUFFICES ASSUME NEW t, t = Head(todo[w])
             PROVE  /\ One(s, Accounting)'
                    /\ \/ /\ Account(s)' = Account(s) /\ (s \in stray' <=> s \in stray)
                          /\ s \in broken => s \in broken'
                       \/ /\ Account(s)' \subseteq Account(s) /\ Account(s) # {}
                          /\ (\E u \in Account(s) : u.do \in Sub) => Account(s)' = {}
                          /\ s \in broken' /\ (s \in stray' <=> s \in stray \/ "drop" \in Does(Account(s)))
                       \/ /\ Account(s)' = {Task("drop", s, 0, 0)}
                          /\ \E u \in Account(s) : u.do \in {"gate", "row", "drop"}
  OBVIOUS
<1> DEFINE A == Account(s)
           mine == A \cap Tasks(w)
           stray1 == stray \cup {u.r : u \in {u \in Tasks(w) : u.do = "drop"}}
<1>1. /\ broken' = broken \cup {u.r : u \in Tasks(w)}
      /\ stray' = stray1
  BY DEF Fail
<1>2. /\ t \in Tasks(w) /\ GoodTask(t)
      /\ \A v \in Servers \ {w} : Tasks(v)' = Tasks(v)
      /\ \/ /\ Tasks(w)' \subseteq Tasks(w)
            /\ w \in Workers => Tasks(w)' = {}
         \/ /\ Tasks(w)' = {Task("drop", t.r, 0, 0)}
            /\ w \in Workers /\ \A u \in Tasks(w) : u.r = t.r
            /\ t.do \in {"gate", "row"} \/ \E u \in Tasks(w) : u.do = "drop"
  BY FailStep, ZenonT(30)
<1>3. One(s, Accounting)
  BY DEF Sole
<1>4. mine # {} => A \subseteq Tasks(w) /\ s \in broken'
  <2> SUFFICES ASSUME NEW u \in mine PROVE A \subseteq Tasks(w) /\ s \in broken'
    OBVIOUS
  <2>1. u.r = s
    BY DEF Account, Mine
  <2>2. A \subseteq Tasks(w)
    BY <1>3 DEF One, Account, Mine, Open
  <2> QED BY <1>1, <2>1, <2>2
<1>5. s \in stray1 <=> s \in stray \/ \E u \in mine : u.do = "drop"
  <2>1. \A u \in Tasks(w) : u.r = s /\ u.do = "drop" => u \in mine
    BY DEF Account, Mine, Open, Accounting, Sub
  <2>2. \A u \in mine : u.r = s /\ u \in Tasks(w)
    BY DEF Account, Mine
  <2> QED BY <2>1, <2>2
<1> HIDE DEF stray1
<1>6. ASSUME A' = A, \A u \in mine : u.do # "drop"
      PROVE  (s \in stray' <=> s \in stray) /\ (s \in broken => s \in broken')
  BY <1>1, <1>5, <1>6
<1>7. CASE Tasks(w)' \subseteq Tasks(w) /\ (w \in Workers => Tasks(w)' = {})
  <2>1. A' \subseteq A /\ One(s, Accounting)'
    <3>1. \A v \in Servers : Tasks(v)' \subseteq Tasks(v)
      BY <1>2, <1>7
    <3>2. Open' \subseteq Open
      BY <3>1 DEF Open
    <3>3. Mine(s, Accounting)' \subseteq Mine(s, Accounting)
      BY <3>2 DEF Mine
    <3> QED BY <1>3, <3>1, <3>3 DEF One, Account
  <2>2. CASE mine = {}
    <3>1. ASSUME NEW u \in A PROVE u \in A'
      <4>1. PICK v \in Servers : u \in Tasks(v)
        BY DEF Account, Mine, Open
      <4>2. v # w
        BY <2>2, <4>1
      <4>3. u \in Tasks(v)'
        BY <1>2, <4>1, <4>2
      <4> QED BY <4>3 DEF Account, Mine, Open
    <3>2. A' = A
      BY <2>1, <3>1
    <3> QED BY <1>6, <2>1, <2>2, <3>2
  <2>3. CASE mine # {}
    <3>1. A \subseteq Tasks(w) /\ A # {} /\ mine = A
      BY <1>4, <2>3
    <3>2. (\E u \in A : u.do \in Sub) => A' = {}
      <4> SUFFICES ASSUME NEW u \in A, u.do \in Sub PROVE A' = {}
        OBVIOUS
      <4>1. w \in Workers
        BY <3>1 DEF Lists
      <4>2. ASSUME NEW x \in A' PROVE FALSE
        <5>1. PICK v \in Servers : x \in Tasks(v)'
          BY DEF Account, Mine, Open
        <5>2. v # w
          BY <1>7, <4>1, <5>1
        <5>3. x \in Tasks(v) /\ x \in A
          BY <1>2, <2>1, <5>1, <5>2
        <5> QED BY <1>3, <3>1, <5>2, <5>3 DEF One, Account
      <4> QED BY <4>2
    <3>3. s \in stray' <=> s \in stray \/ "drop" \in Does(A)
      BY <1>1, <1>5, <3>1 DEF Does
    <3>4. s \in broken'
      BY <1>4, <2>3
    <3> QED BY <2>1, <3>1, <3>2, <3>3, <3>4
  <2> QED BY <2>2, <2>3
<1>8. CASE /\ Tasks(w)' = {Task("drop", t.r, 0, 0)}
           /\ w \in Workers /\ \A u \in Tasks(w) : u.r = t.r
           /\ t.do \in {"gate", "row"} \/ \E u \in Tasks(w) : u.do = "drop"
  <2> DEFINE new == {Task("drop", t.r, 0, 0)}
  <2>1. \A u \in new : u.r = t.r /\ u.do = "drop" /\ u.do \in Accounting
    BY DEF Task, Accounting, Sub
  <2>2. Turned(w, t.r, Tasks(w), new)
    BY <1>2, <1>8, <2>1 DEF Turned
  <2> HIDE DEF new
  <2>4. CASE s # t.r
    <3>1. A' = A /\ One(s, Accounting)'
      BY <1>3, <2>2, <2>4, OthersTasks DEF Account
    <3>2. mine = {}
      BY <1>8, <2>4 DEF Account, Mine
    <3> QED BY <1>6, <3>1, <3>2
  <2>5. CASE s = t.r
    <3>1. PICK u \in mine : u.do \in {"gate", "row", "drop"}
      BY <1>2, <1>8, <2>5 DEF Account, Mine, Open, Accounting, Sub
    <3>2. A \subseteq Tasks(w) /\ u \in A
      BY <1>4, <3>1
    <3>3. A' = (A \ Tasks(w)) \cup {x \in new : x.do \in Accounting} /\ One(s, Accounting)'
      BY <1>3, <2>2, <2>5, <3>2, OwnTasks DEF Account
    <3>4. A' = new
      BY <2>1, <3>2, <3>3
    <3> QED BY <2>5, <3>1, <3>2, <3>3, <3>4 DEF new
  <2> QED BY <2>4, <2>5
<1> QED BY <1>2, <1>7, <1>8

\* Fail: the request is where it was, with less to come, or is to be deleted.
LEMMA PhasesFail ==
  ASSUME Types, Lists, Sole, Phases, NEW w \in Servers, Fail(w)
  PROVE  Sole' /\ Phases'
<1> SUFFICES ASSUME NEW s \in Reqs \ hasty
             PROVE  One(s, Accounting)' /\ Phase(s)'
  BY DEF Fail, Sole, Phases
<1>1. UNCHANGED <<doc, ledger>>
  BY DEF Fail
<1>2. /\ Place(s, doc[s], ledger[s], Account(s), s \in broken, s \in stray)
      /\ Books(s, ledger[s], Account(s)) /\ doc[s] \in Statuses
  BY PhaseOf
<1>3. ASSUME NEW A, A = Account(s), NEW B, B = Account(s)',
             NEW failed, failed <=> s \in broken', NEW lost, lost <=> s \in stray'
      PROVE  Place(s, doc[s], ledger[s], B, failed, lost)
  <2>0. /\ Place(s, doc[s], ledger[s], A, s \in broken, s \in stray)
        /\ Books(s, ledger[s], A)
    BY <1>2, <1>3
  <2>1. CASE B = A /\ (lost <=> s \in stray) /\ (s \in broken => failed)
    BY <2>0, <2>1 DEF Place, Abandoned
  <2>2. CASE /\ B \subseteq A /\ A # {} /\ ((\E t \in A : t.do \in Sub) => B = {})
             /\ failed /\ (lost <=> s \in stray \/ "drop" \in Does(A))
    <3>1. Place(s, doc[s], ledger[s], B, TRUE, lost)
      BY <1>2, <2>0, <2>2, PlaceCut
    <3> QED BY <2>2, <3>1 DEF Place, Abandoned
  <2>3. CASE B = {Task("drop", s, 0, 0)} /\ \E t \in A : t.do \in {"gate", "row", "drop"}
    <3>1. "drop" \in Does(B) /\ Does(B) \subseteq {"undo", "drop"}
      BY <2>3 DEF Does, Task
    <3> QED BY <1>2, <2>0, <2>3, <3>1, PlaceGateLost, SMTT(30)
  <2> QED BY <1>3, <2>1, <2>2, <2>3, FailActed
<1>4. Place(s, doc[s], ledger[s], Account(s)', s \in broken', s \in stray')
  BY <1>3
<1>5. One(s, Accounting)'
  BY FailActed
<1> QED BY <1>1, <1>4, <1>5 DEF Phase

\* Every step keeps each request where its status, ledger and tasks agree.
LEMMA NextPhases == Types /\ Lists /\ Fresh /\ Sole /\ Phases /\ [Next]_vars => Sole' /\ Phases'
<1> SUFFICES ASSUME Types, Lists, Fresh, Sole, Phases, [Next]_vars PROVE Sole' /\ Phases'
  OBVIOUS
<1>1. ASSUME NEW w \in Servers, Release(w) \/ Consume(w) PROVE Sole' /\ Phases'
  <2>1. UNCHANGED <<doc, hasty, broken, stray>>
    BY <1>1 DEF Release, Consume, Insert, history
  <2>2. CASE Release(w)
    BY <2>1, <2>2, ReleaseStep, PhasesEntered DEF LeadsTo
  <2>3. CASE Consume(w)
    BY <2>1, <2>3, ConsumeStep, PhasesEntered DEF LeadsTo
  <2> QED BY <1>1, <2>2, <2>3
<1>2. ASSUME NEW w \in Workers, NEW r \in Reqs, EarlyReturn(w, r) PROVE Sole' /\ Phases'
  <2>1. PICK d \in Start[r]..(End[r] + 1) : Turned(w, r, {}, Closing(r, d))
    BY <1>2, EarlyReturnStep
  <2>2. doc[r] = "active" /\ Set(r, "completed") /\ UNCHANGED <<ledger, hasty, broken, stray>>
    BY <1>2 DEF EarlyReturn, history
  <2> QED BY <2>1, <2>2, PhasesClose DEF Servers
<1>3. ASSUME NEW w \in Servers, Serve(w) PROVE Sole' /\ Phases'
  BY <1>1, <1>3, PhasesReserve, PhasesTaken, PhasesCreate, PhasesRecheck, PhasesLifecycle DEF Serve
<1>4. ASSUME NEW w \in Workers, NEW r \in Reqs, Submit(w, r) \/ Decide(w, r) \/ Cancel(w, r)
      PROVE  Sole' /\ Phases'
  BY <1>4, PhasesSubmit, PhasesMove
<1> QED BY <1>2, <1>3, <1>4, PhasesFail, PhasesJobs DEF Next

\* Initially they agree.
LEMMA PhasesInitially == Init => Sole /\ Phases
<1> SUFFICES ASSUME Init PROVE Sole /\ Phases
  OBVIOUS
<1>1. Open = {}
  <2>1. \A w \in Servers : Tasks(w) = {}
    BY TasksAreElements, EmptyList DEF Init
  <2> QED BY <2>1 DEF Open
<1>2. \A r : Account(r) = {} /\ Does(Account(r)) = {}
  BY <1>1 DEF Account, Mine, Does
<1>3. \A r \in Reqs : doc[r] = "none" /\ \A k \in Kinds : Nil(ledger[r], k)
  BY DEF Init, Nil
<1>4. Sole
  BY <1>2 DEF Sole, One, Account
<1>5. ASSUME NEW r \in Reqs PROVE Phase(r)
  <2>1. r \notin stray
    BY DEF Init
  <2> QED BY <1>2, <1>3, <2>1 DEF Phase, Place, Pending
<1> QED BY <1>4, <1>5 DEF Phases

-----------------------------------------------------------------------------
(***************************************************************************)
(* The invariant, and what it says of the ledger                           *)
(***************************************************************************)
\* The invariant, conjunct by conjunct.
Invariant == Types /\ Lists /\ Fresh /\ Sole /\ Phases

\* The invariant is inductive.
LEMMA InvariantHolds == Spec => []Invariant
<1>1. Init => Invariant
  BY TypesInitially, FreshInitially, PhasesInitially DEF Invariant
<1>2. Invariant /\ [Next]_vars => Invariant'
  BY NextTypes, NextLists, NextFresh, NextPhases DEF Invariant
<1> QED BY <1>1, <1>2, PTL DEF Spec

\* The statuses, the balance of each year and the rows of the ledger stay in their types: what a
\* ledger entry of a request holds never exceeds the days the request asks of that year, whatever
\* calls of leave-request.service.ts overlap or die.
THEOREM Typed == Spec => []TypeOK
<1>1. Invariant => TypeOK
  BY DEF Invariant, Types
<1> QED BY <1>1, InvariantHolds, PTL

\* A request no call is about, none of whose calls failed, holds exactly its days: reserved while
\* it is live, all given back when it was turned down or withdrawn, each consumed or given back
\* when it is completed (leave-balance.service.ts: reserve, release and consume ForRequest).
THEOREM HoldingExact == Spec => []HeldExactly
<1>1. Invariant => HeldExactly
  <2> SUFFICES ASSUME Invariant, NEW r \in Reqs \ (hasty \cup broken \cup InFlight) PROVE Settled(r)
    BY DEF HeldExactly
  <2> DEFINE e == ledger[r]
  <2>1. Account(r) = {}
    BY DEF Account, Mine, Open, InFlight
  <2>2. /\ Place(r, doc[r], e, {}, r \in broken, r \in stray) /\ r \notin broken
        /\ Books(r, e, {})
    BY <2>1, PhaseOf DEF Invariant
  <2>3. /\ e \in [Kinds -> [Years -> Nat]] /\ Full[r] \in [Years -> Nat]
        /\ Nothing = [y \in Years |-> 0]
    BY <2>2, FullType DEF Books, Nothing
  <2>4. ASSUME NEW k \in Kinds, Nil(e, k) PROVE e[k] = Nothing
    BY <2>3, <2>4 DEF Nil
  <2>5. ASSUME NEW k, NEW y \in Years, NEW n, Booked(r, e, {}, k, y, n) PROVE e[k][y] = n
    BY <2>5 DEF Booked
  <2>6. Released(r, e, {}) => e["release"] = Full[r]
    <3>1. Released(r, e, {}) => \A y \in Years : e["release"][y] = Full[r][y]
      BY <2>5 DEF Released
    <3> QED BY <2>3, <3>1 DEF Kinds
  <2>7. Shared(r, e, {}) => \A y \in Years : e["release"][y] + e["consume"][y] = Full[r][y]
    <3> SUFFICES ASSUME Shared(r, e, {}), NEW y \in Years
                 PROVE  e["release"][y] + e["consume"][y] = Full[r][y]
      OBVIOUS
    <3>1. PICK c \in 0..Full[r][y] :
            Booked(r, e, {}, "consume", y, c) /\ Booked(r, e, {}, "release", y, Full[r][y] - c)
      BY DEF Shared
    <3>2. e["consume"][y] = c /\ e["release"][y] = Full[r][y] - c
      BY <2>5, <3>1
    <3>3. Full[r][y] \in Nat
      BY <2>3
    <3> QED BY <3>2, <3>3
  <2> HIDE DEF e
  <2>8. "release" \in Kinds /\ "consume" \in Kinds /\ "reserve" \in Kinds
    BY DEF Kinds
  <2>9. Holding(r, e, {}) => e = [k \in Kinds |-> IF k = "reserve" THEN Full[r] ELSE Nothing]
    <3> SUFFICES ASSUME Holding(r, e, {}) PROVE e = [k \in Kinds |-> IF k = "reserve" THEN Full[r] ELSE Nothing]
      OBVIOUS
    <3>1. e["reserve"] = Full[r] /\ e["release"] = Nothing /\ e["consume"] = Nothing
      BY <2>4, <2>8 DEF Holding, Reserved
    <3>2. \A k \in Kinds : e[k] = IF k = "reserve" THEN Full[r] ELSE Nothing
      BY <3>1 DEF Kinds
    <3> QED BY <2>3, <3>2
  <2>10. CASE doc[r] \in Blocking
    <3>1. Holding(r, e, {})
      BY <2>2, <2>10 DEF Place, Blocking, Pending, Does, Reserving, Losing, Deleting, Abandoned
    <3>2. e = [k \in Kinds |-> IF k = "reserve" THEN Full[r] ELSE Nothing]
      BY <2>9, <3>1
    <3> QED BY <2>10, <3>2 DEF Settled, Blocking, Pending, e
  <2>11. CASE doc[r] \in {"rejected", "cancelled"}
    <3>1. e["reserve"] = Full[r] /\ e["release"] = Full[r] /\ e["consume"] = Nothing
      BY <2>2, <2>4, <2>6, <2>8, <2>11 DEF Place, Reserved
    <3> QED BY <2>11, <3>1 DEF Settled, Blocking, Pending, e
  <2>12. CASE doc[r] = "completed"
    <3>1. e["reserve"] = Full[r] /\ \A y \in Years : e["release"][y] + e["consume"][y] = Full[r][y]
      BY <2>2, <2>7, <2>12 DEF Place, Reserved
    <3> QED BY <2>12, <3>1 DEF Settled, Blocking, Pending, e
  <2>13. CASE doc[r] \notin Blocking \cup {"rejected", "cancelled", "completed"}
    BY <2>13 DEF Settled
  <2> QED BY <2>10, <2>11, <2>12, <2>13
<1> QED BY <1>1, InvariantHolds, PTL

-----------------------------------------------------------------------------
(***************************************************************************)
(* What waits for the cache                                                *)
(***************************************************************************)
\* The tasks that write the cache, or tell what of it is to be given back.
Cash == {"row", "undo", "spend", "drop"}

\* No two tasks of a request have the same rank.
Apart(A) == \A t, u \in A : Rank(t) = Rank(u) => t = u

\* The accounting tasks of a request are in one list, so no two have a rank.
LEMMA AccountApart ==
  ASSUME Lists, NEW r, One(r, Accounting)
  PROVE  Apart(Account(r))
<1> SUFFICES ASSUME NEW t \in Account(r), NEW u \in Account(r), Rank(t) = Rank(u) PROVE t = u
  BY DEF Apart
<1>1. PICK w \in Servers : t \in Tasks(w)
  BY DEF Account, Mine, Open
<1>2. u \in Tasks(w) /\ t.r = u.r
  BY <1>1 DEF One, Account, Mine, Open
<1>3. GoodList(todo[w])
  BY DEF Lists
<1> QED BY <1>1, <1>2, <1>3, Distinct, TasksAreElements

\* What waits depends on the tasks of that sort and year alone.
LEMMA WaitingSame ==
  ASSUME NEW A, NEW B, NEW do, NEW y, \A t : t.do = do /\ t.y = y => (t \in A <=> t \in B)
  PROVE  Waiting(A, do, y) = Waiting(B, do, y)
<1> DEFINE V == {t \in A : t.do = do /\ t.y = y}
           W == {t \in B : t.do = do /\ t.y = y}
           n(S) == IF S = {} THEN 0 ELSE (CHOOSE t \in S : TRUE).n
<1>1. V = W
  OBVIOUS
<1>2. Waiting(A, do, y) = n(V) /\ Waiting(B, do, y) = n(W)
  BY DEF Waiting
<1> HIDE DEF V, W, n
<1> QED BY <1>1, <1>2

\* Nothing waits without such a task.
LEMMA WaitingNone ==
  ASSUME NEW A, NEW do, NEW y, \A t \in A : t.do = do => t.y # y
  PROVE  Waiting(A, do, y) = 0
<1>1. {t \in A : t.do = do /\ t.y = y} = {}
  OBVIOUS
<1> QED BY <1>1 DEF Waiting

\* The days of the one there is.
LEMMA WaitingOne ==
  ASSUME NEW A, NEW t \in A, \A u \in A : u.do = t.do /\ u.y = t.y => u = t
  PROVE  Waiting(A, t.do, t.y) = t.n
<1>1. {u \in A : u.do = t.do /\ u.y = t.y} = {t}
  OBVIOUS
<1> QED BY <1>1 DEF Waiting

\* Tasks of one sort for one year have one rank.
LEMMA OneRank ==
  ASSUME NEW t, NEW u, t.do = u.do, t.y = u.y
  PROVE  Rank(t) = Rank(u)
BY DEF Rank

\* So have a row and its change of the cache.
LEMMA NextRank ==
  ASSUME NEW t, NEW u, t.y = u.y,
         \/ t.do = "gate" /\ u.do = "row"
         \/ t.do = "release" /\ u.do = "undo"
         \/ t.do = "consume" /\ u.do = "spend"
  PROVE  Rank(t) = Rank(u)
BY DEF Rank, Starting

\* What waits is never negative.
LEMMA WaitingNat ==
  ASSUME NEW A, \A t \in A : GoodTask(t), NEW do \in Yearly, NEW y
  PROVE  Waiting(A, do, y) \in Nat
<1> DEFINE W == {t \in A : t.do = do /\ t.y = y}
<1>1. CASE W = {}
  BY <1>1 DEF Waiting
<1>2. CASE W # {}
  <2>1. PICK t \in W : Waiting(A, do, y) = t.n
    BY <1>2 DEF Waiting
  <2>2. t.n \in Nat
    <3>1. GoodTask(t) /\ t.do = do
      BY <2>1
    <3> QED BY <3>1, FullType DEF GoodTask, Yearly, Plain
  <2> QED BY <2>1, <2>2
<1> QED BY <1>1, <1>2

\* Taking a task away, or putting one in, changes what waits for its own sort and year.
LEMMA WaitingTaken ==
  ASSUME NEW A, Apart(A), NEW t \in A, NEW do, NEW y
  PROVE  /\ t.do = do /\ t.y = y => Waiting(A, do, y) = t.n /\ Waiting(A \ {t}, do, y) = 0
         /\ ~(t.do = do /\ t.y = y) => Waiting(A \ {t}, do, y) = Waiting(A, do, y)
<1>1. ASSUME t.do = do, t.y = y
      PROVE  Waiting(A, do, y) = t.n /\ Waiting(A \ {t}, do, y) = 0
  <2>1. \A u \in A : u.do = t.do /\ u.y = t.y => u = t
    BY OneRank DEF Apart
  <2>2. \A u \in A \ {t} : u.do = do => u.y # y
    BY <1>1, <2>1
  <2>3. Waiting(A \ {t}, do, y) = 0
    BY <2>2, WaitingNone
  <2> QED BY <1>1, <2>1, <2>3, WaitingOne
<1>2. ASSUME ~(t.do = do /\ t.y = y)
      PROVE  Waiting(A \ {t}, do, y) = Waiting(A, do, y)
  <2>1. \A u : u.do = do /\ u.y = y => (u \in A \ {t} <=> u \in A)
    BY <1>2
  <2> QED BY <2>1, WaitingSame
<1> QED BY <1>1, <1>2

\* Putting a task in changes what waits for its own sort and year.
LEMMA WaitingAdded ==
  ASSUME NEW A, NEW t, \A u \in A : Rank(u) # Rank(t), NEW do, NEW y
  PROVE  /\ t.do = do /\ t.y = y => Waiting(A, do, y) = 0 /\ Waiting(A \cup {t}, do, y) = t.n
         /\ ~(t.do = do /\ t.y = y) => Waiting(A \cup {t}, do, y) = Waiting(A, do, y)
<1>1. ASSUME t.do = do, t.y = y
      PROVE  Waiting(A, do, y) = 0 /\ Waiting(A \cup {t}, do, y) = t.n
  <2>1. \A u \in A : ~(u.do = do /\ u.y = y)
    BY <1>1, OneRank
  <2>2. Waiting(A, do, y) = 0
    BY <2>1, WaitingNone
  <2>3. t \in A \cup {t} /\ \A u \in A \cup {t} : u.do = t.do /\ u.y = t.y => u = t
    BY <1>1, <2>1
  <2>4. Waiting(A \cup {t}, t.do, t.y) = t.n
    BY <2>3, WaitingOne
  <2> QED BY <1>1, <2>2, <2>4
<1>2. ASSUME ~(t.do = do /\ t.y = y)
      PROVE  Waiting(A \cup {t}, do, y) = Waiting(A, do, y)
  <2>1. \A u : u.do = do /\ u.y = y => (u \in A \cup {t} <=> u \in A)
    BY <1>2
  <2> QED BY <2>1, WaitingSame
<1> QED BY <1>1, <1>2

\* A task replaced by its successor of the same rank.
LEMMA WaitingRenewed ==
  ASSUME NEW A, Apart(A), NEW t \in A, NEW u, Rank(u) = Rank(t), NEW do, NEW y
  PROVE  LET B == (A \ {t}) \cup {u} IN
         /\ u.do = do /\ u.y = y => Waiting(B, do, y) = u.n
         /\ u.do = do /\ u.y = y /\ t.do # do => Waiting(A, do, y) = 0
         /\ ~(u.do = do /\ u.y = y) /\ ~(t.do = do /\ t.y = y) =>
              Waiting(B, do, y) = Waiting(A, do, y)
<1> DEFINE C == A \ {t}
<1>1. \A x \in C : Rank(x) # Rank(u)
  BY DEF Apart
<1>2. ~(t.do = do /\ t.y = y) => Waiting(C, do, y) = Waiting(A, do, y)
  BY WaitingTaken
<1> HIDE DEF C
<1>3. /\ u.do = do /\ u.y = y => Waiting(C, do, y) = 0 /\ Waiting(C \cup {u}, do, y) = u.n
      /\ ~(u.do = do /\ u.y = y) => Waiting(C \cup {u}, do, y) = Waiting(C, do, y)
  BY <1>1, WaitingAdded
<1> QED BY <1>2, <1>3 DEF C

-----------------------------------------------------------------------------
(***************************************************************************)
(* The share of a request in the cache, step by step                       *)
(***************************************************************************)
\* All that is known of where a request is.
Known(r, st, e, A, failed, lost) ==
  Books(r, e, A) /\ st \in Statuses /\ Place(r, st, e, A, failed, lost) /\ Apart(A)

\* What a task of the next rank writes.
DaysOf(t, y) == IF y = t.y THEN t.n ELSE 0

\* No request has less than nothing in the cache.
LEMMA PartType ==
  ASSUME NEW r, NEW st, NEW e, NEW A, NEW failed, NEW lost, Known(r, st, e, A, failed, lost),
         NEW y \in Years
  PROVE  /\ \A k \in Kinds : e[k][y] \in Nat
         /\ \A do \in Yearly : Waiting(A, do, y) \in Nat
         /\ Kept(st, e, A, lost, y) \in Nat
         /\ Part(st, e, A, lost, y) \in Nat /\ Used(e, A, y) \in Int
<1>1. \A k \in Kinds : e[k][y] \in Nat /\ e[k][y] <= Full[r][y] /\ Full[r][y] \in Nat
  BY FullType DEF Known, Books
<1>2. \A do \in Yearly : Waiting(A, do, y) \in Nat
  <2>1. \A t \in A : GoodTask(t)
    BY DEF Known, Books
  <2> QED BY <2>1, WaitingNat
<1>3. Kept(st, e, A, lost, y) \in Nat
  <2>1. e["reserve"][y] \in Nat /\ e["release"][y] \in Nat /\ e["release"][y] <= Full[r][y]
    BY <1>1 DEF Kinds
  <2> SUFFICES ASSUME st # "gone", ~lost, "drop" \notin Does(A)
               PROVE  e["release"][y] <= e["reserve"][y]
    BY <2>1 DEF Kept
  <2>2. CASE e["release"][y] = 0
    BY <2>1, <2>2
  <2>3. CASE Reserved(r, e)
    BY <2>1, <2>3 DEF Reserved
  <2>4. CASE Abandoned(r, e, A, failed, lost)
    BY <2>4 DEF Abandoned
  <2>5. CASE st = "none"
    BY <2>2, <2>5, KindsAre DEF Known, Place, Nil
  <2>6. CASE st \in Pending
    <3>1. Reserving(r, e, A) \/ Losing(r, e, A) \/ Holding(r, e, A)
            \/ Deleting(r, e, A) \/ Abandoned(r, e, A, failed, lost)
      BY <2>6 DEF Known, Place
    <3>2. e["release"][y] = 0 \/ Reserved(r, e) \/ Abandoned(r, e, A, failed, lost)
      BY <3>1 DEF Reserving, Losing, Holding, Deleting, Nil
    <3> QED BY <2>2, <2>3, <2>4, <3>2
  <2>7. CASE st \in {"approved", "active", "rejected", "cancelled", "completed"}
    BY <2>3, <2>7 DEF Known, Place
  <2> QED BY <2>5, <2>6, <2>7 DEF Known, Statuses, Blocking
<1> QED BY <1>1, <1>2, <1>3 DEF Part, Used, Kinds, Yearly

\* What the gate took is in the cache and waits for its row.
LEMMA PartGate ==
  ASSUME NEW r, NEW st, NEW e, NEW A, NEW failed, NEW lost, Known(r, st, e, A, failed, lost),
         NEW t, NextTask(t, A), t.do = "gate", NEW y \in Years
  PROVE  LET B == (A \ {t}) \cup {Task("row", r, t.y, t.n)} IN
         /\ Part(st, e, B, lost, y) = Part(st, e, A, lost, y) + DaysOf(t, y)
         /\ Used(e, B, y) = Used(e, A, y)
<1> DEFINE u == Task("row", r, t.y, t.n)
           B == (A \ {t}) \cup {u}
<1>1. u.do = "row" /\ u.y = t.y /\ u.n = t.n /\ Rank(u) = Rank(t)
  BY NextRank DEF Task
<1> HIDE DEF u
<1>2. t \in A /\ Apart(A)
  BY DEF NextTask, Known
<1>3. /\ Waiting(B, "row", y) = IF y = t.y THEN t.n ELSE Waiting(A, "row", y)
      /\ y = t.y => Waiting(A, "row", y) = 0
  BY <1>1, <1>2, WaitingRenewed
<1>4. Waiting(B, "undo", y) = Waiting(A, "undo", y) /\ Waiting(B, "spend", y) = Waiting(A, "spend", y)
  BY <1>1, <1>2, WaitingRenewed
<1>5. "drop" \in Does(B) <=> "drop" \in Does(A)
  BY <1>1 DEF Does
<1>6. Kept(st, e, B, lost, y) = Kept(st, e, A, lost, y)
  BY <1>5 DEF Kept
<1>7. /\ Waiting(A, "row", y) \in Nat /\ Waiting(A, "undo", y) \in Nat /\ Kept(st, e, A, lost, y) \in Nat
      /\ t.n \in Nat
  <2>1. GoodTask(t)
    BY <1>2 DEF Known, Books
  <2>2. t.n \in Nat
    BY <2>1, FullType DEF GoodTask, Plain
  <2> QED BY <2>2, PartType DEF Yearly
<1> HIDE DEF B
<1>8. Part(st, e, B, lost, y) = Part(st, e, A, lost, y) + DaysOf(t, y)
  BY <1>3, <1>4, <1>6, <1>7 DEF Part, DaysOf
<1>9. Used(e, B, y) = Used(e, A, y)
  BY <1>4 DEF Used
<1> QED BY <1>8, <1>9 DEF B, u

\* The row moves the days from what waits to what is held.
LEMMA PartRow ==
  ASSUME NEW r, NEW st, NEW e, NEW A, NEW failed, NEW lost, Known(r, st, e, A, failed, lost),
         NEW t, NextTask(t, A), t.do = "row",
         NEW f, f["reserve"][t.y] = t.n, f["release"] = e["release"], f["consume"] = e["consume"],
         \A z \in Years : z # t.y => f["reserve"][z] = e["reserve"][z],
         NEW y \in Years
  PROVE  /\ Part(st, f, A \ {t}, lost, y) = Part(st, e, A, lost, y)
         /\ Used(f, A \ {t}, y) = Used(e, A, y)
<1> DEFINE B == A \ {t}
<1>1. t \in A /\ Apart(A)
  BY DEF NextTask, Known
<1>2. st \in Pending /\ ~lost /\ Reserving(r, e, A)
  <2>1. st \in Statuses /\ Place(r, st, e, A, failed, lost)
    BY DEF Known
  <2> QED BY <1>1, <2>1, Submitted
<1>2a. \E u \in A : u.do \in {"gate", "row", "recheck"} /\ e["reserve"][t.y] = 0
  BY <1>1, <1>2 DEF Reserving
<1>3. /\ y = t.y => Waiting(A, "row", y) = t.n /\ Waiting(B, "row", y) = 0
      /\ y # t.y => Waiting(B, "row", y) = Waiting(A, "row", y)
  BY <1>1, WaitingTaken
<1>4. Waiting(B, "undo", y) = Waiting(A, "undo", y) /\ Waiting(B, "spend", y) = Waiting(A, "spend", y)
  BY <1>1, WaitingTaken
<1>5. "drop" \notin Does(A) /\ "drop" \notin Does(B)
  BY <1>2 DEF Reserving, Does
<1>6. st # "gone"
  BY <1>2 DEF Pending
<1>7. /\ Kept(st, e, A, lost, y) = e["reserve"][y] - e["release"][y]
      /\ Kept(st, f, B, lost, y) = f["reserve"][y] - e["release"][y]
  BY <1>2, <1>5, <1>6 DEF Kept
<1>8. /\ Waiting(A, "row", y) \in Nat /\ Waiting(A, "undo", y) \in Nat
      /\ e["reserve"][y] \in Nat /\ e["release"][y] \in Nat /\ t.n \in Nat
  <2>1. GoodTask(t)
    BY <1>1 DEF Known, Books
  <2>2. t.n \in Nat
    BY <2>1, FullType DEF GoodTask, Plain
  <2> QED BY <2>2, PartType DEF Yearly, Kinds
<1> HIDE DEF B
<1>9. Part(st, f, B, lost, y) = Part(st, e, A, lost, y)
  <2>1. CASE y = t.y
    BY <1>2a, <1>3, <1>4, <1>7, <1>8, <2>1 DEF Part
  <2>2. CASE y # t.y
    BY <1>3, <1>4, <1>7, <1>8, <2>2 DEF Part
  <2> QED BY <2>1, <2>2
<1>10. Used(f, B, y) = Used(e, A, y)
  BY <1>4 DEF Used
<1> QED BY <1>9, <1>10 DEF B

\* The years before that of the gate are all taken, the others not.
LEMMA GateYears ==
  ASSUME NEW r, NEW e, NEW A, Books(r, e, A), Reserving(r, e, A), NEW t, NextTask(t, A), t.do = "gate",
         NEW y \in Years
  PROVE  /\ e["reserve"][y] = IF y < t.y THEN Full[r][y] ELSE 0
         /\ Waiting(A, "row", y) = 0
<1>1. t \in A /\ GoodTask(t) /\ e["reserve"][t.y] = 0 /\ t.n = Full[r][t.y] /\ t.r = r
  BY DEF NextTask, Books, Reserving
<1>2. t.y \in Years /\ t.n > 0
  <2>1. t.y \in Years /\ t.n \in 1..Full[r][t.y]
    BY <1>1 DEF GoodTask, Plain
  <2>2. Full[r][t.y] \in Nat
    BY <2>1, FullType DEF Books
  <2> QED BY <2>1, <2>2
<1>3. Full[r][y] \in Nat
  BY FullType DEF Books
<1>4. ASSUME NEW u \in A, u.do \in {"gate", "row"}
      PROVE  t.y <= u.y /\ u.y \in Years
  <2>1. u.y \in Years
    <3>1. GoodTask(u)
      BY DEF Books
    <3> QED BY <1>4, <3>1 DEF GoodTask, Plain
  <2>2. Rank(t) = 1 + t.y /\ Rank(u) = 1 + u.y
    BY <1>4 DEF Rank, Starting
  <2>3. u = t \/ Rank(t) < Rank(u)
    BY DEF NextTask
  <2> QED BY <1>2, <2>1, <2>2, <2>3 DEF Years
<1>5. CASE y < t.y
  <2>1. ~\E u \in A : u.do \in {"gate", "row"} /\ u.y = y
    BY <1>2, <1>4, <1>5 DEF Years
  <2> QED BY <1>5, <2>1, WaitingNone DEF Reserving
<1>6. CASE ~(y < t.y)
  <2>1. e["reserve"][y] = 0
    <3>1. CASE y = t.y
      BY <1>1, <3>1
    <3>2. CASE y # t.y
      <4>1. t.y < y
        BY <1>2, <1>6, <3>2 DEF Years
      <4>2. e["reserve"][y] # 0 => e["reserve"][t.y] = Full[r][t.y]
        BY <1>2, <4>1 DEF Reserving
      <4> QED BY <1>1, <1>2, <4>2
    <3> QED BY <3>1, <3>2
  <2>2. ASSUME NEW u \in A, u.do = "row", u.y = y PROVE FALSE
    <3>1. u.y <= t.y
      BY <1>1, <2>2 DEF Reserving
    <3>2. u.y = t.y /\ Rank(u) = Rank(t)
      <4>1. u.y = t.y
        BY <1>2, <1>4, <2>2, <3>1 DEF Years
      <4> QED BY <2>2, <4>1, NextRank
    <3>3. u # t
      BY <2>2
    <3>4. Rank(t) \in 0..10
      BY <1>1, RankOfHead
    <3> QED BY <3>2, <3>3, <3>4 DEF NextTask
  <2> QED BY <1>6, <2>1, <2>2, WaitingNone
<1> QED BY <1>5, <1>6

\* A shortfall gives back what the years before had taken.
LEMMA PartGateLost ==
  ASSUME NEW r, NEW st, NEW e, NEW A, NEW failed, NEW lost, Known(r, st, e, A, failed, lost),
         NEW t, NextTask(t, A), t.do = "gate", NEW y \in Years
  PROVE  LET B == Undoing(r, t.y) \cup {Task("drop", r, 0, 0)} IN
         /\ Part(st, e, B, lost, y) = Part(st, e, A, lost, y)
         /\ Used(e, B, y) = Used(e, A, y)
<1> DEFINE B == Undoing(r, t.y) \cup {Task("drop", r, 0, 0)}
<1>1. t \in A /\ st \in Pending /\ ~lost /\ Reserving(r, e, A) /\ Books(r, e, A)
  <2>1. st \in Statuses /\ Place(r, st, e, A, failed, lost) /\ t \in A /\ Books(r, e, A)
    BY DEF Known, NextTask
  <2> QED BY <2>1, Submitted
<1>2. /\ e["reserve"][y] = IF y < t.y THEN Full[r][y] ELSE 0
      /\ Waiting(A, "row", y) = 0
  BY <1>1, GateYears
<1>3. \A do : do \notin {"gate", "row", "recheck"} => do \notin Does(A)
  BY <1>1 DEF Reserving
<1>4. Waiting(A, "undo", y) = 0 /\ Waiting(A, "spend", y) = 0 /\ "drop" \notin Does(A)
  <2>1. \A u \in A : u.do \notin {"undo", "spend", "drop"}
    BY <1>3 DEF Does
  <2> QED BY <2>1, WaitingNone DEF Does
<1>5. Full[r][y] \in Nat /\ e["release"][y] = 0
  BY <1>1, FullType DEF Books, Reserving, Nil
<1>6. Part(st, e, A, lost, y) = IF y < t.y THEN Full[r][y] ELSE 0
  <2>1. Kept(st, e, A, lost, y) = e["reserve"][y] - e["release"][y]
    <3>1. st # "gone"
      BY <1>1 DEF Pending
    <3> QED BY <1>1, <1>4, <3>1 DEF Kept
  <2> QED BY <1>2, <1>4, <1>5, <2>1 DEF Part
<1>7. "drop" \in Does(B) /\ \A u \in B : u.do \in {"undo", "drop"}
  <2>1. Task("drop", r, 0, 0) \in B /\ Task("drop", r, 0, 0).do = "drop"
    BY DEF Task
  <2>2. \A u \in B : u.do \in {"undo", "drop"}
    BY DEF Undoing, Task
  <2> HIDE DEF B
  <2>3. "drop" \in Does(B)
    BY <2>1, Zenon DEF Does
  <2> QED BY <2>2, <2>3
<1>8. Waiting(B, "row", y) = 0 /\ Waiting(B, "spend", y) = 0 /\ Kept(st, e, B, lost, y) = 0
  <2> HIDE DEF B
  <2>1. Waiting(B, "row", y) = 0 /\ Waiting(B, "spend", y) = 0
    BY <1>7, WaitingNone
  <2>2. Kept(st, e, B, lost, y) = 0
    BY <1>7 DEF Kept
  <2> QED BY <2>1, <2>2
<1>9. Waiting(B, "undo", y) = IF y < t.y THEN Full[r][y] ELSE 0
  <2> DEFINE u == Task("undo", r, y, Full[r][y])
  <2>1. CASE y < t.y /\ Full[r][y] > 0
    <3>1. u \in B /\ \A x \in B : x.do = "undo" /\ x.y = y => x = u
      BY <2>1 DEF Undoing, Task
    <3>2. u.do = "undo" /\ u.y = y /\ u.n = Full[r][y]
      BY DEF Task
    <3> HIDE DEF u, B
    <3>3. Waiting(B, u.do, u.y) = u.n
      BY <3>1, <3>2, WaitingOne
    <3> QED BY <2>1, <3>2, <3>3
  <2>2. CASE ~(y < t.y /\ Full[r][y] > 0)
    <3>1. \A x \in B : x.do = "undo" => x.y # y
      BY <2>2 DEF Undoing, Task
    <3>2. Waiting(B, "undo", y) = 0
      BY <3>1, WaitingNone
    <3> QED BY <1>5, <2>2, <3>2
  <2> QED BY <2>1, <2>2
<1> HIDE DEF B
<1>10. Part(st, e, B, lost, y) = Part(st, e, A, lost, y)
  BY <1>5, <1>6, <1>8, <1>9 DEF Part
<1>11. Used(e, B, y) = Used(e, A, y)
  BY <1>4, <1>8 DEF Used
<1> QED BY <1>10, <1>11 DEF B

\* A row of a release or of a consumption is entered: what it is about waits for the cache.
LEMMA PartEntered ==
  ASSUME NEW r, NEW st, NEW e, NEW A, NEW failed, NEW lost, NEW t, NEW k, NEW next, NEW f,
         Known(r, st, e, A, failed, lost), Entering(r, st, e, A, failed, lost, t, k, next, f),
         NEW y \in Years
  PROVE  LET B == (A \ {t}) \cup {Task(next, r, t.y, t.n)} IN
         /\ Part(st, f, B, lost, y) = Part(st, e, A, lost, y)
         /\ Used(f, B, y) = Used(e, A, y)
<1> DEFINE u == Task(next, r, t.y, t.n)
           B == (A \ {t}) \cup {u}
<1>1. u.do = next /\ u.y = t.y /\ u.n = t.n /\ Rank(u) = Rank(t)
  BY NextRank DEF Task, Entering, LeadsTo
<1> HIDE DEF u
<1>2. t \in A /\ Apart(A) /\ t.do = k /\ e[k][t.y] = 0 /\ f[k][t.y] = t.n
  BY DEF NextTask, Known, Entering
<1>3. t.n \in Nat
  <2>1. GoodTask(t)
    BY <1>2 DEF Known, Books
  <2> QED BY <2>1, FullType DEF GoodTask, Plain
<1>4. /\ \A j \in Kinds : e[j][y] \in Nat
      /\ \A do \in Yearly : Waiting(A, do, y) \in Nat
      /\ Kept(st, e, A, lost, y) \in Nat
  BY PartType
<1>5. \A do \in {"row", "undo", "spend"} :
        /\ do = next /\ y = t.y => Waiting(B, do, y) = t.n
        /\ ~(do = next /\ y = t.y) => Waiting(B, do, y) = Waiting(A, do, y)
  <2> SUFFICES ASSUME NEW do \in {"row", "undo", "spend"}
               PROVE  /\ do = next /\ y = t.y => Waiting(B, do, y) = t.n
                      /\ ~(do = next /\ y = t.y) => Waiting(B, do, y) = Waiting(A, do, y)
    OBVIOUS
  <2>1. k \notin {"row", "undo", "spend"}
    BY DEF Entering, LeadsTo
  <2>2. t.do # do
    BY <1>2, <2>1
  <2> QED BY <1>1, <1>2, <2>2, WaitingRenewed
<1>6. y = t.y => Waiting(A, next, y) = 0
  <2>1. k # next
    BY DEF Entering, LeadsTo
  <2>2. t.do # u.do
    BY <1>1, <1>2, <2>1
  <2>3. Waiting(A, u.do, u.y) = 0
    <3>1. \A x \in A : x.do = u.do => x.y # u.y
      BY <1>1, <1>2, <2>2, OneRank DEF Apart
    <3> QED BY <3>1, WaitingNone
  <2> QED BY <1>1, <2>3
<1>7. "drop" \in Does(B) <=> "drop" \in Does(A)
  <2>1. u.do # "drop" /\ t.do # "drop"
    BY <1>1, <1>2 DEF Entering, LeadsTo
  <2> QED BY <2>1 DEF Does
<1> HIDE DEF B
<1>8. CASE k = "release"
  <2>1. /\ next = "undo" /\ f["reserve"] = e["reserve"] /\ f["consume"] = e["consume"]
        /\ y # t.y => f["release"][y] = e["release"][y]
    BY <1>8 DEF Entering, LeadsTo, Kinds
  <2>2. st # "gone" /\ ~lost /\ "drop" \notin Does(A)
    <3>1. st \in Statuses /\ Place(r, st, e, A, failed, lost) /\ t.do = "release"
      BY <1>2, <1>8 DEF Known
    <3>2. \/ st \in Pending /\ Losing(r, e, A)
          \/ st \in {"rejected", "cancelled"} \/ st = "completed"
      BY <1>2, <3>1, Writing
    <3>3. CASE st \in Pending /\ Losing(r, e, A)
      <4>1. "drop" \notin Does(A) /\ st # "gone"
        BY <3>3 DEF Losing, Pending
      <4>2. ~lost
        <5>1. "release" \in Does(A) /\ A # {}
          BY <1>2, <3>1 DEF Does
        <5>2. ~Deleting(r, e, A) /\ ~Abandoned(r, e, A, failed, lost)
          BY <4>1, <5>1 DEF Deleting, Abandoned
        <5> QED BY <3>1, <3>3, <5>2 DEF Place
      <4> QED BY <4>1, <4>2
    <3>4. CASE st \in {"rejected", "cancelled"} \/ st = "completed"
      BY <3>1, <3>4 DEF Place
    <3> QED BY <3>2, <3>3, <3>4
  <2>3. "drop" \notin Does(B)
    BY <1>7, <2>2
  <2>4. /\ Kept(st, e, A, lost, y) = e["reserve"][y] - e["release"][y]
        /\ Kept(st, f, B, lost, y) = e["reserve"][y] - f["release"][y]
    BY <2>1, <2>2, <2>3 DEF Kept
  <2>5. Waiting(B, "row", y) = Waiting(A, "row", y) /\ Waiting(B, "spend", y) = Waiting(A, "spend", y)
        /\ (y # t.y => Waiting(B, "undo", y) = Waiting(A, "undo", y))
        /\ (y = t.y => Waiting(B, "undo", y) = t.n /\ Waiting(A, "undo", y) = 0)
    BY <1>5, <1>6, <2>1
  <2>6. /\ e["reserve"][y] \in Nat /\ e["release"][y] \in Nat
        /\ Waiting(A, "row", y) \in Nat /\ Waiting(A, "undo", y) \in Nat
    BY <1>4 DEF Yearly, Kinds
  <2>7. y = t.y => e["release"][y] = 0 /\ f["release"][y] = t.n
    BY <1>2, <1>8
  <2>8. Part(st, f, B, lost, y) = Part(st, e, A, lost, y)
    <3>1. CASE y = t.y
      <4>1. Kept(st, f, B, lost, y) = Kept(st, e, A, lost, y) - t.n
        BY <1>3, <2>4, <2>6, <2>7, <3>1
      <4>2. Kept(st, e, A, lost, y) \in Nat
        BY <1>4
      <4> QED BY <1>3, <2>5, <2>6, <3>1, <4>1, <4>2 DEF Part
    <3>2. CASE y # t.y
      <4>1. Kept(st, f, B, lost, y) = Kept(st, e, A, lost, y)
        BY <2>1, <2>4, <3>2
      <4> QED BY <2>5, <3>2, <4>1 DEF Part
    <3> QED BY <3>1, <3>2
  <2>9. Used(f, B, y) = Used(e, A, y)
    BY <2>1, <2>5 DEF Used
  <2> QED BY <2>8, <2>9 DEF B, u
<1>9. CASE k = "consume"
  <2>1. /\ next = "spend" /\ f["reserve"] = e["reserve"] /\ f["release"] = e["release"]
        /\ y # t.y => f["consume"][y] = e["consume"][y]
    BY <1>9 DEF Entering, LeadsTo, Kinds
  <2>2. Waiting(B, "row", y) = Waiting(A, "row", y) /\ Waiting(B, "undo", y) = Waiting(A, "undo", y)
        /\ (y # t.y => Waiting(B, "spend", y) = Waiting(A, "spend", y))
        /\ (y = t.y => Waiting(B, "spend", y) = t.n /\ Waiting(A, "spend", y) = 0)
    BY <1>5, <1>6, <2>1
  <2>3. Part(st, f, B, lost, y) = Part(st, e, A, lost, y)
    BY <1>7, <2>1, <2>2 DEF Part, Kept
  <2>4. e["consume"][y] \in Nat /\ Waiting(A, "spend", y) \in Nat
    BY <1>4 DEF Yearly, Kinds
  <2>5. Used(f, B, y) = Used(e, A, y)
    <3>1. CASE y = t.y
      BY <1>2, <1>3, <1>9, <2>2, <3>1 DEF Used
    <3>2. CASE y # t.y
      BY <2>1, <2>2, <3>2 DEF Used
    <3> QED BY <3>1, <3>2
  <2> QED BY <2>3, <2>5 DEF B, u
<1> QED BY <1>8, <1>9 DEF Entering, LeadsTo

\* A task is taken away that is none of those the cache waits for.
LEMMA PartTaken ==
  ASSUME NEW r, NEW st, NEW e, NEW A, NEW failed, NEW lost, Known(r, st, e, A, failed, lost),
         NEW t \in A, t.do \notin Cash, NEW y \in Years
  PROVE  /\ Part(st, e, A \ {t}, lost, y) = Part(st, e, A, lost, y)
         /\ Used(e, A \ {t}, y) = Used(e, A, y)
<1>1. t.do # "row" /\ t.do # "undo" /\ t.do # "spend" /\ t.do # "drop"
  BY DEF Cash
<1>2. "drop" \in Does(A \ {t}) <=> "drop" \in Does(A)
  BY <1>1 DEF Does
<1>3. \A do \in {"row", "undo", "spend"} : Waiting(A \ {t}, do, y) = Waiting(A, do, y)
  BY <1>1, WaitingTaken DEF Known
<1> QED BY <1>2, <1>3 DEF Part, Used, Kept

\* The cache is written.
LEMMA PartUndo ==
  ASSUME NEW r, NEW st, NEW e, NEW A, NEW failed, NEW lost, Known(r, st, e, A, failed, lost),
         NEW t \in A, t.do = "undo", NEW y \in Years
  PROVE  /\ Part(st, e, A \ {t}, lost, y) = Part(st, e, A, lost, y) - DaysOf(t, y)
         /\ Used(e, A \ {t}, y) = Used(e, A, y)
<1> DEFINE B == A \ {t}
<1>1. "drop" \in Does(B) <=> "drop" \in Does(A)
  BY DEF Does
<1>2. /\ Waiting(B, "row", y) = Waiting(A, "row", y) /\ Waiting(B, "spend", y) = Waiting(A, "spend", y)
      /\ y = t.y => Waiting(A, "undo", y) = t.n /\ Waiting(B, "undo", y) = 0
      /\ y # t.y => Waiting(B, "undo", y) = Waiting(A, "undo", y)
  BY WaitingTaken DEF Known
<1>3. Kept(st, e, A, lost, y) \in Nat /\ Waiting(A, "row", y) \in Nat /\ Waiting(A, "undo", y) \in Nat
  BY PartType DEF Yearly
<1>4. Kept(st, e, B, lost, y) = Kept(st, e, A, lost, y)
  BY <1>1 DEF Kept
<1> HIDE DEF B
<1>5. Part(st, e, B, lost, y) = Part(st, e, A, lost, y) - DaysOf(t, y)
  BY <1>2, <1>3, <1>4 DEF Part, DaysOf
<1>6. Used(e, B, y) = Used(e, A, y)
  BY <1>2 DEF Used
<1> QED BY <1>5, <1>6 DEF B

\* The days of a consumption leave what waits.
LEMMA PartSpend ==
  ASSUME NEW r, NEW st, NEW e, NEW A, NEW failed, NEW lost, Known(r, st, e, A, failed, lost),
         NEW t \in A, t.do = "spend", NEW y \in Years
  PROVE  /\ Part(st, e, A \ {t}, lost, y) = Part(st, e, A, lost, y)
         /\ Used(e, A \ {t}, y) = Used(e, A, y) + DaysOf(t, y)
<1> DEFINE B == A \ {t}
<1>1. "drop" \in Does(B) <=> "drop" \in Does(A)
  BY DEF Does
<1>2. /\ Waiting(B, "row", y) = Waiting(A, "row", y) /\ Waiting(B, "undo", y) = Waiting(A, "undo", y)
      /\ y = t.y => Waiting(A, "spend", y) = t.n /\ Waiting(B, "spend", y) = 0
      /\ y # t.y => Waiting(B, "spend", y) = Waiting(A, "spend", y)
  BY WaitingTaken DEF Known
<1>3. e["consume"][y] \in Nat /\ Waiting(A, "spend", y) \in Nat
  BY PartType DEF Yearly, Kinds
<1>4. Kept(st, e, B, lost, y) = Kept(st, e, A, lost, y)
  BY <1>1 DEF Kept
<1> HIDE DEF B
<1>5. Part(st, e, B, lost, y) = Part(st, e, A, lost, y)
  BY <1>2, <1>4 DEF Part
<1>6. Used(e, B, y) = Used(e, A, y) + DaysOf(t, y)
  BY <1>2, <1>3 DEF Used, DaysOf
<1> QED BY <1>5, <1>6 DEF B

\* A request that is deleted had nothing left in the cache.
LEMMA PartDropped ==
  ASSUME NEW st, NEW e, NEW t, t.do = "drop", NEW lost, NEW y
  PROVE  /\ Part("gone", e, {}, lost, y) = Part(st, e, {t}, lost, y)
         /\ Used(e, {}, y) = Used(e, {t}, y)
<1>1. \A do \in {"row", "undo", "spend"} : Waiting({}, do, y) = 0 /\ Waiting({t}, do, y) = 0
  BY WaitingNone
<1>2. "drop" \in Does({t})
  BY DEF Does
<1>3. Kept("gone", e, {}, lost, y) = 0 /\ Kept(st, e, {t}, lost, y) = 0
  BY <1>2 DEF Kept
<1> QED BY <1>1, <1>3 DEF Part, Used

\* A call that dies leaves no more in the cache than there was.
LEMMA PartCut ==
  ASSUME NEW r, NEW st, NEW e, NEW A, NEW failed, NEW lost, Known(r, st, e, A, failed, lost),
         NEW B \in SUBSET A, NEW lost1, lost1 <=> lost \/ "drop" \in Does(A), NEW y \in Years
  PROVE  Part(st, e, B, lost1, y) <= Part(st, e, A, lost, y)
<1>1. ASSUME NEW do \in {"row", "undo"} PROVE Waiting(B, do, y) <= Waiting(A, do, y) /\ Waiting(B, do, y) \in Nat
  <2>1. Waiting(A, do, y) \in Nat
    BY PartType DEF Yearly
  <2>2. CASE \E t \in B : t.do = do /\ t.y = y
    <3>1. PICK t \in B : t.do = do /\ t.y = y
      BY <2>2
    <3>2. \A u \in A : u.do = t.do /\ u.y = t.y => u = t
      BY OneRank DEF Known, Apart
    <3>3. Waiting(A, t.do, t.y) = t.n /\ Waiting(B, t.do, t.y) = t.n
      BY <3>2, WaitingOne
    <3> QED BY <2>1, <3>1, <3>3
  <2>3. CASE ~\E t \in B : t.do = do /\ t.y = y
    <3>1. Waiting(B, do, y) = 0
      BY <2>3, WaitingNone
    <3> QED BY <2>1, <3>1
  <2> QED BY <2>2, <2>3
<1>2. Kept(st, e, B, lost1, y) = Kept(st, e, A, lost, y)
  <2>1. "drop" \in Does(B) => "drop" \in Does(A)
    BY DEF Does
  <2> QED BY <2>1 DEF Kept
<1>3. Kept(st, e, A, lost, y) \in Nat /\ Waiting(A, "row", y) \in Nat /\ Waiting(A, "undo", y) \in Nat
  BY PartType DEF Yearly
<1> QED BY <1>1, <1>2, <1>3 DEF Part

\* A request that is to be deleted, with nothing waiting, has nothing.
LEMMA PartLost ==
  ASSUME NEW st, NEW e, NEW B, NEW lost, NEW y, NEW t, B = {t}, t.do = "drop"
  PROVE  Part(st, e, B, lost, y) = 0
<1>1. \A do \in {"row", "undo"} : Waiting(B, do, y) = 0
  BY WaitingNone
<1>2. "drop" \in Does(B)
  BY DEF Does
<1> QED BY <1>1, <1>2 DEF Part, Kept

-----------------------------------------------------------------------------
(***************************************************************************)
(* The cache is the sum of the shares                                      *)
(***************************************************************************)
\* All requests are where they may be while none is hasty.
LEMMA KnownOf ==
  ASSUME Types, Lists, Sole, Phases, NEW r \in Reqs, r \notin hasty
  PROVE  Known(r, doc[r], ledger[r], Account(r), r \in broken, r \in stray)
<1>1. One(r, Accounting)
  BY DEF Sole
<1> QED BY <1>1, PhaseOf, AccountApart DEF Known

\* The shares are numbers.
LEMMA ShareType ==
  ASSUME Types, Lists, Sole, Phases, NEW r \in Reqs, r \notin hasty, NEW y \in Years
  PROVE  Share(r, y) \in Nat /\ Spent(r, y) \in Int
BY KnownOf, PartType DEF Share, Spent

\* So are the counters of the balance.
LEMMA BookType ==
  ASSUME Types, NEW y \in Years
  PROVE  book[y].granted \in Nat /\ book[y].reserved \in Int /\ book[y].consumed \in Nat /\ Cached(y) \in Int
<1>1. book[y] \in [granted : Nat, reserved : Int, consumed : Nat]
  BY DEF Types, TypeOK
<1> QED BY <1>1 DEF Cached

Reckoned == Types /\ Lists /\ Sole /\ Phases

Counted ==
  \A y \in Years :
    /\ \A r \in Reqs \ hasty : Share(r, y) \in Nat /\ Spent(r, y) \in Int
    /\ book[y].consumed \in Nat /\ Cached(y) \in Int

\* Both, as a consequence of the invariant.
LEMMA ReckonedCounted == Reckoned => Counted
<1> SUFFICES ASSUME Reckoned PROVE Counted
  OBVIOUS
<1>1. Types /\ Lists /\ Sole /\ Phases
  BY DEF Reckoned
<1> QED BY <1>1, ShareType, BookType DEF Counted

\* The shares of s change by what the cache changes by.
Moves(s) ==
  \A y \in Years :
    /\ Share(s, y)' - Share(s, y) = Cached(y)' - Cached(y)
    /\ Spent(s, y)' - Spent(s, y) = book'[y].consumed - book[y].consumed

\* A step of one request that changes its shares by what it changes the cache by.
LEMMA BalanceStep ==
  ASSUME Reckoned, Reckoned', Balance, NEW s \in Reqs, Elsewhere(s),
         \A r \in Reqs \ {s} : Account(r)' = Account(r),
         UNCHANGED <<hasty, broken, stray>>, hasty = {} => Moves(s)
  PROVE  Balance'
<1> SUFFICES ASSUME hasty = {}, NEW y \in Years
             PROVE  /\ Shares(y)' <= Cached(y)'
                    /\ broken' = {} => Shares(y)' = Cached(y)' /\ Spendings(y)' = book'[y].consumed
  BY DEF Balance
<1> DEFINE f == [r \in Reqs |-> Share(r, y)]
           g == [r \in Reqs |-> Share(r, y)']
           c == [r \in Reqs |-> Spent(r, y)]
           d == [r \in Reqs |-> Spent(r, y)']
<1>0. IsFiniteSet(Reqs)
  BY LeaveAssumption
<1>00. Counted /\ Counted'
  BY ReckonedCounted, PTL
<1>1. \A r \in Reqs : f[r] \in Int /\ c[r] \in Int
  BY <1>00 DEF Counted
<1>2. \A r \in Reqs : g[r] \in Int /\ d[r] \in Int
  BY <1>00 DEF Counted
<1>3. \A r \in Reqs : r # s => g[r] = f[r] /\ d[r] = c[r]
  <2> SUFFICES ASSUME NEW r \in Reqs, r # s PROVE Share(r, y)' = Share(r, y) /\ Spent(r, y)' = Spent(r, y)
    OBVIOUS
  <2>1. Account(r)' = Account(r) /\ doc'[r] = doc[r] /\ ledger'[r] = ledger[r] /\ stray' = stray
    BY DEF Elsewhere
  <2> QED BY <2>1 DEF Share, Spent
<1>4. /\ Shares(y) = SumFunctionOnSet(f, Reqs) /\ Shares(y)' = SumFunctionOnSet(g, Reqs)
      /\ Spendings(y) = SumFunctionOnSet(c, Reqs) /\ Spendings(y)' = SumFunctionOnSet(d, Reqs)
  BY DEF Shares, Spendings
<1>5. g[s] - f[s] = Cached(y)' - Cached(y) /\ d[s] - c[s] = book'[y].consumed - book[y].consumed
  BY DEF Moves
<1>6. /\ Cached(y) \in Int /\ book[y].consumed \in Int
      /\ Cached(y)' \in Int /\ book'[y].consumed \in Int
  BY <1>00 DEF Counted
<1>7. /\ Shares(y) <= Cached(y)
      /\ broken = {} => Shares(y) = Cached(y) /\ Spendings(y) = book[y].consumed
  BY DEF Balance
<1> HIDE DEF f, g, c, d
<1>8. SumFunctionOnSet(g, Reqs) = SumFunctionOnSet(f, Reqs) + g[s] - f[s]
  <2>1. \A r \in Reqs : f[r] \in Int /\ g[r] \in Int
    BY <1>1, <1>2
  <2>2. \A r \in Reqs : r # s => g[r] = f[r]
    BY <1>3
  <2> QED BY <1>0, <2>1, <2>2, SumChange
<1>9. SumFunctionOnSet(d, Reqs) = SumFunctionOnSet(c, Reqs) + d[s] - c[s]
  <2>1. \A r \in Reqs : c[r] \in Int /\ d[r] \in Int
    BY <1>1, <1>2
  <2>2. \A r \in Reqs : r # s => d[r] = c[r]
    BY <1>3
  <2> QED BY <1>0, <2>1, <2>2, SumChange
<1>10. SumFunctionOnSet(f, Reqs) \in Int /\ SumFunctionOnSet(c, Reqs) \in Int
  BY <1>0, <1>1, SumType
<1>11. f[s] \in Int /\ g[s] \in Int /\ c[s] \in Int /\ d[s] \in Int
  BY <1>1, <1>2
<1>12. Shares(y)' - Shares(y) = Cached(y)' - Cached(y) /\ Spendings(y)' - Spendings(y) = book'[y].consumed - book[y].consumed
       /\ Shares(y) \in Int /\ Spendings(y) \in Int /\ Shares(y)' \in Int /\ Spendings(y)' \in Int
  BY <1>4, <1>5, <1>8, <1>9, <1>10, <1>11
<1> HIDE DEF Shares, Spendings, Cached
<1> QED BY <1>6, <1>7, <1>12

\* Most steps leave alone what the cache and the ledger have to do with each other.
LEMMA BalanceCalm ==
  ASSUME Balance, Steady(Cash), UNCHANGED <<book, ledger, broken, stray>>, hasty \subseteq hasty',
         \A r \in Reqs : hasty' = {} => (doc'[r] = "gone" <=> doc[r] = "gone")
  PROVE  Balance'
<1> SUFFICES ASSUME hasty' = {}, NEW y \in Years
             PROVE  Shares(y)' = Shares(y) /\ Spendings(y)' = Spendings(y) /\ Cached(y)' = Cached(y)
  <2>1. hasty' = {} => hasty = {}
    OBVIOUS
  <2> QED BY <2>1 DEF Balance
<1>1. ASSUME NEW r \in Reqs
      PROVE  Share(r, y)' = Share(r, y) /\ Spent(r, y)' = Spent(r, y)
  <2> DEFINE A == Account(r)
             B == Account(r)'
  <2>1. Mine(r, Cash)' = Mine(r, Cash)
    BY DEF Steady
  <2>2. \A t : t.do \in Cash => (t \in A <=> t \in B)
    <3>1. /\ \A t : t.do \in Cash => (t \in A <=> t \in Mine(r, Cash))
          /\ \A t : t.do \in Cash => (t \in B <=> t \in Mine(r, Cash)')
      BY DEF Account, Mine, Cash, Accounting, Sub
    <3> QED BY <2>1, <3>1
  <2> HIDE DEF A, B
  <2>3. \A do \in {"row", "undo", "spend"} : Waiting(A, do, y) = Waiting(B, do, y)
    BY <2>2, WaitingSame DEF Cash
  <2>4. "drop" \in Does(A) <=> "drop" \in Does(B)
    BY <2>2 DEF Does, Cash
  <2>5. /\ Part(doc'[r], ledger[r], B, r \in stray, y) = Part(doc[r], ledger[r], A, r \in stray, y)
        /\ Used(ledger[r], B, y) = Used(ledger[r], A, y)
    BY <2>3, <2>4 DEF Part, Used, Kept
  <2> QED BY <2>5 DEF A, B, Share, Spent
<1>2. /\ [r \in Reqs |-> Share(r, y)'] = [r \in Reqs |-> Share(r, y)]
      /\ [r \in Reqs |-> Spent(r, y)'] = [r \in Reqs |-> Spent(r, y)]
  BY <1>1
<1>3. Shares(y)' = Shares(y) /\ Spendings(y)' = Spendings(y)
  BY <1>2 DEF Shares, Spendings
<1> QED BY <1>3 DEF Cached

\* What a write of the cache does to it.
LEMMA CachedInc ==
  ASSUME Types, NEW y \in Years, NEW a \in Int, NEW c \in Nat, Inc(y, a, c), NEW z \in Years
  PROVE  /\ Cached(z)' - Cached(z) = IF z = y THEN a + c ELSE 0
         /\ book'[z].consumed - book[z].consumed = IF z = y THEN c ELSE 0
         /\ book'[z].granted = book[z].granted
<1>1. /\ book'[y].reserved = book[y].reserved + a
      /\ book'[y].consumed = book[y].consumed + c
      /\ \A x \in Years : book'[x].granted = book[x].granted
      /\ \A x \in Years \ {y} : book'[x] = book[x]
  BY BookWrites
<1>2. \A x \in Years : book[x].reserved \in Int /\ book[x].consumed \in Int
  BY BookType
<1>3. CASE z = y
  BY <1>1, <1>2, <1>3 DEF Cached
<1>4. CASE z # y
  BY <1>1, <1>2, <1>4 DEF Cached
<1> QED BY <1>3, <1>4

\* A step that does not write the balance.
LEMMA CachedSame ==
  ASSUME Types, UNCHANGED book, NEW z \in Years
  PROVE  Cached(z)' - Cached(z) = 0 /\ book'[z].consumed - book[z].consumed = 0
<1>1. book[z].reserved \in Int /\ book[z].consumed \in Int
  BY BookType
<1> QED BY <1>1 DEF Cached

\* A step of the request s changes what it has in the cache of a year by a, of it consumed by c.
LEMMA BalanceActed ==
  ASSUME Reckoned, Reckoned', Balance, NEW s \in Reqs, NEW B, Acted(s, B), Elsewhere(s),
         UNCHANGED <<hasty, broken, stray>>, NEW a \in [Years -> Int], NEW c \in [Years -> Int],
         hasty = {} => \A y \in Years :
           /\ Part(doc'[s], ledger'[s], B, s \in stray, y)
                = Part(doc[s], ledger[s], Account(s), s \in stray, y) + a[y]
           /\ Used(ledger'[s], B, y) = Used(ledger[s], Account(s), y) + c[y],
         \A y \in Years : Cached(y)' - Cached(y) = a[y] /\ book'[y].consumed - book[y].consumed = c[y]
  PROVE  Balance'
<1>1. \A r \in Reqs \ {s} : Account(r)' = Account(r)
  BY DEF Acted
<1>2. ASSUME hasty = {}, NEW y \in Years
      PROVE  /\ Share(s, y)' - Share(s, y) = Cached(y)' - Cached(y)
             /\ Spent(s, y)' - Spent(s, y) = book'[y].consumed - book[y].consumed
  <2>1. Account(s)' = B
    BY <1>2 DEF Acted
  <2>2. /\ Share(s, y)' = Part(doc'[s], ledger'[s], B, s \in stray, y)
        /\ Spent(s, y)' = Used(ledger'[s], B, y)
        /\ Share(s, y) = Part(doc[s], ledger[s], Account(s), s \in stray, y)
        /\ Spent(s, y) = Used(ledger[s], Account(s), y)
    BY <2>1 DEF Share, Spent
  <2>3. Share(s, y)' = Share(s, y) + a[y] /\ Spent(s, y)' = Spent(s, y) + c[y]
    BY <1>2, <2>2
  <2>4. Share(s, y) \in Int /\ Spent(s, y) \in Int /\ a[y] \in Int /\ c[y] \in Int
    BY <1>2, ReckonedCounted DEF Counted
  <2> HIDE DEF Share, Spent, Cached
  <2> QED BY <2>3, <2>4
<1>3. hasty = {} => Moves(s)
  BY <1>2 DEF Moves
<1> QED BY <1>1, <1>3, BalanceStep

\* As above where the cache is left alone.
LEMMA BalanceEven ==
  ASSUME Reckoned, Reckoned', Balance, NEW s \in Reqs, NEW B, Acted(s, B), Elsewhere(s),
         UNCHANGED <<book, hasty, broken, stray>>,
         hasty = {} => \A y \in Years :
           /\ Part(doc'[s], ledger'[s], B, s \in stray, y)
                = Part(doc[s], ledger[s], Account(s), s \in stray, y)
           /\ Used(ledger'[s], B, y) = Used(ledger[s], Account(s), y)
  PROVE  Balance'
<1> DEFINE o == [y \in Years |-> 0]
<1>1. o \in [Years -> Int] /\ \A y \in Years : o[y] = 0
  OBVIOUS
<1>2. \A y \in Years : Cached(y)' - Cached(y) = o[y] /\ book'[y].consumed - book[y].consumed = o[y]
  BY <1>1, CachedSame DEF Reckoned
<1>3. ASSUME hasty = {}, NEW y \in Years
      PROVE  /\ Part(doc[s], ledger[s], Account(s), s \in stray, y) \in Int
             /\ Used(ledger[s], Account(s), y) \in Int
  BY <1>3, ReckonedCounted DEF Counted, Share, Spent
<1> HIDE DEF o
<1>4. hasty = {} => \A y \in Years :
        /\ Part(doc'[s], ledger'[s], B, s \in stray, y)
             = Part(doc[s], ledger[s], Account(s), s \in stray, y) + o[y]
        /\ Used(ledger'[s], B, y) = Used(ledger[s], Account(s), y) + o[y]
  BY <1>1, <1>3
<1> QED BY <1>1, <1>2, <1>4, BalanceActed

\* What is known at the head of a list while no request is hasty.
LEMMA HeadKnown ==
  ASSUME Reckoned, hasty = {}, NEW w, NEW t, Heading(t, w)
  PROVE  /\ Known(t.r, doc[t.r], ledger[t.r], Account(t.r), t.r \in broken, t.r \in stray)
         /\ NextTask(t, Account(t.r)) /\ t \in Account(t.r)
BY KnownOf DEF Heading, Reckoned

\* Gate: tryReserve, and the giving back when it refuses.
LEMMA BalanceGate ==
  ASSUME Reckoned, Reckoned', Balance, NEW w \in Servers, Gate(w)
  PROVE  Balance'
<1> SUFFICES ASSUME NEW t, t = Head(todo[w]) PROVE Balance'
  OBVIOUS
<1> DEFINE A == Account(t.r)
<1>0. Types /\ Lists /\ Sole /\ Phases
  BY DEF Reckoned
<1>1. Heading(t, w) /\ t.do = "gate" /\ t.r \in Reqs
  BY <1>0, GateActed DEF Heading
<1>2. UNCHANGED <<doc, ledger, hasty, broken, stray>> /\ Elsewhere(t.r)
  BY DEF Gate, history, Elsewhere
<1>3. CASE Covers(t.y, t.n)
  <2> DEFINE B == (A \ {t}) \cup {Task("row", t.r, t.y, t.n)}
             a == [y \in Years |-> DaysOf(t, y)]
             c == [y \in Years |-> 0]
  <2>1. Acted(t.r, B) /\ Inc(t.y, t.n, 0)
    BY <1>0, <1>3, GateActed, GateKept
  <2>2. t.y \in Years /\ t.n \in Nat
    <3>1. GoodTask(t)
      BY <1>0, <1>1, TaskType DEF Heading, Open
    <3> QED BY <1>1, <3>1, FullType DEF GoodTask, Plain
  <2>3. a \in [Years -> Int] /\ c \in [Years -> Int]
    BY <2>2 DEF DaysOf
  <2>4. \A y \in Years : Cached(y)' - Cached(y) = a[y] /\ book'[y].consumed - book[y].consumed = c[y]
    <3> SUFFICES ASSUME NEW y \in Years
                 PROVE  Cached(y)' - Cached(y) = DaysOf(t, y) /\ book'[y].consumed - book[y].consumed = 0
      OBVIOUS
    <3>1. /\ Cached(y)' - Cached(y) = IF y = t.y THEN t.n + 0 ELSE 0
          /\ book'[y].consumed - book[y].consumed = IF y = t.y THEN 0 ELSE 0
      BY <1>0, <2>1, <2>2, CachedInc
    <3> QED BY <2>2, <3>1 DEF DaysOf
  <2>5. ASSUME hasty = {}, NEW y \in Years
        PROVE  /\ Part(doc'[t.r], ledger'[t.r], B, t.r \in stray, y)
                    = Part(doc[t.r], ledger[t.r], A, t.r \in stray, y) + a[y]
               /\ Used(ledger'[t.r], B, y) = Used(ledger[t.r], A, y) + c[y]
    <3>1. /\ Known(t.r, doc[t.r], ledger[t.r], A, t.r \in broken, t.r \in stray)
          /\ NextTask(t, A)
      BY <1>1, <2>5, HeadKnown
    <3>2. /\ Part(doc[t.r], ledger[t.r], B, t.r \in stray, y)
               = Part(doc[t.r], ledger[t.r], A, t.r \in stray, y) + DaysOf(t, y)
          /\ Used(ledger[t.r], B, y) = Used(ledger[t.r], A, y)
      BY <1>1, <3>1, PartGate
    <3>3. Used(ledger[t.r], A, y) \in Int
      BY <3>1, PartType
    <3> QED BY <1>2, <3>2, <3>3
  <2> HIDE DEF a, c, B
  <2> QED BY <1>1, <1>2, <2>1, <2>3, <2>4, <2>5, BalanceActed
<1>4. CASE ~Covers(t.y, t.n)
  <2> DEFINE B == Undoing(t.r, t.y) \cup {Task("drop", t.r, 0, 0)}
  <2>1. Acted(t.r, B) /\ UNCHANGED book
    BY <1>0, <1>4, GateActed, GateLost
  <2>2. ASSUME hasty = {}, NEW y \in Years
        PROVE  /\ Part(doc'[t.r], ledger'[t.r], B, t.r \in stray, y)
                    = Part(doc[t.r], ledger[t.r], A, t.r \in stray, y)
               /\ Used(ledger'[t.r], B, y) = Used(ledger[t.r], A, y)
    <3>1. /\ Known(t.r, doc[t.r], ledger[t.r], A, t.r \in broken, t.r \in stray)
          /\ NextTask(t, A)
      BY <1>1, <2>2, HeadKnown
    <3>2. /\ Part(doc[t.r], ledger[t.r], B, t.r \in stray, y)
               = Part(doc[t.r], ledger[t.r], A, t.r \in stray, y)
          /\ Used(ledger[t.r], B, y) = Used(ledger[t.r], A, y)
      BY <1>1, <3>1, PartGateLost
    <3> QED BY <1>2, <3>2
  <2> HIDE DEF B
  <2> QED BY <1>1, <1>2, <2>1, <2>2, BalanceEven
<1> QED BY <1>3, <1>4

\* ReserveRow.
LEMMA BalanceRow ==
  ASSUME Reckoned, Reckoned', Fresh, Balance, NEW w \in Servers, ReserveRow(w)
  PROVE  Balance'
<1> SUFFICES ASSUME NEW t, t = Head(todo[w]) PROVE Balance'
  OBVIOUS
<1> DEFINE A == Account(t.r)
           B == A \ {t}
           e == ledger[t.r]
           f == ledger'[t.r]
<1>0. Types /\ Lists /\ Sole /\ Phases
  BY DEF Reckoned
<1>1. Heading(t, w) /\ t.do = "row" /\ t.r \in Reqs /\ Acted(t.r, B)
  BY <1>0, RowActed DEF Heading
<1>2. UNCHANGED <<doc, book, hasty, broken, stray>>
  BY DEF ReserveRow, Insert, history
<1>3. t.y \in Years /\ t.n \in 0..Full[t.r][t.y]
  <2>1. GoodTask(t)
    BY <1>0, <1>1, TaskType DEF Heading, Open
  <2> QED BY <1>1, <2>1, FullType DEF GoodTask, Plain
<1>4. Wrote(t.r, "reserve", t.y, t.n)
  <2>1. ledger' = [ledger EXCEPT ![t.r]["reserve"][t.y] = t.n]
    BY <1>0, RowStep
  <2> QED BY <1>0, <1>1, <1>3, <2>1, EntryWritten DEF Kinds
<1>5. Elsewhere(t.r)
  BY <1>2, <1>4 DEF Elsewhere, Wrote
<1>6. ASSUME hasty = {}, NEW y \in Years
      PROVE  /\ Part(doc[t.r], f, B, t.r \in stray, y) = Part(doc[t.r], e, A, t.r \in stray, y)
             /\ Used(f, B, y) = Used(e, A, y)
  <2>1. /\ Known(t.r, doc[t.r], e, A, t.r \in broken, t.r \in stray)
        /\ NextTask(t, A)
    BY <1>1, <1>6, HeadKnown
  <2>2. /\ f["reserve"][t.y] = t.n /\ f["release"] = e["release"] /\ f["consume"] = e["consume"]
        /\ \A z \in Years : z # t.y => f["reserve"][z] = e["reserve"][z]
    BY <1>4 DEF Wrote, Kinds
  <2> HIDE DEF e, f, A
  <2> QED BY <1>1, <2>1, <2>2, PartRow
<1>7. ASSUME hasty = {}, NEW y \in Years
      PROVE  /\ Part(doc'[t.r], ledger'[t.r], B, t.r \in stray, y)
                  = Part(doc[t.r], ledger[t.r], A, t.r \in stray, y)
             /\ Used(ledger'[t.r], B, y) = Used(ledger[t.r], A, y)
  BY <1>2, <1>6, <1>7
<1> HIDE DEF B
<1> QED BY <1>1, <1>2, <1>5, <1>7, BalanceEven

\* Release and Consume.
LEMMA BalanceEntered ==
  ASSUME Reckoned, Reckoned', Balance, NEW w \in Servers, NEW k, NEW next, LeadsTo(k, next),
         NEW t, t = Head(todo[w]), Entered(t, w, k, next), UNCHANGED <<doc, book, hasty, broken, stray>>
  PROVE  Balance'
<1> DEFINE A == Account(t.r)
           e == ledger[t.r]
           f == ledger'[t.r]
<1>0. Types /\ Lists /\ Sole /\ Phases
  BY DEF Reckoned
<1>1. Heading(t, w) /\ t.do = k /\ t.r \in Reqs
  BY <1>0, EnteredActed DEF Heading
<1>2. k \in Kinds /\ k \in {"release", "consume"}
  BY DEF LeadsTo, Kinds
<1>3. t.y \in Years /\ t.n \in 0..Full[t.r][t.y]
  <2>1. GoodTask(t)
    BY DEF Entered
  <2> QED BY <1>1, <1>2, <2>1, FullType DEF GoodTask, Plain
<1>4. ASSUME hasty = {}
      PROVE  /\ Known(t.r, doc[t.r], e, A, t.r \in broken, t.r \in stray)
             /\ NextTask(t, A) /\ t \in A
  BY <1>1, <1>4, HeadKnown
<1>5. CASE e[k][t.y] = 0
  <2> DEFINE B == (A \ {t}) \cup {Task(next, t.r, t.y, t.n)}
  <2>1. Acted(t.r, B)
    BY <1>0, <1>5, EnteredActed
  <2>2. Wrote(t.r, k, t.y, t.n)
    <3>1. ledger' = [ledger EXCEPT ![t.r][k][t.y] = t.n]
      BY <1>5 DEF Entered
    <3> QED BY <1>0, <1>1, <1>2, <1>3, <3>1, EntryWritten
  <2>3. Elsewhere(t.r)
    BY <2>2 DEF Elsewhere, Wrote
  <2>4. ASSUME hasty = {}, NEW y \in Years
        PROVE  /\ Part(doc[t.r], f, B, t.r \in stray, y) = Part(doc[t.r], e, A, t.r \in stray, y)
               /\ Used(f, B, y) = Used(e, A, y)
    <3>1. /\ Known(t.r, doc[t.r], e, A, t.r \in broken, t.r \in stray) /\ NextTask(t, A)
          /\ f[k][t.y] = t.n /\ \A z \in Years : z # t.y => f[k][z] = e[k][z]
          /\ \A j \in Kinds : j # k => f[j] = e[j]
      BY <1>4, <2>2, <2>4 DEF Wrote
    <3> HIDE DEF e, f, A
    <3>2. Entering(t.r, doc[t.r], e, A, t.r \in broken, t.r \in stray, t, k, next, f)
      BY <1>1, <1>5, <3>1 DEF Entering, Known
    <3> QED BY <3>1, <3>2, PartEntered
  <2>5. hasty = {} => \A y \in Years :
          /\ Part(doc'[t.r], ledger'[t.r], B, t.r \in stray, y)
               = Part(doc[t.r], ledger[t.r], A, t.r \in stray, y)
          /\ Used(ledger'[t.r], B, y) = Used(ledger[t.r], A, y)
    BY <2>4
  <2> HIDE DEF B
  <2> QED BY <1>1, <2>1, <2>3, <2>5, BalanceEven
<1>6. CASE e[k][t.y] # 0
  <2>1. Acted(t.r, A \ {t})
    BY <1>0, <1>6, EnteredActed
  <2>2. UNCHANGED ledger /\ Elsewhere(t.r)
    BY <1>6 DEF Entered, Elsewhere
  <2>3. ASSUME hasty = {}, NEW y \in Years
        PROVE  /\ Part(doc'[t.r], ledger'[t.r], A \ {t}, t.r \in stray, y)
                    = Part(doc[t.r], ledger[t.r], A, t.r \in stray, y)
               /\ Used(ledger'[t.r], A \ {t}, y) = Used(ledger[t.r], A, y)
    <3>1. /\ Part(doc[t.r], e, A \ {t}, t.r \in stray, y) = Part(doc[t.r], e, A, t.r \in stray, y)
          /\ Used(e, A \ {t}, y) = Used(e, A, y)
      <4>1. t.do \notin Cash
        BY <1>1, <1>2 DEF Cash
      <4>2. Known(t.r, doc[t.r], e, A, t.r \in broken, t.r \in stray) /\ t \in A
        BY <1>4, <2>3
      <4> HIDE DEF e, A
      <4> QED BY <4>1, <4>2, PartTaken
    <3> QED BY <2>2, <3>1
  <2> QED BY <1>1, <2>1, <2>2, <2>3, BalanceEven
<1> QED BY <1>5, <1>6

\* Undo and Spend.
LEMMA BalanceWritten ==
  ASSUME Reckoned, Reckoned', Balance, NEW w \in Servers, Undo(w) \/ Spend(w)
  PROVE  Balance'
<1> SUFFICES ASSUME NEW t, t = Head(todo[w]) PROVE Balance'
  OBVIOUS
<1> DEFINE A == Account(t.r)
           B == A \ {t}
           o == [y \in Years |-> 0]
           d == [y \in Years |-> DaysOf(t, y)]
           m == [y \in Years |-> -DaysOf(t, y)]
<1>0. Types /\ Lists /\ Sole /\ Phases
  BY DEF Reckoned
<1>1. Heading(t, w) /\ t.r \in Reqs /\ Acted(t.r, B)
  <2>1. CASE Undo(w)
    BY <1>0, <2>1, ActedGone DEF Undo, Accounting, Heading
  <2>2. CASE Spend(w)
    BY <1>0, <2>2, ActedGone DEF Spend, Accounting, Heading
  <2> QED BY <2>1, <2>2
<1>2. UNCHANGED <<doc, ledger, hasty, broken, stray>> /\ Elsewhere(t.r) /\ t.do \in {"undo", "spend"}
  BY DEF Undo, Spend, history, Elsewhere, Doing
<1>3. t.y \in Years /\ t.n \in Nat
  <2>1. GoodTask(t)
    BY <1>0, <1>1, TaskType DEF Heading, Open
  <2> QED BY <1>2, <2>1, FullType DEF GoodTask, Plain
<1>4. o \in [Years -> Int] /\ d \in [Years -> Int] /\ m \in [Years -> Int]
  BY <1>3 DEF DaysOf
<1>5. \A y \in Years : o[y] = 0 /\ d[y] = DaysOf(t, y) /\ m[y] = -DaysOf(t, y) /\ DaysOf(t, y) \in Nat
  BY <1>3 DEF DaysOf
<1>6. ASSUME hasty = {}
      PROVE  /\ Known(t.r, doc[t.r], ledger[t.r], A, t.r \in broken, t.r \in stray) /\ t \in A
             /\ \A y \in Years : /\ Part(doc[t.r], ledger[t.r], A, t.r \in stray, y) \in Int
                                 /\ Used(ledger[t.r], A, y) \in Int
  <2>1. Known(t.r, doc[t.r], ledger[t.r], A, t.r \in broken, t.r \in stray) /\ t \in A
    BY <1>1, <1>6, HeadKnown
  <2> QED BY <2>1, PartType
<1> HIDE DEF o, d, m, B
<1>7. CASE Undo(w)
  <2>1. Inc(t.y, -t.n, 0) /\ t.do = "undo"
    BY <1>7 DEF Undo, Doing
  <2>2. \A y \in Years : Cached(y)' - Cached(y) = m[y] /\ book'[y].consumed - book[y].consumed = o[y]
    <3> SUFFICES ASSUME NEW y \in Years
                 PROVE  Cached(y)' - Cached(y) = -DaysOf(t, y) /\ book'[y].consumed - book[y].consumed = 0
      BY <1>5
    <3>1. /\ Cached(y)' - Cached(y) = IF y = t.y THEN (-t.n) + 0 ELSE 0
          /\ book'[y].consumed - book[y].consumed = IF y = t.y THEN 0 ELSE 0
      BY <1>0, <1>3, <2>1, CachedInc
    <3> QED BY <1>3, <3>1 DEF DaysOf
  <2>3. ASSUME hasty = {}, NEW y \in Years
        PROVE  /\ Part(doc'[t.r], ledger'[t.r], B, t.r \in stray, y)
                    = Part(doc[t.r], ledger[t.r], A, t.r \in stray, y) + m[y]
               /\ Used(ledger'[t.r], B, y) = Used(ledger[t.r], A, y) + o[y]
    <3>1. /\ Part(doc[t.r], ledger[t.r], B, t.r \in stray, y)
               = Part(doc[t.r], ledger[t.r], A, t.r \in stray, y) - DaysOf(t, y)
          /\ Used(ledger[t.r], B, y) = Used(ledger[t.r], A, y)
      <4>1. Known(t.r, doc[t.r], ledger[t.r], A, t.r \in broken, t.r \in stray) /\ t \in A
        BY <1>6, <2>3
      <4> HIDE DEF A
      <4> QED BY <2>1, <4>1, PartUndo DEF B
    <3>2. /\ Part(doc[t.r], ledger[t.r], A, t.r \in stray, y) \in Int
          /\ Used(ledger[t.r], A, y) \in Int /\ DaysOf(t, y) \in Int
      BY <1>5, <1>6, <2>3
    <3> QED BY <1>2, <1>5, <3>1, <3>2
  <2> QED BY <1>1, <1>2, <1>4, <2>2, <2>3, BalanceActed
<1>8. CASE Spend(w)
  <2>1. Inc(t.y, -t.n, t.n) /\ t.do = "spend"
    BY <1>8 DEF Spend, Doing
  <2>2. \A y \in Years : Cached(y)' - Cached(y) = o[y] /\ book'[y].consumed - book[y].consumed = d[y]
    <3> SUFFICES ASSUME NEW y \in Years
                 PROVE  Cached(y)' - Cached(y) = 0 /\ book'[y].consumed - book[y].consumed = DaysOf(t, y)
      BY <1>5
    <3>1. /\ Cached(y)' - Cached(y) = IF y = t.y THEN (-t.n) + t.n ELSE 0
          /\ book'[y].consumed - book[y].consumed = IF y = t.y THEN t.n ELSE 0
      BY <1>0, <1>3, <2>1, CachedInc
    <3> QED BY <1>3, <3>1 DEF DaysOf
  <2>3. ASSUME hasty = {}, NEW y \in Years
        PROVE  /\ Part(doc'[t.r], ledger'[t.r], B, t.r \in stray, y)
                    = Part(doc[t.r], ledger[t.r], A, t.r \in stray, y) + o[y]
               /\ Used(ledger'[t.r], B, y) = Used(ledger[t.r], A, y) + d[y]
    <3>1. /\ Part(doc[t.r], ledger[t.r], B, t.r \in stray, y)
               = Part(doc[t.r], ledger[t.r], A, t.r \in stray, y)
          /\ Used(ledger[t.r], B, y) = Used(ledger[t.r], A, y) + DaysOf(t, y)
      <4>1. Known(t.r, doc[t.r], ledger[t.r], A, t.r \in broken, t.r \in stray) /\ t \in A
        BY <1>6, <2>3
      <4> HIDE DEF A
      <4> QED BY <2>1, <4>1, PartSpend DEF B
    <3>2. /\ Part(doc[t.r], ledger[t.r], A, t.r \in stray, y) \in Int
          /\ Used(ledger[t.r], A, y) \in Int /\ DaysOf(t, y) \in Int
      BY <1>5, <1>6, <2>3
    <3> QED BY <1>2, <1>5, <3>1, <3>2
  <2> QED BY <1>1, <1>2, <1>4, <2>2, <2>3, BalanceActed
<1> QED BY <1>7, <1>8

\* Drop.
LEMMA BalanceDrop ==
  ASSUME Reckoned, Reckoned', Balance, NEW w \in Servers, Drop(w)
  PROVE  Balance'
<1> SUFFICES ASSUME NEW t, t = Head(todo[w]) PROVE Balance'
  OBVIOUS
<1> DEFINE A == Account(t.r)
<1>0. Types /\ Lists /\ Sole /\ Phases
  BY DEF Reckoned
<1>1. Heading(t, w) /\ t.r \in Reqs /\ Acted(t.r, A \ {t}) /\ t.do = "drop"
  BY <1>0, ActedGone DEF Drop, Accounting, Sub, Heading, Doing
<1>2. UNCHANGED <<book, ledger, hasty, broken, stray>> /\ Set(t.r, "gone")
  BY DEF Drop, history
<1>3. doc'[t.r] = "gone" /\ Elsewhere(t.r)
  BY <1>0, <1>1, <1>2, ElsewhereSet
<1>4. ASSUME hasty = {}, NEW y \in Years
      PROVE  /\ Part(doc'[t.r], ledger'[t.r], A \ {t}, t.r \in stray, y)
                  = Part(doc[t.r], ledger[t.r], A, t.r \in stray, y)
             /\ Used(ledger'[t.r], A \ {t}, y) = Used(ledger[t.r], A, y)
  <2>1. NextTask(t, A)
    BY <1>1, <1>4, HeadKnown
  <2>2. A = {t} /\ A \ {t} = {}
    BY <1>1, <2>1, OnlyTask DEF Final
  <2> HIDE DEF A
  <2> QED BY <1>1, <1>2, <1>3, <2>2, PartDropped
<1> HIDE DEF A
<1> QED BY <1>1, <1>2, <1>3, <1>4, BalanceEven DEF A

-----------------------------------------------------------------------------
(***************************************************************************)
(* The steps that leave both alone                                         *)
(***************************************************************************)
\* A step that neither deletes a request nor is about the cache.
Calm ==
  /\ Steady(Cash) /\ UNCHANGED <<book, ledger, broken, stray>> /\ hasty \subseteq hasty'
  /\ \A r \in Reqs : hasty' = {} => (doc'[r] = "gone" <=> doc[r] = "gone")

\* Writing another status deletes nothing.
LEMMA GoneSet ==
  ASSUME Types, NEW r \in Reqs, NEW status, Set(r, status), status # "gone", doc[r] # "gone"
  PROVE  \A s \in Reqs : doc'[s] = "gone" <=> doc[s] = "gone"
<1>1. doc'[r] = status /\ \A s \in Reqs \ {r} : doc'[s] = doc[s]
  BY DocWrites
<1> QED BY <1>1

\* Create, Recheck and Lose.
LEMMA CalmSubmitting ==
  ASSUME Reckoned, NEW w \in Servers, Create(w) \/ Recheck(w) \/ Lose(w)
  PROVE  Calm
<1> SUFFICES ASSUME NEW t, t = Head(todo[w]) PROVE Calm
  OBVIOUS
<1> DEFINE A == Account(t.r)
<1>0. Types /\ Lists /\ Sole /\ Phases
  BY DEF Reckoned
<1>1. UNCHANGED <<book, ledger, hasty, broken, stray>>
  BY DEF Create, Recheck, Lose, history
<1>2. ASSUME hasty = {}, NEW status, Set(t.r, status), status # "gone", t.r \in Reqs,
             doc[t.r] = "none" \/ doc[t.r] \in Pending
      PROVE  \A r \in Reqs : doc'[r] = "gone" <=> doc[r] = "gone"
  BY <1>0, <1>2, GoneSet DEF Pending
<1>3. ASSUME hasty = {}, Heading(t, w)
      PROVE  /\ t.do = "create" => doc[t.r] = "none"
             /\ t.do = "lose" => doc[t.r] \in Pending
  <2>1. Known(t.r, doc[t.r], ledger[t.r], A, t.r \in broken, t.r \in stray) /\ t \in A
    BY <1>3, HeadKnown
  <2>2. doc[t.r] \in Statuses /\ Place(t.r, doc[t.r], ledger[t.r], A, t.r \in broken, t.r \in stray)
    BY <2>1 DEF Known
  <2> HIDE DEF A
  <2> QED BY <2>1, <2>2, Submitted
<1>4. CASE Create(w)
  <2> DEFINE new == Entries("gate", t.r, Full[t.r]) \cup {Task("recheck", t.r, 0, 0)}
  <2>1. Heading(t, w) /\ t.do = "create" /\ t.r \in Reqs /\ Turned(w, t.r, {t}, new)
    BY <1>0, <1>4, CreateActed, CreateStep DEF Heading
  <2>2. \A u \in {t} \cup new : u.do \notin Cash
    BY <2>1, SMTT(30) DEF Entries, Task, Cash
  <2> HIDE DEF new
  <2>3. Steady(Cash)
    BY <2>1, <2>2, SteadyTurn
  <2>4. \E status : Set(t.r, status) /\ status # "gone"
    BY <1>4 DEF Create
  <2> QED BY <1>1, <1>2, <1>3, <2>1, <2>3, <2>4 DEF Calm
<1>5. CASE Recheck(w)
  <2> DEFINE new == Entries("release", t.r, Full[t.r]) \cup {Task("lose", t.r, 0, 0)}
  <2>1. t.do = "recheck" /\ (Turned(w, t.r, {t}, {}) \/ Turned(w, t.r, {t}, new)) /\ UNCHANGED doc
    BY <1>0, <1>5, RecheckActed, RecheckStep DEF Recheck
  <2>2. (\A u \in {t} \cup new : u.do \notin Cash) /\ (\A u \in {t} \cup {} : u.do \notin Cash)
    BY <2>1 DEF Entries, Task, Cash
  <2> HIDE DEF new
  <2>3. Steady(Cash)
    BY <2>1, <2>2, SteadyTurn
  <2> QED BY <1>1, <2>1, <2>3 DEF Calm
<1>6. CASE Lose(w)
  <2>1. Heading(t, w) /\ t.r \in Reqs /\ t.do = "lose"
    BY <1>0, <1>6, ActedGone DEF Lose, Accounting, Sub, Heading, Doing
  <2>2. Turned(w, t.r, {t}, {}) /\ Set(t.r, "rejected")
    BY <1>0, <1>6, TakenStep DEF Lose
  <2>3. \A u \in {t} \cup {} : u.do \notin Cash
    BY <2>1 DEF Cash
  <2>4. Steady(Cash)
    BY <2>2, <2>3, SteadyTurn
  <2> QED BY <1>1, <1>2, <1>3, <2>1, <2>2, <2>4 DEF Calm
<1> QED BY <1>4, <1>5, <1>6

\* Submit, Decide, Cancel and EarlyReturn.
LEMMA CalmCalls ==
  ASSUME Reckoned, NEW w \in Workers, NEW r \in Reqs,
         Submit(w, r) \/ Decide(w, r) \/ Cancel(w, r) \/ EarlyReturn(w, r)
  PROVE  Calm
<1>0. Types /\ Lists /\ Sole /\ Phases /\ w \in Servers
  BY DEF Reckoned, Servers
<1>1. CASE Submit(w, r)
  <2>1. Turned(w, r, {}, {Task("create", r, 0, 0)})
    BY <1>0, <1>1, SubmitStep
  <2>2. \A u \in {} \cup {Task("create", r, 0, 0)} : u.do \notin Cash
    BY DEF Task, Cash
  <2>3. Steady(Cash)
    BY <1>0, <2>1, <2>2, SteadyTurn
  <2> QED BY <1>1, <2>3 DEF Calm, Submit, history
<1>2. CASE Decide(w, r) \/ Cancel(w, r)
  <2>1. PICK status \in Pending \cup {"approved", "rejected", "cancelled"} :
          Move(w, r, status) /\ doc[r] \in Pending \cup {"approved"}
    BY <1>2 DEF Decide, Cancel, Verdicts, Pending
  <2> DEFINE new == CASE status \in {"rejected", "cancelled"} -> Entries("release", r, Full[r])
                      [] status = "approved"                  -> {Task("catchUp", r, 0, 0)}
                      [] OTHER                                -> {}
  <2>2. Turned(w, r, {}, new)
    BY <1>0, <2>1, MoveStep
  <2>3. \A u \in {} \cup new : u.do \notin Cash
    <3>1. (\A u \in Entries("release", r, Full[r]) : u.do = "release")
          /\ Task("catchUp", r, 0, 0).do = "catchUp"
      BY DEF Entries, Task
    <3>2. CASE status \in {"rejected", "cancelled"}
      <4>1. new = Entries("release", r, Full[r])
        BY <3>2
      <4> HIDE DEF new
      <4> QED BY <3>1, <4>1 DEF Cash
    <3>3. CASE status = "approved"
      <4>1. new = {Task("catchUp", r, 0, 0)}
        BY <3>3
      <4> HIDE DEF new
      <4> QED BY <3>1, <4>1 DEF Cash
    <3>4. CASE status \in Pending
      <4>1. new = {}
        BY <3>4 DEF Pending
      <4> QED BY <4>1
    <3> QED BY <3>2, <3>3, <3>4
  <2> HIDE DEF new
  <2>4. Steady(Cash)
    BY <1>0, <2>2, <2>3, SteadyTurn
  <2>5. \A s \in Reqs : doc'[s] = "gone" <=> doc[s] = "gone"
    BY <1>0, <2>1, GoneSet DEF Move, Pending
  <2> QED BY <2>1, <2>4, <2>5 DEF Calm, Move
<1>3. CASE EarlyReturn(w, r)
  <2>1. PICK d \in Start[r]..(End[r] + 1) : Turned(w, r, {}, Closing(r, d))
    BY <1>0, <1>3, EarlyReturnStep
  <2>2. \A u \in {} \cup Closing(r, d) : u.do \notin Cash
    BY ClosingTasks DEF Cash
  <2>3. Steady(Cash)
    BY <1>0, <2>1, <2>2, SteadyTurn
  <2>4. \A s \in Reqs : doc'[s] = "gone" <=> doc[s] = "gone"
    BY <1>0, <1>3, GoneSet DEF EarlyReturn
  <2> QED BY <1>3, <2>3, <2>4 DEF Calm, EarlyReturn, history
<1> QED BY <1>1, <1>2, <1>3

\* CatchUp, Activate and Complete.
LEMMA CalmLifecycle ==
  ASSUME Reckoned, NEW w \in Servers,
         CatchUp(w) \/ Activate(w) \/ Complete(w)
  PROVE  Calm
<1> SUFFICES ASSUME NEW t, t = Head(todo[w]) PROVE Calm
  OBVIOUS
<1>0. Types /\ Lists /\ Sole /\ Phases
  BY DEF Reckoned
<1>1. UNCHANGED <<book, ledger, hasty, broken, stray>>
  BY DEF CatchUp, Activate, Complete, history
<1>2. ASSUME NEW old, NEW new, Turned(w, t.r, old, new),
             \A u \in old \cup new :
               u.do \in {"catchUp", "activate", "complete",
                         "consume", "release"}
      PROVE  Steady(Cash)
  <2>1. \A u \in old \cup new : u.do \notin Cash
    BY <1>2 DEF Cash
  <2> QED BY <1>2, <2>1, SteadyTurn
<1>3. UNCHANGED doc /\ Steady(Cash) => Calm
  BY <1>1 DEF Calm
<1>4. CASE CatchUp(w)
  <2>1. UNCHANGED doc /\ t.do = "catchUp"
    BY <1>0, <1>4, CatchUpStep DEF CatchUp
  <2>2. PICK new \in SUBSET {Task("activate", t.r, 0, 0), Task("complete", t.r, 0, 0)} :
          Turned(w, t.r, {t}, new)
    BY <1>0, <1>4, CatchUpStep
  <2>3. \A u \in new : u.do \in {"activate", "complete"}
    BY <2>2 DEF Task
  <2>4. Steady(Cash)
    BY <1>2, <2>1, <2>2, <2>3
  <2> QED BY <1>3, <2>1, <2>4
<1>7. CASE Activate(w)
  <2>1. t.do = "activate" /\ GoodTask(t) /\ t.r \in Reqs
    BY <1>0, <1>7, ActivateStep DEF GoodTask
  <2>2. CASE doc[t.r] = "approved"
    <3>1. Turned(w, t.r, {t}, {}) /\ Set(t.r, "active")
      BY <1>0, <1>7, <2>2, ActivateStep
    <3>3. Steady(Cash)
      BY <1>2, <2>1, <3>1
    <3>4. \A s \in Reqs : doc'[s] = "gone" <=> doc[s] = "gone"
      BY <1>0, <2>1, <2>2, <3>1, GoneSet
    <3> QED BY <1>1, <3>3, <3>4 DEF Calm
  <2>3. CASE doc[t.r] # "approved"
    <3>1. UNCHANGED doc
      BY <1>0, <1>7, <2>3, ActivateStep
    <3>2. PICK old : Turned(w, t.r, old, {}) /\ \A u \in old : u.do \in {"activate", "complete"}
      BY <1>0, <1>7, <2>3, ActivateStep
    <3>3. Steady(Cash)
      BY <1>2, <3>2
    <3> QED BY <1>3, <3>1, <3>3
  <2> QED BY <2>2, <2>3
<1>8. CASE Complete(w)
  <2>1. t.do = "complete" /\ GoodTask(t) /\ t.r \in Reqs
    BY <1>0, <1>8, CompleteStep DEF GoodTask
  <2>2. CASE doc[t.r] = "active"
    <3>1. Turned(w, t.r, {t}, Closing(t.r, End[t.r] + 1)) /\ Set(t.r, "completed")
      BY <1>0, <1>8, <2>2, CompleteStep DEF Complete
    <3>2. Steady(Cash)
      BY <1>2, <2>1, <3>1, ClosingTasks
    <3>3. \A s \in Reqs : doc'[s] = "gone" <=> doc[s] = "gone"
      BY <1>0, <2>1, <2>2, <3>1, GoneSet
    <3> QED BY <1>1, <3>2, <3>3 DEF Calm
  <2>3. CASE doc[t.r] # "active"
    <3>1. UNCHANGED doc
      BY <1>8, <2>3 DEF Complete
    <3>2. Turned(w, t.r, {t}, {})
      BY <1>0, <1>8, <2>3, CompleteStep
    <3>3. Steady(Cash)
      BY <1>2, <2>1, <3>2
    <3> QED BY <1>3, <3>1, <3>3
  <2> QED BY <2>2, <2>3
<1> QED BY <1>4, <1>7, <1>8

\* The jobs, the calendar and the steps that do nothing.
LEMMA CalmJobs ==
  ASSUME Reckoned,
         \/ ActivateDueStarted \/ CompleteDueEnded \/ Tick
         \/ UNCHANGED vars
  PROVE  Calm
<1>0. Types /\ Lists /\ Sole /\ Phases
  BY DEF Reckoned
<1>1. UNCHANGED <<doc, book, ledger, hasty, broken, stray>>
  BY DEF ActivateDueStarted, CompleteDueEnded, Tick, vars, history
<1>2. Steady(Cash) => Calm
  BY <1>1 DEF Calm
<1>3. ASSUME NEW w \in Jobs, NEW do \in {"activate", "complete"}, NEW due \in SUBSET Reqs,
             Begin(w, Calls(do, due))
      PROVE  Steady(Cash)
  <2>1. /\ Tasks(w) = {} /\ \A v \in Servers \ {w} : Tasks(v)' = Tasks(v)
        /\ \A t \in Tasks(w)' : t.do = do /\ t.r \in due
    BY <1>0, <1>3, JobStep
  <2>2. \A t \in Tasks(w)' : t.do \notin Cash
    BY <2>1 DEF Cash
  <2> QED BY <2>1, <2>2, SteadyJob DEF Servers
<1>4. CASE ActivateDueStarted
  <2> DEFINE due == {r \in Reqs : doc[r] = "approved" /\ Start[r] <= today}
  <2>1. Begin("activateStarted", Calls("activate", due)) /\ due \in SUBSET Reqs
    BY <1>4 DEF ActivateDueStarted
  <2> HIDE DEF due
  <2> QED BY <1>2, <1>3, <2>1 DEF Jobs
<1>5. CASE CompleteDueEnded
  <2> DEFINE due == {r \in Reqs : doc[r] = "active" /\ End[r] < today}
  <2>1. Begin("completeEnded", Calls("complete", due)) /\ due \in SUBSET Reqs
    BY <1>5 DEF CompleteDueEnded
  <2> HIDE DEF due
  <2> QED BY <1>2, <1>3, <2>1 DEF Jobs
<1>6. CASE Tick \/ UNCHANGED vars
  <2>1. UNCHANGED todo
    BY <1>6 DEF Tick, vars
  <2> QED BY <1>2, <2>1, SteadyIdle
<1> QED BY <1>4, <1>5, <1>6

-----------------------------------------------------------------------------
(***************************************************************************)
(* Every step keeps the balance                                            *)
(***************************************************************************)
\* A call that dies may leave more in the cache than the requests hold, never less.
LEMMA BalanceFail ==
  ASSUME Reckoned, Reckoned', Balance, NEW w \in Servers, Fail(w)
  PROVE  Balance'
<1>0. Types /\ Lists /\ Sole /\ Phases /\ IsFiniteSet(Reqs)
  BY LeaveAssumption DEF Reckoned
<1>1. UNCHANGED <<doc, ledger, book, hasty>> /\ broken' # {}
  <2>1. PICK t : t \in Tasks(w)
    BY <1>0, FailStep
  <2>2. broken' = broken \cup {u.r : u \in Tasks(w)} /\ UNCHANGED <<doc, ledger, book, hasty>>
    BY DEF Fail
  <2>3. t.r \in broken'
    BY <2>1, <2>2
  <2> QED BY <2>2, <2>3
<1> SUFFICES ASSUME hasty = {}, NEW y \in Years
             PROVE  Shares(y)' <= Cached(y)
  BY <1>1 DEF Balance, Cached
<1> DEFINE f == [r \in Reqs |-> Share(r, y)]
           g == [r \in Reqs |-> Share(r, y)']
<1>2. Counted /\ Counted'
  BY ReckonedCounted, PTL
<1>3. ASSUME NEW s \in Reqs
      PROVE  /\ Share(s, y) \in Nat /\ Share(s, y)' \in Nat
             /\ Share(s, y)' <= Share(s, y)
  <2>1. Share(s, y) \in Nat /\ Share(s, y)' \in Nat
    BY <1>1, <1>2 DEF Counted
  <2>2. Known(s, doc[s], ledger[s], Account(s), s \in broken, s \in stray)
    BY <1>0, KnownOf
  <2>3. ASSUME NEW A, A = Account(s), NEW B, B = Account(s)',
               NEW failed, failed <=> s \in broken', NEW lost, lost <=> s \in stray'
        PROVE  Part(doc[s], ledger[s], B, lost, y) <= Part(doc[s], ledger[s], A, s \in stray, y)
    <3>1. Known(s, doc[s], ledger[s], A, s \in broken, s \in stray)
      BY <2>2, <2>3
    <3>2. Part(doc[s], ledger[s], A, s \in stray, y) \in Nat
      BY <3>1, PartType
    <3>3. CASE B = A /\ (lost <=> s \in stray)
      <4>1. Part(doc[s], ledger[s], B, lost, y) = Part(doc[s], ledger[s], A, s \in stray, y)
        BY <3>3 DEF Part, Kept
      <4> QED BY <3>2, <4>1
    <3>4. CASE B \subseteq A /\ (lost <=> s \in stray \/ "drop" \in Does(A))
      BY <3>1, <3>4, PartCut
    <3>5. CASE B = {Task("drop", s, 0, 0)}
      <4>1. Part(doc[s], ledger[s], B, lost, y) = 0
        <5>1. Task("drop", s, 0, 0).do = "drop"
          BY DEF Task
        <5> QED BY <3>5, <5>1, PartLost
      <4> QED BY <3>2, <4>1
    <3> QED BY <1>0, <2>3, <3>3, <3>4, <3>5, FailActed
  <2>4. Part(doc[s], ledger[s], Account(s)', s \in stray', y)
          <= Part(doc[s], ledger[s], Account(s), s \in stray, y)
    BY <2>3
  <2>5. Share(s, y)' <= Share(s, y)
    BY <1>1, <2>4 DEF Share
  <2> QED BY <2>1, <2>5
<1>4. \A r \in Reqs : f[r] \in Int /\ g[r] \in Int /\ g[r] <= f[r]
  BY <1>3
<1>5. Shares(y) = SumFunctionOnSet(f, Reqs) /\ Shares(y)' = SumFunctionOnSet(g, Reqs)
  BY DEF Shares
<1> HIDE DEF f, g
<1>6. SumFunctionOnSet(g, Reqs) <= SumFunctionOnSet(f, Reqs)
  BY <1>0, <1>4, SumMonotone
<1>7. SumFunctionOnSet(g, Reqs) \in Int /\ SumFunctionOnSet(f, Reqs) \in Int
  BY <1>0, <1>4, SumType
<1>8. Shares(y) <= Cached(y) /\ Cached(y) \in Int
  BY <1>2 DEF Balance, Counted
<1> HIDE DEF Shares, Cached
<1> QED BY <1>5, <1>6, <1>7, <1>8

\* Every step keeps the cache the sum of the shares.
LEMMA NextBalance == Reckoned /\ Reckoned' /\ Fresh /\ Balance /\ [Next]_vars => Balance'
<1> SUFFICES ASSUME Reckoned, Reckoned', Fresh, Balance, [Next]_vars PROVE Balance'
  OBVIOUS
<1>0. Types /\ Lists /\ Sole /\ Phases
  BY DEF Reckoned
<1>1. Calm => Balance'
  BY BalanceCalm DEF Calm
<1>2. ASSUME NEW w \in Servers, Release(w) \/ Consume(w) PROVE Balance'
  <2>1. UNCHANGED <<doc, book, hasty, broken, stray>>
    BY <1>2 DEF Release, Consume, Insert, history
  <2>2. CASE Release(w)
    BY <1>0, <2>1, <2>2, ReleaseStep, BalanceEntered DEF LeadsTo
  <2>3. CASE Consume(w)
    BY <1>0, <2>1, <2>3, ConsumeStep, BalanceEntered DEF LeadsTo
  <2> QED BY <1>2, <2>2, <2>3
<1>3. ASSUME NEW w \in Servers, Serve(w) PROVE Balance'
  BY <1>1, <1>2, <1>3, BalanceGate, BalanceRow, BalanceWritten, BalanceDrop, CalmSubmitting, CalmLifecycle
     DEF Serve
<1>4. ASSUME NEW w \in Workers, NEW r \in Reqs,
             Submit(w, r) \/ Decide(w, r) \/ Cancel(w, r) \/ EarlyReturn(w, r)
      PROVE  Balance'
  BY <1>1, <1>4, CalmCalls
<1> QED BY <1>1, <1>3, <1>4, CalmJobs, BalanceFail DEF Next

\* Initially there is nothing in either.
LEMMA BalanceInitially == Init => Balance
<1> SUFFICES ASSUME Init, NEW y \in Years
             PROVE  Shares(y) = Cached(y) /\ Spendings(y) = book[y].consumed /\ Cached(y) = 0
  BY DEF Balance
<1>1. Open = {}
  <2>1. \A w \in Servers : Tasks(w) = {}
    BY TasksAreElements, EmptyList DEF Init
  <2> QED BY <2>1 DEF Open
<1>2. ASSUME NEW r \in Reqs PROVE Share(r, y) = 0 /\ Spent(r, y) = 0
  <2>1. Account(r) = {} /\ \A k \in Kinds : ledger[r][k][y] = 0
    BY <1>1 DEF Account, Mine, Init
  <2>2. \A do : Waiting({}, do, y) = 0
    BY WaitingNone
  <2>3. Kept(doc[r], ledger[r], {}, r \in stray, y) = 0
    BY <2>1 DEF Kept, Kinds
  <2> QED BY <2>1, <2>2, <2>3 DEF Share, Spent, Part, Used, Kinds
<1>3. Shares(y) = 0 /\ Spendings(y) = 0
  BY <1>2, SumZero, LeaveAssumption DEF Shares, Spendings
<1>4. book[y].reserved = 0 /\ book[y].consumed = 0
  BY DEF Init
<1> QED BY <1>3, <1>4 DEF Cached

\* The gate keeps what is promised within what was granted.
LEMMA NextGated == Types /\ Lists /\ Gated /\ [Next]_vars => Gated'
<1> SUFFICES ASSUME Types, Lists, Gated, [Next]_vars, NEW z \in Years
             PROVE  Cached(z)' <= book'[z].granted + Cap
  BY DEF Gated
<1>0. /\ Cached(z) <= book[z].granted + Cap
      /\ Cached(z) \in Int /\ book[z].granted \in Int /\ Cap \in Int
      /\ Cached(z) = book[z].reserved + book[z].consumed
      /\ book[z].reserved \in Int /\ book[z].consumed \in Int
  BY BookType, LeaveAssumption DEF Gated, Cached
<1>1. CASE UNCHANGED book
  BY <1>0, <1>1 DEF Cached
<1>2. ASSUME NEW w \in Servers, Gate(w) \/ Undo(w) \/ Spend(w)
      PROVE  Cached(z)' <= book'[z].granted + Cap
  <2> DEFINE t == Head(todo[w])
  <2>1. t.y \in Years /\ t.n \in Nat
    <3>1. GoodTask(t) /\ t.do \in {"gate", "undo", "spend"}
      BY <1>2, DoingTask DEF Gate, Undo, Spend
    <3> HIDE DEF t
    <3> QED BY <3>1, FullType DEF GoodTask, Plain
  <2> HIDE DEF t
  <2>2. CASE Covers(t.y, t.n) /\ Inc(t.y, t.n, 0)
    <3>1. /\ Cached(z)' - Cached(z) = IF z = t.y THEN t.n + 0 ELSE 0
          /\ book'[z].granted = book[z].granted
      BY <2>1, <2>2, CachedInc
    <3>2. Cached(z)' \in Int
      <4>1. book' \in Balances
        BY <2>1, <2>2, BookWrites
      <4>2. book'[z] \in [granted : Nat, reserved : Int, consumed : Nat]
        BY <4>1 DEF Balances
      <4> QED BY <4>2 DEF Cached
    <3>3. CASE z = t.y
      <4>1. book[z].granted - (book[z].reserved + book[z].consumed + t.n) >= -Cap
        BY <2>2, <3>3 DEF Covers
      <4>2. Cached(z)' = Cached(z) + t.n
        BY <1>0, <2>1, <3>1, <3>2, <3>3
      <4> QED BY <1>0, <2>1, <3>1, <4>1, <4>2
    <3>4. CASE z # t.y
      BY <1>0, <3>1, <3>2, <3>4
    <3> QED BY <3>3, <3>4
  <2>3. ASSUME NEW c \in {0, t.n}, Inc(t.y, -t.n, c)
        PROVE  Cached(z)' <= book'[z].granted + Cap
    <3>1. /\ Cached(z)' - Cached(z) = IF z = t.y THEN (-t.n) + c ELSE 0
          /\ book'[z].granted = book[z].granted
      BY <2>1, <2>3, CachedInc
    <3>2. Cached(z)' \in Int
      <4>1. book' \in Balances
        BY <2>1, <2>3, BookWrites
      <4>2. book'[z] \in [granted : Nat, reserved : Int, consumed : Nat]
        BY <4>1 DEF Balances
      <4> QED BY <4>2 DEF Cached
    <3>3. Cached(z)' <= Cached(z)
      BY <1>0, <2>1, <3>1, <3>2
    <3> QED BY <1>0, <3>1, <3>2, <3>3
  <2>4. CASE Gate(w)
    BY <1>1, <2>2, <2>4 DEF Gate, t
  <2>5. CASE Undo(w)
    BY <2>3, <2>5 DEF Undo, t
  <2>6. CASE Spend(w)
    BY <2>3, <2>6 DEF Spend, t
  <2> QED BY <1>2, <2>4, <2>5, <2>6
<1>3. ASSUME NEW w \in Servers, Serve(w) PROVE UNCHANGED book \/ Gate(w) \/ Undo(w) \/ Spend(w)
  BY <1>3 DEF Serve, ReserveRow, Release, Consume, Insert, Create, Drop, Recheck, Lose, CatchUp,
     Activate, Complete
<1>4. ASSUME NEW w \in Workers, NEW r \in Reqs,
             Submit(w, r) \/ Decide(w, r) \/ Cancel(w, r) \/ EarlyReturn(w, r)
      PROVE  UNCHANGED book
  BY <1>4 DEF Submit, Decide, Cancel, EarlyReturn, Move
<1>5. ASSUME NEW w \in Servers, Fail(w) PROVE UNCHANGED book
  BY <1>5 DEF Fail
<1>6. CASE \/ ActivateDueStarted \/ CompleteDueEnded \/ Tick
           \/ UNCHANGED vars
  BY <1>1, <1>6 DEF ActivateDueStarted, CompleteDueEnded, Tick, vars
<1> QED BY <1>1, <1>2, <1>3, <1>4, <1>5, <1>6 DEF Next

\* Nothing is promised yet.
LEMMA GatedInitially == Init => Gated
<1> SUFFICES ASSUME Init, NEW y \in Years PROVE Cached(y) <= book[y].granted + Cap
  BY DEF Gated
<1>1. Types
  BY TypesInitially
<1>2. book[y].reserved = 0 /\ book[y].consumed = 0
  BY DEF Init
<1> QED BY <1>1, <1>2, BookType, LeaveAssumption DEF Cached

-----------------------------------------------------------------------------
(***************************************************************************)
(* The cache is the ledger, and never overbooked                           *)
(***************************************************************************)
Accounts == Invariant /\ Balance /\ Gated

\* The invariant with the cache.
LEMMA AccountsHold == Spec => []Accounts
<1>1. Init => Accounts
  BY TypesInitially, FreshInitially, PhasesInitially, BalanceInitially, GatedInitially
     DEF Accounts, Invariant
<1>2. Accounts /\ [Next]_vars => Accounts'
  <2> SUFFICES ASSUME Accounts, [Next]_vars PROVE Accounts'
    OBVIOUS
  <2>1. Types /\ Lists /\ Fresh /\ Sole /\ Phases
    BY DEF Accounts, Invariant
  <2>2. Types' /\ Lists' /\ Fresh' /\ Sole' /\ Phases'
    BY <2>1, NextTypes, NextLists, NextFresh, NextPhases
  <2>3. Balance'
    BY <2>1, <2>2, NextBalance DEF Reckoned, Accounts
  <2>4. Gated'
    BY <2>1, NextGated DEF Accounts
  <2> QED BY <2>2, <2>3, <2>4 DEF Accounts, Invariant
<1> QED BY <1>1, <1>2, PTL DEF Spec

\* What the theorems below use of it.
LEMMA AccountsReckoned ==
  ASSUME Accounts
  PROVE  /\ Reckoned /\ Counted /\ Balance /\ Gated /\ IsFiniteSet(Reqs)
         /\ \A r \in Reqs : /\ ledger[r] \in [Kinds -> [Years -> Nat]]
                            /\ \A y \in Years : ledger[r]["reserve"][y] \in Nat
                            /\ \A y \in Years : ledger[r]["release"][y] \in Nat
                            /\ \A y \in Years : ledger[r]["consume"][y] \in Nat
<1>1. Reckoned /\ Balance /\ Gated
  BY DEF Accounts, Invariant, Reckoned
<1>2. Counted
  BY <1>1, ReckonedCounted
<1>3. \A r \in Reqs : ledger[r] \in [Kinds -> [Years -> Nat]]
  BY <1>1 DEF Reckoned, Types
<1> QED BY <1>1, <1>2, <1>3, LeaveAssumption DEF Kinds

\* With no call under way, and none that failed, the shares are what the ledger says.
LEMMA IdleShare ==
  ASSUME Accounts, InFlight = {}, hasty = {}, broken = {}, NEW r \in Reqs, NEW y \in Years
  PROVE  /\ doc[r] # "gone" => Share(r, y) = ledger[r]["reserve"][y] - ledger[r]["release"][y]
         /\ doc[r] = "gone" => Share(r, y) = 0 /\ ledger[r]["consume"][y] = 0
         /\ Spent(r, y) = ledger[r]["consume"][y]
<1>1. Account(r) = {}
  BY DEF Account, Mine, Open, InFlight
<1>2. /\ Place(r, doc[r], ledger[r], {}, r \in broken, r \in stray) /\ r \notin broken
      /\ doc[r] \in Statuses
  BY <1>1, PhaseOf DEF Accounts, Invariant
<1>3. (\A do : Waiting({}, do, y) = 0) /\ Does({}) = {}
  BY WaitingNone DEF Does
<1>4. doc[r] # "gone" => r \notin stray
  BY <1>2, <1>3 DEF Place, Statuses, Blocking, Deleting, Abandoned
<1>5. /\ ledger[r]["reserve"][y] \in Nat /\ ledger[r]["release"][y] \in Nat /\ ledger[r]["consume"][y] \in Nat
  BY AccountsReckoned
<1>6. doc[r] = "gone" => ledger[r]["consume"][y] = 0
  BY <1>2 DEF Place, Nil
<1>7. Kept(doc[r], ledger[r], {}, r \in stray, y)
        = IF doc[r] = "gone" THEN 0 ELSE ledger[r]["reserve"][y] - ledger[r]["release"][y]
  BY <1>3, <1>4 DEF Kept
<1>8. Share(r, y) = Kept(doc[r], ledger[r], {}, r \in stray, y) /\ Spent(r, y) = ledger[r]["consume"][y]
  <2>1. Share(r, y) = Kept(doc[r], ledger[r], {}, r \in stray, y) + 0 + 0
        /\ Spent(r, y) = ledger[r]["consume"][y] - 0
    BY <1>1, <1>3 DEF Share, Spent, Part, Used
  <2>2. Kept(doc[r], ledger[r], {}, r \in stray, y) \in Int
    BY <1>5, <1>7
  <2> QED BY <1>5, <2>1, <2>2
<1> QED BY <1>6, <1>7, <1>8

\* The balance tryReserve decides on is the sum of the ledger whenever no call is under way and
\* none failed, whatever interleaving of submit, decide, cancel, earlyReturn and the jobs led there.
THEOREM CacheExact == Spec => []CacheIsLedger
<1>1. Accounts => CacheIsLedger
  <2> SUFFICES ASSUME Accounts, InFlight = {}, hasty = {}, broken = {}, NEW y \in Years
               PROVE  /\ book[y].consumed = Sum("consume", y)
                      /\ book[y].reserved = Sum("reserve", y) - Sum("release", y) - Sum("consume", y)
    BY DEF CacheIsLedger
  <2> DEFINE S == {r \in Reqs : doc[r] # "gone"}
             e(k) == [r \in Reqs |-> ledger[r][k][y]]
             f == [r \in Reqs |-> Share(r, y)]
             c == [r \in Reqs |-> Spent(r, y)]
             total(g, T) == SumFunctionOnSet(g, T)
  <2>1. S \in SUBSET Reqs /\ IsFiniteSet(Reqs) /\ IsFiniteSet(S) /\ IsFiniteSet(Reqs \ S)
    BY AccountsReckoned, FS_Subset
  <2>2. \A r \in Reqs : f[r] \in Int /\ c[r] \in Int
                        /\ e("reserve")[r] \in Int /\ e("release")[r] \in Int /\ e("consume")[r] \in Int
    BY AccountsReckoned DEF Counted
  <2>3. /\ \A r \in S : e("reserve")[r] = f[r] + e("release")[r] /\ c[r] = e("consume")[r]
        /\ \A r \in Reqs \ S : f[r] = 0 /\ c[r] = 0
    <3>1. \A r \in S : f[r] = e("reserve")[r] - e("release")[r] /\ c[r] = e("consume")[r]
      BY IdleShare
    <3>2. \A r \in Reqs \ S : f[r] = 0 /\ c[r] = 0
      BY IdleShare
    <3> HIDE DEF e, f, c
    <3> QED BY <2>1, <2>2, <3>1, <3>2
  <2>4. /\ total(f, Reqs) = Cached(y) /\ total(c, Reqs) = book[y].consumed
        /\ Cached(y) = book[y].reserved + book[y].consumed
    BY AccountsReckoned DEF Balance, Shares, Spendings, Cached
  <2>5. \A k : Sum(k, y) = total(e(k), S)
    BY DEF Sum
  <2>6. book[y].reserved \in Int /\ book[y].consumed \in Int
    BY AccountsReckoned, BookType DEF Reckoned
  <2> HIDE DEF S, e, f, c
  <2>7. /\ total(f, Reqs) = total(f, S) + total(f, Reqs \ S) /\ total(f, Reqs \ S) = 0
        /\ total(c, Reqs) = total(c, S) + total(c, Reqs \ S) /\ total(c, Reqs \ S) = 0
    <3>1. \A r \in Reqs : f[r] \in Int /\ c[r] \in Int
      BY <2>2
    <3> QED BY <2>1, <2>3, <3>1, SumUnion, SumZero
  <2>8. \A r \in S : f[r] \in Int /\ c[r] \in Int
                     /\ e("reserve")[r] \in Int /\ e("release")[r] \in Int /\ e("consume")[r] \in Int
    BY <2>1, <2>2
  <2>9. total(e("reserve"), S) = total(f, S) + total(e("release"), S)
    BY <2>1, <2>3, <2>8, SumPlus
  <2>10. total(c, S) = total(e("consume"), S)
    BY <2>1, <2>3, <2>8, SumSame
  <2>11. total(f, S) \in Int /\ total(c, S) \in Int /\ total(e("release"), S) \in Int
    BY <2>1, <2>8, SumType
  <2> HIDE DEF total, Sum, Cached
  <2>12. Sum("reserve", y) = total(f, S) + total(e("release"), S) /\ Sum("release", y) = total(e("release"), S)
         /\ Sum("consume", y) = total(c, S)
    BY <2>5, <2>9, <2>10
  <2>13. total(f, S) = book[y].reserved + book[y].consumed /\ total(c, S) = book[y].consumed
    BY <2>4, <2>7, <2>11
  <2> QED BY <2>6, <2>11, <2>12, <2>13
<1> QED BY <1>1, AccountsHold, PTL

\* tryReserve never promises a day twice: what the requests with a document hold in the ledger is at
\* most what the cache says, and that at most the grant with the negative cap, whatever calls
\* overlap and wherever one of them dies.
THEOREM GateKeepsWithinGrant == Spec => []NeverOverbooked
<1>1. Accounts => NeverOverbooked
  <2> SUFFICES ASSUME Accounts, hasty = {}, NEW y \in Years
               PROVE  /\ Held(y) <= book[y].reserved + book[y].consumed
                      /\ book[y].reserved + book[y].consumed <= book[y].granted + Cap
    BY DEF NeverOverbooked
  <2> DEFINE S == {r \in Reqs : doc[r] # "gone"} \ (stray \cup Dropping)
             h == [r \in Reqs |-> ledger[r]["reserve"][y] - ledger[r]["release"][y]]
             f == [r \in Reqs |-> Share(r, y)]
             o == [r \in Reqs |-> 0]
             total(g, T) == SumFunctionOnSet(g, T)
  <2>1. S \in SUBSET Reqs /\ IsFiniteSet(Reqs) /\ IsFiniteSet(S) /\ IsFiniteSet(Reqs \ S)
    BY AccountsReckoned, FS_Subset
  <2>2. \A r \in Reqs : f[r] \in Int /\ 0 <= f[r] /\ h[r] \in Int
    BY AccountsReckoned DEF Counted
  <2>3. ASSUME NEW r \in S PROVE h[r] <= f[r]
    <3>1. "drop" \notin Does(Account(r))
      <4> SUFFICES ASSUME NEW t \in Account(r), t.do = "drop" PROVE FALSE
        BY DEF Does
      <4>1. PICK w \in Servers : t \in Tasks(w) /\ t.r = r
        BY DEF Account, Mine, Open
      <4>2. w \in Workers
        BY <4>1 DEF Accounts, Invariant, Lists, Sub
      <4> QED BY <4>1, <4>2 DEF Dropping
    <3>2. Kept(doc[r], ledger[r], Account(r), r \in stray, y) = h[r]
      BY <3>1 DEF Kept
    <3>3. /\ Waiting(Account(r), "row", y) \in Nat /\ Waiting(Account(r), "undo", y) \in Nat
          /\ Kept(doc[r], ledger[r], Account(r), r \in stray, y) \in Nat
      <4>1. Known(r, doc[r], ledger[r], Account(r), r \in broken, r \in stray)
        BY <2>1, KnownOf, AccountsReckoned DEF Reckoned
      <4> QED BY <4>1, PartType DEF Yearly
    <3>4. f[r] = Kept(doc[r], ledger[r], Account(r), r \in stray, y)
                   + Waiting(Account(r), "row", y) + Waiting(Account(r), "undo", y)
      BY <2>1 DEF Share, Part
    <3> HIDE DEF h, f
    <3> QED BY <3>2, <3>3, <3>4
  <2>4. /\ total(f, Reqs) <= Cached(y) /\ Cached(y) = book[y].reserved + book[y].consumed
        /\ Cached(y) <= book[y].granted + Cap /\ Cached(y) \in Int
    BY AccountsReckoned DEF Balance, Shares, Cached, Gated, Counted
  <2>5. Held(y) = total(h, S)
    BY DEF Held
  <2>6. \A r \in Reqs : o[r] = 0
    OBVIOUS
  <2> HIDE DEF S, h, f, o
  <2>7. total(f, Reqs) = total(f, S) + total(f, Reqs \ S)
    <3>1. \A r \in Reqs : f[r] \in Int
      BY <2>2
    <3> QED BY <2>1, <3>1, SumUnion
  <2>8. total(h, S) <= total(f, S)
    <3>1. \A r \in S : h[r] \in Int /\ f[r] \in Int /\ h[r] <= f[r]
      BY <2>1, <2>2, <2>3
    <3> QED BY <2>1, <3>1, SumMonotone
  <2>9. total(o, Reqs \ S) <= total(f, Reqs \ S) /\ total(o, Reqs \ S) = 0
    <3>1. \A r \in Reqs \ S : o[r] \in Int /\ f[r] \in Int /\ o[r] <= f[r] /\ o[r] = 0
      BY <2>2, <2>6
    <3> QED BY <2>1, <3>1, SumMonotone, SumZero
  <2>10. total(f, S) \in Int /\ total(h, S) \in Int /\ total(f, Reqs \ S) \in Int
    <3>1. (\A r \in S : f[r] \in Int /\ h[r] \in Int) /\ (\A r \in Reqs \ S : f[r] \in Int)
      BY <2>1, <2>2
    <3> QED BY <2>1, <3>1, SumType
  <2> HIDE DEF total, Held, Cached
  <2>11. Held(y) <= Cached(y)
    BY <2>4, <2>5, <2>7, <2>8, <2>9, <2>10
  <2> QED BY <2>4, <2>11
<1> QED BY <1>1, AccountsHold, PTL
=============================================================================
