------------------------- MODULE LoanRequestProofs -------------------------
(***************************************************************************)
(* Proofs about LoanRequest, for any number of loans, users and requests.  *)
(*                                                                         *)
(* The argument is the one behind the version filter: a request whose      *)
(* version is still the document's has the document it checked (Checked).  *)
(* With it, what was checked on the document that was read still holds on  *)
(* the one that is written.  The rule about several documents has no such  *)
(* filter, and its invariant (Windows) says instead which loans may have   *)
(* become live while a submit was on its way.                              *)
(***************************************************************************)
EXTENDS LoanRequest, TLAPS

Busy(w) == req[w].step \in {"live", "write"}

\* What a request has checked holds for as long as its version is current.
Checked ==
  \A w \in Workers : Busy(w) =>
    /\ req[w].v <= loan[req[w].loan].v
    /\ req[w].op \in {"submit", "approve", "reject"} => req[w].user \in Users
    /\ req[w].op \in {"create", "update"} => req[w].terms \in Terms
    /\ req[w].v = loan[req[w].loan].v /\ req[w].op # "create"
         => May(req[w].op, req[w].user, loan[req[w].loan])

\* A live loan, a pending one too, has a submitter.
HasSubmitter ==
  \A l \in Loans : loan[l].status \in Live => loan[l].submittedBy \in Users

\* Submits that are past their check, and loans that are live meanwhile, have
\* been together.
Windows ==
  /\ \A w, x \in Submitting :
       req[w].loan # req[x].loan => {req[w].loan, req[x].loan} \in together
  /\ \A w \in Submitting, k \in Loans :
       k # req[w].loan /\ loan[k].status \in Live => {req[w].loan, k} \in together

IInv == TypeOK /\ Checked /\ HasSubmitter /\ SecondPerson /\ JudgedAsSubmitted

-----------------------------------------------------------------------------

\* The documents and requests keep their types.
THEOREM RequestTypes == Spec => []TypeOK
<1>1. Init => TypeOK
  BY DEF Init, TypeOK, NoLoan, Idle, Statuses
<1>2. TypeOK /\ [Next]_vars => TypeOK'
  <2> SUFFICES ASSUME TypeOK, [Next]_vars PROVE TypeOK'
    OBVIOUS
  <2>1. ASSUME NEW w \in Workers, NEW op \in Ops, NEW l \in Loans,
               NEW u \in Users \cup {None}, NEW t \in Terms \cup {None},
               Begin(w, op, l, u, t)
        PROVE  TypeOK'
    BY <2>1 DEF Begin, TypeOK, Requests, FirstStep
  <2>2. ASSUME NEW w \in Workers, CheckLive(w) PROVE TypeOK'
    BY <2>2 DEF CheckLive, TypeOK, Requests, Submitting, Idle
  <2>3. ASSUME NEW w \in Workers, Refuse(w) PROVE TypeOK'
    BY <2>3 DEF Refuse, TypeOK
  <2>4. ASSUME NEW w \in Workers, Write(w) PROVE TypeOK'
    <3>1. req[w] \in Requests
      BY <2>4 DEF Write, TypeOK, Idle
    <3>2. To(req[w].op, loan[req[w].loan].status) \in Statuses
      BY <3>1 DEF To, TypeOK, Requests, Ops, Statuses, Live, Decided
    <3>3. Written(req[w]) \in [status : Statuses, v : Nat, terms : Terms \cup {None},
                               submittedBy : Users \cup {None},
                               decidedBy : Users \cup {None}]
      BY <3>1, <3>2 DEF Written, TypeOK, Requests
    <3> QED
      BY <2>4, <3>1, <3>3 DEF Write, TypeOK, Requests
  <2>5. CASE UNCHANGED vars
    BY <2>5 DEF vars, TypeOK
  <2> QED
    BY <2>1, <2>2, <2>3, <2>4, <2>5 DEF Next
<1> QED
  BY <1>1, <1>2, PTL DEF Spec

-----------------------------------------------------------------------------

\* A write finds the document its request checked: an insert finds none.
LEMMA WriteIsChecked ==
  ASSUME IInv, NEW w \in Workers, Write(w)
  PROVE  /\ req[w] \in Requests
         /\ Busy(w)
         /\ loan[req[w].loan].v = req[w].v
         /\ req[w].op = "create" => loan[req[w].loan] = NoLoan
         /\ req[w].op # "create" => May(req[w].op, req[w].user, loan[req[w].loan])
  <1>1. req[w] \in Requests /\ Busy(w)
    BY DEF IInv, TypeOK, Write, Idle, Busy, Requests
  <1> QED
    BY <1>1 DEF IInv, Checked, Write, Fresh

\* What a write leaves: the document it wrote, and every other as it was.
LEMMA WriteLeaves ==
  ASSUME IInv, NEW w \in Workers, Write(w), NEW l \in Loans
  PROVE  loan'[l] = IF l = req[w].loan THEN Written(req[w]) ELSE loan[l]
  <1>1. req[w].loan \in Loans /\ loan \in [Loans -> [status : Statuses, v : Nat,
           terms : Terms \cup {None}, submittedBy : Users \cup {None},
           decidedBy : Users \cup {None}]]
    BY WriteIsChecked DEF Requests, IInv, TypeOK
  <1> QED
    BY <1>1 DEF Write

\* The edges a write can take, by the operation that takes it.
LEMMA WriteMoves ==
  ASSUME IInv, NEW w \in Workers, Write(w),
         NEW old, old = loan[req[w].loan].status,
         NEW new, new = To(req[w].op, old)
  PROVE  \/ req[w].op = "create" /\ old = "none" /\ new = "draft"
         \/ req[w].op = "update" /\ old = "draft" /\ new = "draft"
         \/ req[w].op = "submit" /\ old = "draft" /\ new = "pendingApproval"
         \/ req[w].op = "approve" /\ old = "pendingApproval" /\ new = "approved"
         \/ req[w].op = "reject" /\ old = "pendingApproval" /\ new = "draft"
         \/ /\ req[w].op = "cancel" /\ new = "cancelled"
            /\ old \in {"draft", "pendingApproval", "approved"}
         \/ req[w].op = "disburse" /\ old = "approved" /\ new = "active"
         \/ req[w].op = "settle" /\ old = "active" /\ new = "settled"
         \/ req[w].op = "exit" /\ old = "active" /\ new = "outstandingAtExit"
         \/ /\ req[w].op = "exit" /\ new = "cancelled"
            /\ old \in {"pendingApproval", "approved"}
  <1>1. req[w].op \in Ops
    BY WriteIsChecked DEF Requests
  <1>2. req[w].op = "create" => old = "none"
    BY WriteIsChecked DEF NoLoan
  <1>3. req[w].op # "create" => old \in From(req[w].op)
    BY WriteIsChecked DEF May
  <1> QED
    BY <1>1, <1>2, <1>3 DEF To, From, Ops, Live

\* A request keeps its place, or is the one that moved.
LEMMA WriteOthers ==
  ASSUME IInv, NEW w \in Workers, Write(w), NEW x \in Workers, Busy(x)'
  PROVE  x # w /\ req'[x] = req[x] /\ Busy(x) /\ req[x] \in Requests
  BY DEF Write, IInv, TypeOK, Busy, Idle

-----------------------------------------------------------------------------

\* A write keeps what the requests under way have checked: the version of
\* the document moves past theirs.
LEMMA WriteKeepsChecked ==
  ASSUME IInv, NEW w \in Workers, Write(w)
  PROVE  Checked'
  <1> SUFFICES ASSUME NEW x \in Workers, Busy(x)'
               PROVE  /\ req'[x].v <= loan'[req'[x].loan].v
                      /\ req'[x].op \in {"submit", "approve", "reject"} => req'[x].user \in Users
                      /\ req'[x].op \in {"create", "update"} => req'[x].terms \in Terms
                      /\ req'[x].v = loan'[req'[x].loan].v /\ req'[x].op # "create"
                           => May(req'[x].op, req'[x].user, loan'[req'[x].loan])
    BY DEF Checked, May
  <1>1. req'[x] = req[x] /\ Busy(x) /\ req[x] \in Requests
    BY WriteOthers
  <1>2. /\ req[x].v <= loan[req[x].loan].v
        /\ req[x].op \in {"submit", "approve", "reject"} => req[x].user \in Users
        /\ req[x].op \in {"create", "update"} => req[x].terms \in Terms
        /\ req[x].v = loan[req[x].loan].v /\ req[x].op # "create"
             => May(req[x].op, req[x].user, loan[req[x].loan])
    BY <1>1 DEF IInv, Checked
  <1>3. CASE req[x].loan # req[w].loan
    <2>1. loan'[req[x].loan] = loan[req[x].loan]
      BY <1>1, <1>3, WriteLeaves DEF Requests
    <2> QED
      BY <1>1, <1>2, <2>1
  <1>4. CASE req[x].loan = req[w].loan /\ req[w].op = "create"
    <2>1. loan[req[x].loan] = NoLoan
      BY <1>4, WriteIsChecked
    <2>2. loan'[req[x].loan].v = 0
      <3>1. loan'[req[x].loan] = Written(req[w])
        BY <1>1, <1>4, WriteLeaves DEF Requests
      <3> QED
        BY <1>4, <3>1 DEF Written
    <2>3. req[x].v = 0
      BY <1>1, <1>2, <2>1 DEF NoLoan, Requests
    <2>4. req[x].op = "create"
      <3> SUFFICES ASSUME req[x].op # "create" PROVE FALSE
        OBVIOUS
      <3>1. "none" \in From(req[x].op)
        BY <1>2, <2>1, <2>3 DEF NoLoan, May
      <3> QED
        BY <1>1, <3>1 DEF From, Requests, Ops, Live
    <2> QED
      BY <1>1, <1>2, <2>2, <2>3, <2>4
  <1>5. CASE req[x].loan = req[w].loan /\ req[w].op # "create"
    <2>1. loan'[req[x].loan].v = loan[req[x].loan].v + 1
      <3>1. loan'[req[x].loan] = Written(req[w])
        BY <1>1, <1>5, WriteLeaves DEF Requests
      <3> QED
        BY <1>5, <3>1 DEF Written
    <2>2. req[x].v \in Nat /\ loan[req[x].loan].v \in Nat
      BY <1>1 DEF Requests, IInv, TypeOK
    <2> QED
      BY <1>1, <1>2, <2>1, <2>2
  <1> QED
    BY <1>3, <1>4, <1>5

\* A write keeps the rules about who decided, and on what.
LEMMA WriteKeepsRules ==
  ASSUME IInv, NEW w \in Workers, Write(w)
  PROVE  HasSubmitter' /\ SecondPerson' /\ JudgedAsSubmitted'
  <1> SUFFICES ASSUME NEW l \in Loans
               PROVE  /\ loan'[l].status \in Live => loan'[l].submittedBy \in Users
                      /\ loan'[l].status \in Decided =>
                           /\ loan'[l].decidedBy \in Users
                           /\ loan'[l].submittedBy \in Users
                           /\ loan'[l].decidedBy # loan'[l].submittedBy
                      /\ loan'[l].status \in Live \cup Decided => loan'[l].terms = asked'[l]
    BY DEF HasSubmitter, SecondPerson, JudgedAsSubmitted
  <1>1. /\ loan[l].status \in Live => loan[l].submittedBy \in Users
        /\ loan[l].status \in Decided =>
             /\ loan[l].decidedBy \in Users
             /\ loan[l].submittedBy \in Users
             /\ loan[l].decidedBy # loan[l].submittedBy
        /\ loan[l].status \in Live \cup Decided => loan[l].terms = asked[l]
    BY DEF IInv, HasSubmitter, SecondPerson, JudgedAsSubmitted
  <1>2. asked \in [Loans -> Terms \cup {None}] /\ req[w] \in Requests
    BY WriteIsChecked DEF IInv, TypeOK
  <1>3. CASE l # req[w].loan
    <2>1. loan'[l] = loan[l]
      BY <1>3, WriteLeaves
    <2>2. asked'[l] = asked[l]
      BY <1>2, <1>3 DEF Write
    <2> QED
      BY <1>1, <2>1, <2>2
  <1>4. CASE l = req[w].loan
    <2> DEFINE q == req[w]
               old == loan[l].status
               new == To(q.op, old)
    <2>1. loan'[l] = Written(q)
      BY <1>4, WriteLeaves
    <2>2. /\ loan'[l].status = new
          /\ loan'[l].terms = IF q.op \in {"create", "update"} THEN q.terms ELSE loan[l].terms
          /\ loan'[l].submittedBy = IF q.op = "submit" THEN q.user ELSE loan[l].submittedBy
          /\ loan'[l].decidedBy = IF q.op \in {"approve", "reject"} THEN q.user
                                   ELSE loan[l].decidedBy
      BY <1>4, <2>1 DEF Written
    <2>3. asked'[l] = IF q.op = "submit" THEN loan[l].terms ELSE asked[l]
      BY <1>2, <1>4 DEF Write
    <2>4. q.op \in {"submit", "approve", "reject"} => q.user \in Users
      BY WriteIsChecked DEF IInv, Checked
    <2>5. q.op = "approve" => loan[l].submittedBy # q.user
      BY <1>4, WriteIsChecked DEF May
    <2>6. \/ q.op \in {"create", "update", "reject"} /\ new = "draft"
          \/ q.op = "submit" /\ new = "pendingApproval"
          \/ q.op = "approve" /\ old = "pendingApproval" /\ new = "approved"
          \/ q.op \in {"cancel", "exit"} /\ new = "cancelled"
          \/ q.op = "disburse" /\ old = "approved" /\ new = "active"
          \/ q.op = "settle" /\ old = "active" /\ new = "settled"
          \/ q.op = "exit" /\ old = "active" /\ new = "outstandingAtExit"
      BY <1>4, WriteMoves
    <2> HIDE DEF q, old, new
    <2>7. new \in Live => loan'[l].submittedBy \in Users
      BY <1>1, <2>2, <2>4, <2>6 DEF Live, Decided, old
    <2>8. new \in Decided => /\ loan'[l].decidedBy \in Users
                             /\ loan'[l].submittedBy \in Users
                             /\ loan'[l].decidedBy # loan'[l].submittedBy
      BY <1>1, <2>2, <2>4, <2>5, <2>6 DEF Live, Decided, old
    <2>9. new \in Live \cup Decided => loan'[l].terms = asked'[l]
      BY <1>1, <2>2, <2>3, <2>6 DEF Live, Decided, old
    <2> QED
      BY <2>2, <2>7, <2>8, <2>9
  <1> QED
    BY <1>3, <1>4

\* The invariant is inductive.
LEMMA RequestInduction == Spec => []IInv
<1>1. Init => IInv
  BY DEF Init, IInv, TypeOK, Checked, HasSubmitter, SecondPerson, JudgedAsSubmitted,
         NoLoan, Idle, Busy, Statuses, Live, Decided
<1>2. TypeOK' /\ IInv /\ [Next]_vars => IInv'
  <2> SUFFICES ASSUME TypeOK', IInv, [Next]_vars PROVE IInv'
    OBVIOUS
  <2>1. ASSUME NEW w \in Workers, NEW op \in Ops, NEW l \in Loans,
               NEW u \in Users \cup {None}, NEW t \in Terms \cup {None},
               Begin(w, op, l, u, t)
        PROVE  IInv'
    <3>1. Checked'
      <4> SUFFICES ASSUME NEW x \in Workers, Busy(x)'
                   PROVE  /\ req'[x].v <= loan[req'[x].loan].v
                          /\ req'[x].op \in {"submit", "approve", "reject"} => req'[x].user \in Users
                          /\ req'[x].op \in {"create", "update"} => req'[x].terms \in Terms
                          /\ req'[x].v = loan[req'[x].loan].v /\ req'[x].op # "create"
                               => May(req'[x].op, req'[x].user, loan[req'[x].loan])
        BY <2>1 DEF Begin, Checked, May
      <4>1. CASE x = w
        <5>1. req'[x] = [step |-> FirstStep(op), op |-> op, loan |-> l,
                         user |-> u, v |-> loan[l].v, terms |-> t]
          BY <2>1, <4>1 DEF Begin, IInv, TypeOK
        <5>2. loan[l].v \in Nat /\ May(op, u, loan[l])
          BY <2>1 DEF Begin, IInv, TypeOK
        <5>3. /\ op \in {"submit", "approve", "reject"} => u \in Users
              /\ op \in {"create", "update"} => t \in Terms
          BY <2>1 DEF Begin
        <5> QED
          BY <5>1, <5>2, <5>3
      <4>2. CASE x # w
        <5>1. req'[x] = req[x] /\ Busy(x)
          BY <2>1, <4>2 DEF Begin, IInv, TypeOK, Busy
        <5> QED
          BY <5>1 DEF IInv, Checked
      <4> QED
        BY <4>1, <4>2
    <3>2. HasSubmitter' /\ SecondPerson' /\ JudgedAsSubmitted'
      BY <2>1 DEF Begin, IInv, HasSubmitter, SecondPerson, JudgedAsSubmitted
    <3> QED
      BY <3>1, <3>2 DEF IInv
  <2>2. ASSUME NEW w \in Workers, CheckLive(w) \/ Refuse(w) PROVE IInv'
    <3>1. Checked'
      <4> SUFFICES ASSUME NEW x \in Workers, Busy(x)'
                   PROVE  /\ req'[x].v <= loan[req'[x].loan].v
                          /\ req'[x].op \in {"submit", "approve", "reject"} => req'[x].user \in Users
                          /\ req'[x].op \in {"create", "update"} => req'[x].terms \in Terms
                          /\ req'[x].v = loan[req'[x].loan].v /\ req'[x].op # "create"
                               => May(req'[x].op, req'[x].user, loan[req'[x].loan])
        BY <2>2 DEF CheckLive, Refuse, Checked, May
      <4>1. Busy(x) /\ req[x] \in Requests /\ (req'[x] = req[x] \/ req'[x] = [req[x] EXCEPT !.step = "write"])
        BY <2>2 DEF CheckLive, Refuse, Busy, IInv, TypeOK, Idle
      <4> QED
        BY <4>1 DEF IInv, Checked, Requests
    <3>2. HasSubmitter' /\ SecondPerson' /\ JudgedAsSubmitted'
      BY <2>2 DEF CheckLive, Refuse, IInv, HasSubmitter, SecondPerson, JudgedAsSubmitted
    <3> QED
      BY <3>1, <3>2 DEF IInv
  <2>3. ASSUME NEW w \in Workers, Write(w) PROVE IInv'
    BY <2>3, WriteKeepsChecked, WriteKeepsRules DEF IInv
  <2>4. CASE UNCHANGED vars
    BY <2>4 DEF vars, IInv, Checked, Busy, May, HasSubmitter, SecondPerson, JudgedAsSubmitted
  <2> QED
    BY <2>1, <2>2, <2>3, <2>4 DEF Next
<1> QED
  BY <1>1, <1>2, RequestTypes, PTL DEF Spec

-----------------------------------------------------------------------------

\* Two people: no interleaving of decisions, rejections and resubmissions
\* lets the submitter of a loan be its approver.
THEOREM TwoPeopleOnEveryLoan == Spec => []SecondPerson
<1>1. IInv => SecondPerson
  BY DEF IInv
<1> QED
  BY <1>1, RequestInduction, PTL

\* What is approved and paid out is what was submitted.
THEOREM ApprovedIsWhatWasSubmitted == Spec => []JudgedAsSubmitted
<1>1. IInv => JudgedAsSubmitted
  BY DEF IInv
<1> QED
  BY <1>1, RequestInduction, PTL

\* A step that moves a status takes one of the edges.
LEMMA StepTakesAnEdge ==
  ASSUME IInv, [Next]_vars, NEW l \in Loans, loan'[l].status # loan[l].status
  PROVE  <<loan[l].status, loan'[l].status>> \in Edges
  <1>1. PICK w \in Workers : Write(w)
    <2>1. ~ UNCHANGED loan
      OBVIOUS
    <2> QED
      BY <2>1 DEF Next, vars, Begin, CheckLive, Refuse
  <1>2. l = req[w].loan /\ loan'[l].status = To(req[w].op, loan[l].status)
    <2>1. loan'[l] = IF l = req[w].loan THEN Written(req[w]) ELSE loan[l]
      BY <1>1, WriteLeaves
    <2> QED
      BY <2>1 DEF Written
  <1> QED
    BY <1>1, <1>2, WriteMoves DEF Edges

\* Every loan keeps to the path of its life.
THEOREM LoansKeepToTheirPath == Spec => LoanPath
<1>1. IInv /\ [Next]_vars =>
        [\A l \in Loans : loan'[l].status # loan[l].status
                            => <<loan[l].status, loan'[l].status>> \in Edges]_vars
  BY StepTakesAnEdge
<1> QED
  BY <1>1, RequestInduction, PTL DEF Spec, LoanPath

-----------------------------------------------------------------------------

\* Only a submit makes a loan live.
LEMMA OnlySubmitsMakeLive ==
  ASSUME IInv, NEW w \in Workers, Write(w), NEW k \in Loans,
         loan'[k].status \in Live, loan[k].status \notin Live
  PROVE  k = req[w].loan /\ w \in Submitting
  <1>1. loan'[k] = IF k = req[w].loan THEN Written(req[w]) ELSE loan[k]
    BY WriteLeaves
  <1>2. k = req[w].loan /\ loan'[k].status = To(req[w].op, loan[k].status)
    BY <1>1 DEF Written
  <1>3. req[w].op = "submit"
    BY <1>2, WriteMoves DEF Live
  <1> QED
    BY <1>2, <1>3 DEF Submitting, Write

\* Loans that are live together were submitted together.
LEMMA WindowsInductive ==
  ASSUME IInv, Windows, OneLoanAtATime, [Next]_vars
  PROVE  Windows' /\ OneLoanAtATime'
  <1>1. ASSUME NEW w \in Workers, NEW op \in Ops, NEW l \in Loans,
               NEW u \in Users \cup {None}, NEW t \in Terms \cup {None},
               Begin(w, op, l, u, t)
        PROVE  Windows' /\ OneLoanAtATime'
    <2>1. \A x \in Workers : x \in Submitting' => x \in Submitting /\ req'[x] = req[x]
      BY <1>1 DEF Begin, Submitting, FirstStep, IInv, TypeOK
    <2>2. loan' = loan /\ together' = together
      BY <1>1 DEF Begin
    <2> QED
      BY <2>1, <2>2 DEF Windows, OneLoanAtATime, Submitting
  <1>2. ASSUME NEW w \in Workers, CheckLive(w) PROVE Windows' /\ OneLoanAtATime'
    <2>1. loan' = loan /\ together \subseteq together'
      BY <1>2 DEF CheckLive
    <2>2. ASSUME NEW x \in Workers, x \in Submitting'
          PROVE  \/ x \in Submitting /\ req'[x] = req[x]
                 \/ x = w /\ req'[x].loan = req[w].loan /\ req[w].op = "submit"
      BY <1>2, <2>2 DEF CheckLive, Submitting, IInv, TypeOK, Requests, Idle
    <2>3. \A x \in Submitting : req[w].op = "submit" => {req[w].loan, req[x].loan} \in together'
      BY <1>2 DEF CheckLive
    <2>4. \A k \in Loans : k # req[w].loan => loan[k].status \notin Live
      BY <1>2 DEF CheckLive, findLive
    <2>5. ASSUME NEW x \in Workers, NEW y \in Workers, x \in Submitting', y \in Submitting',
                 req'[x].loan # req'[y].loan
          PROVE  {req'[x].loan, req'[y].loan} \in together'
      BY <2>1, <2>2, <2>3, <2>5 DEF Windows
    <2>6. ASSUME NEW x \in Workers, x \in Submitting', NEW k \in Loans,
                 k # req'[x].loan, loan'[k].status \in Live
          PROVE  {req'[x].loan, k} \in together'
      BY <2>1, <2>2, <2>4, <2>6 DEF Windows
    <2>7. Submitting' \subseteq Workers
      BY DEF Submitting
    <2> QED
      BY <2>1, <2>5, <2>6, <2>7 DEF Windows, OneLoanAtATime
  <1>3. ASSUME NEW w \in Workers, Refuse(w) PROVE Windows' /\ OneLoanAtATime'
    <2>1. \A x \in Workers : x \in Submitting' => x \in Submitting /\ req'[x] = req[x]
      BY <1>3 DEF Refuse, Submitting, Idle, IInv, TypeOK
    <2>2. loan' = loan /\ together' = together
      BY <1>3 DEF Refuse
    <2> QED
      BY <2>1, <2>2 DEF Windows, OneLoanAtATime, Submitting
  <1>4. ASSUME NEW w \in Workers, Write(w) PROVE Windows' /\ OneLoanAtATime'
    <2>1. \A x \in Workers : x \in Submitting' => x \in Submitting /\ req'[x] = req[x]
      BY <1>4 DEF Write, Submitting, Idle, IInv, TypeOK
    <2>2. together' = together
      BY <1>4 DEF Write
    <2>3. \A k \in Loans : loan'[k].status \in Live =>
             loan[k].status \in Live \/ (k = req[w].loan /\ w \in Submitting)
      BY <1>4, OnlySubmitsMakeLive
    <2>4. ASSUME NEW x \in Workers, x \in Submitting', NEW k \in Loans,
                 k # req'[x].loan, loan'[k].status \in Live
          PROVE  {req'[x].loan, k} \in together'
      BY <2>1, <2>2, <2>3, <2>4 DEF Windows
    <2>5. ASSUME NEW j \in Loans, NEW k \in Loans, j # k,
                 loan'[j].status \in Live, loan'[k].status \in Live
          PROVE  {j, k} \in together'
      <3>1. {j, k} = {k, j}
        OBVIOUS
      <3> QED
        BY <2>2, <2>3, <2>5, <3>1 DEF Windows, OneLoanAtATime
    <2>6. Submitting' \subseteq Workers
      BY DEF Submitting
    <2> QED
      BY <2>1, <2>2, <2>4, <2>5, <2>6 DEF Windows, OneLoanAtATime
  <1>5. CASE UNCHANGED vars
    BY <1>5 DEF vars, Windows, OneLoanAtATime, Submitting
  <1> QED
    BY <1>1, <1>2, <1>3, <1>4, <1>5 DEF Next

\* Two loans of an employee are live at once only when their submits
\* overlapped: the query before the write is enough for calls that do not.
THEOREM OneLoanUnlessSubmitsOverlap == Spec => []OneLoanAtATime
<1>1. Init => Windows /\ OneLoanAtATime
  BY DEF Init, Windows, OneLoanAtATime, Submitting, NoLoan, Idle, Live
<1>2. IInv /\ Windows /\ OneLoanAtATime /\ [Next]_vars => Windows' /\ OneLoanAtATime'
  BY WindowsInductive
<1> QED
  BY <1>1, <1>2, RequestInduction, PTL DEF Spec
=============================================================================
