---------------------------- MODULE LoanRequest ----------------------------
(***************************************************************************)
(* The loans of one employee from the draft to the end of their life:      *)
(* create, update, submit, decide and cancel of                            *)
(* apps/api/src/modules/hr/employee-loans/employee-loan.service.ts.        *)
(*                                                                         *)
(* Each operation reads the loan, checks it and writes it back with a      *)
(* filter on the version its caller had on the screen (updateById).  The   *)
(* rule "one loan at a time" is about several documents and no index holds *)
(* it, only a query before the write.  What happens to the instalments of  *)
(* an approved loan is the subject of LoanLedger; here it only moves the   *)
(* status.                                                                 *)
(***************************************************************************)
EXTENDS Naturals

CONSTANTS
  Loans,
  Users,
  Workers,    \* requests being served
  Terms,      \* principal, instalments, first period: what is asked for
  MaxVersion, \* bound: MaxVersion[l] writes of loan l
  None        \* null

ASSUME RequestAssumption == MaxVersion \in [Loans -> Nat] /\ None \notin Users

VARIABLES
  loan,      \* loan[l]: the document
  req,       \* req[w]: what request w has checked and does next
  asked,     \* history: asked[l] is what l said when it was last submitted
  together   \* history: the pairs of loans whose submits overlapped

vars == <<loan, req, asked, together>>

Live == {"pendingApproval", "approved", "active"}
Decided == {"approved", "active", "settled", "outstandingAtExit"}

Ops == {"create", "update", "submit", "approve", "reject", "cancel",
        "disburse", "settle", "exit"}

NoLoan == [status |-> "none", v |-> 0, terms |-> None, submittedBy |-> None,
           decidedBy |-> None]
Idle == [step |-> "idle"]

Init ==
  /\ loan = [l \in Loans |-> NoLoan]
  /\ req = [w \in Workers |-> Idle]
  /\ asked = [l \in Loans |-> None]
  /\ together = {}

-----------------------------------------------------------------------------
\* findLive(employeeId, excludeId): the loans already on their way.
findLive(l) == {k \in Loans \ {l} : loan[k].status \in Live}

\* Mutant: a loan can be withdrawn after the money has moved.
FromWhenever(op) ==
  CASE op = "create"               -> {"none"}
    [] op \in {"update", "submit"} -> {"draft"}
    [] op \in {"approve", "reject"} -> {"pendingApproval"}
    [] op = "cancel"               -> {"draft"} \cup Live
    [] op = "disburse"             -> {"approved"}
    [] OTHER                       -> {"active"}

\* The statuses an operation accepts ...
From(op) ==
  CASE op = "create"               -> {"none"}
    [] op \in {"update", "submit"} -> {"draft"}
    [] op \in {"approve", "reject"} -> {"pendingApproval"}
    [] op = "cancel"               -> {"draft", "pendingApproval", "approved"}
    [] op = "disburse"             -> {"approved"}
    [] op = "settle"               -> {"active"}
    [] op = "exit"                 -> Live

\* Mutant: a loan sent back gets a status of its own.
ToRejected(op, status) ==
  CASE op = "reject" -> "rejected" [] op = "submit" -> "pendingApproval" [] OTHER -> "draft"

\* ... and the one it writes.  An exit cancels what was never paid out.
To(op, status) ==
  CASE op \in {"create", "reject"} -> "draft"
    [] op = "update"               -> status
    [] op = "submit"               -> "pendingApproval"
    [] op = "approve"              -> "approved"
    [] op = "cancel"               -> "cancelled"
    [] op = "disburse"             -> "active"
    [] op = "settle"               -> "settled"
    [] op = "exit" -> IF status = "active" THEN "outstandingAtExit" ELSE "cancelled"

\* Mutant: the permission alone is taken for a second person.
MayAlone(op, u, doc) == doc.status \in From(op)

\* What is checked on the document that was read: the status and, for a
\* decision, that it is not the submitter's.
May(op, u, doc) ==
  /\ doc.status \in From(op)
  /\ op \in {"approve", "reject"} => doc.submittedBy # u

\* Mutant: create's check is taken to be enough.
FirstStepUnchecked(op) == IF op = "create" THEN "live" ELSE "write"

\* Where a request goes once the document has passed: create and submit look
\* for a live loan first.
FirstStep(op) == IF op \in {"create", "submit"} THEN "live" ELSE "write"

\* A request reads the loan.  The version it carries is one its caller has
\* seen; with an older one than the document's it could only fail, so it is
\* the document's.  Only some operations name their user or bring terms.
Begin(w, op, l, u, t) ==
  /\ req[w].step = "idle"
  /\ loan[l].v < MaxVersion[l]
  /\ u = None <=> op \notin {"submit", "approve", "reject"}
  /\ t = None <=> op \notin {"create", "update"}
  /\ May(op, u, loan[l])
  /\ req' = [req EXCEPT ![w] = [step |-> FirstStep(op), op |-> op, loan |-> l,
                                user |-> u, v |-> loan[l].v, terms |-> t]]
  /\ UNCHANGED <<loan, asked, together>>

\* The submits that have found no live loan and have not written yet.
Submitting == {x \in Workers : req[x].step = "write" /\ req[x].op = "submit"}

\* No other loan is live: go on, together with the submits under way.
CheckLive(w) ==
  LET q == req[w] IN
    /\ q.step = "live"
    /\ findLive(q.loan) = {}
    /\ req' = [req EXCEPT ![w].step = "write"]
    /\ together' = IF q.op = "submit"
                     THEN together \cup {{q.loan, req[x].loan} : x \in Submitting}
                     ELSE together
    /\ UNCHANGED <<loan, asked>>

\* A check fails: a live loan, terms that cannot be scheduled
\* (assertSchedulable), or a version that is no longer the current one.
Refuse(w) ==
  /\ req[w].step \in {"live", "write"}
  /\ req' = [req EXCEPT ![w] = Idle]
  /\ UNCHANGED <<loan, asked, together>>

\* Mutant: updateById without __v in its filter.
FreshAnyway(q) == loan[q.loan].v < MaxVersion[q.loan]

\* The filter of updateById; an insert has nothing to be stale against but
\* its own existence.
Fresh(q) == loan[q.loan].v = q.v /\ (q.op = "create" => loan[q.loan] = NoLoan)

Written(q) ==
  LET doc == loan[q.loan] IN
    [status      |-> To(q.op, doc.status),
     v           |-> IF q.op = "create" THEN 0 ELSE doc.v + 1,
     terms       |-> IF q.op \in {"create", "update"} THEN q.terms ELSE doc.terms,
     submittedBy |-> IF q.op = "submit" THEN q.user ELSE doc.submittedBy,
     decidedBy   |-> IF q.op \in {"approve", "reject"} THEN q.user ELSE doc.decidedBy]

Write(w) ==
  LET q == req[w] IN
    /\ q.step = "write"
    /\ Fresh(q)
    /\ loan' = [loan EXCEPT ![q.loan] = Written(q)]
    /\ asked' = IF q.op = "submit" THEN [asked EXCEPT ![q.loan] = loan[q.loan].terms]
                ELSE asked
    /\ req' = [req EXCEPT ![w] = Idle]
    /\ UNCHANGED together

-----------------------------------------------------------------------------
Next ==
  \E w \in Workers :
    \/ \E op \in Ops, l \in Loans, u \in Users \cup {None}, t \in Terms \cup {None} :
         Begin(w, op, l, u, t)
    \/ CheckLive(w) \/ Refuse(w) \/ Write(w)

Spec == Init /\ [][Next]_vars

-----------------------------------------------------------------------------
(***************************************************************************)
(* Properties.                                                             *)
(***************************************************************************)

Statuses == {"none", "draft", "cancelled"} \cup Live \cup Decided

Requests == [step : {"live", "write"}, op : Ops, loan : Loans,
             user : Users \cup {None}, v : Nat, terms : Terms \cup {None}]

\* The documents and the requests under way have the fields of their schema.
TypeOK ==
  /\ loan \in [Loans -> [status : Statuses, v : Nat, terms : Terms \cup {None},
                         submittedBy : Users \cup {None},
                         decidedBy : Users \cup {None}]]
  /\ req \in [Workers -> Requests \cup {Idle}]
  /\ asked \in [Loans -> Terms \cup {None}]
  /\ together \subseteq SUBSET Loans

\* "one loan at a time" (create and submit): two loans of an employee are
\* live at once only if the two submits overlapped.  Sequential calls can
\* never get there, however drafts, rejections and resubmissions alternate.
OneLoanAtATime ==
  \A l, k \in Loans :
    l # k /\ loan[l].status \in Live /\ loan[k].status \in Live => {l, k} \in together

\* "A SECOND person": whoever approved a loan is not who submitted it,
\* although the check is made on a loan read before the write and the loan
\* may be rejected and submitted again by somebody else in between.
SecondPerson ==
  \A l \in Loans : loan[l].status \in Decided =>
    /\ loan[l].decidedBy \in Users
    /\ loan[l].submittedBy \in Users
    /\ loan[l].decidedBy # loan[l].submittedBy

\* "once submitted, the request is somebody else's to judge": what is pending,
\* approved or paid out is what was submitted; no edit that was under way
\* gets in behind the submission.
JudgedAsSubmitted ==
  \A l \in Loans : loan[l].status \in Live \cup Decided => loan[l].terms = asked[l]

\* The steps of a loan's life.
Edges ==
  {<<"none", "draft">>, <<"draft", "pendingApproval">>, <<"draft", "cancelled">>,
   <<"pendingApproval", "approved">>, <<"pendingApproval", "draft">>,
   <<"pendingApproval", "cancelled">>, <<"approved", "active">>,
   <<"approved", "cancelled">>, <<"active", "settled">>,
   <<"active", "outstandingAtExit">>}

\* A request that waited between its check and its write never takes a loan
\* off this path: nothing withdrawn, settled or paid out comes back.
LoanPath ==
  [][\A l \in Loans : loan'[l].status # loan[l].status
                        => <<loan[l].status, loan'[l].status>> \in Edges]_vars
=============================================================================
