SPECIFICATION Spec
CONSTANTS
  l1 = l1
  l2 = l2
  Loans = {l1, l2}
  Users = {u1, u2}
  Workers = {w1, w2}
  Terms = {t1, t2}
  MaxVersion <- Lives
  None = None
SYMMETRY Sym
INVARIANTS TypeOK OneLoanAtATime SecondPerson JudgedAsSubmitted
PROPERTY LoanPath
CHECK_DEADLOCK FALSE
