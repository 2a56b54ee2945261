-------------------------- MODULE LoanLedgerProofs --------------------------
(***************************************************************************)
(* Proofs about LoanLedger, for any number of requests and runs that       *)
(* overlap and die anywhere.                                               *)
(*                                                                         *)
(* Every step keeps what the others rely on (Keeps): the version of the    *)
(* loan only grows, slips and ledger rows are never rewritten, and an      *)
(* instalment that exists keeps its month and its amount.  What a request  *)
(* has read (Sound) stays true under such steps, and the properties follow *)
(* from what it has read when it writes.                                   *)
(*                                                                         *)
(* For one request at a time, what is repaid and what may still be never   *)
(* come to more than the principal (LoanBudget), and what the payslips     *)
(* took is in the ledger or about to be (SlipBook).                        *)
(*                                                                         *)
(* The schedule arithmetic is a sum and a backward walk: the recursive     *)
(* functions behind them are shown to exist and to be what the definitions *)
(* choose, and what they compute is then found by going along the list.    *)
(***************************************************************************)
EXTENDS LoanLedger, FoldTheorems, TLAPS

-----------------------------------------------------------------------------
\* A function from 1 to n is a sequence.
LEMMA FunctionIsSeq ==
  ASSUME NEW R, NEW n \in Nat, NEW q \in [1..n -> R]
  PROVE  q \in Seq(R)
OBVIOUS

\* A longer interval has one more member.
LEMMA IntervalGrows ==
  ASSUME NEW n \in Nat
  PROVE  1..(n + 1) = (1..n) \cup {n + 1} /\ n + 1 \notin 1..n
OBVIOUS

\* The months one after the other: the function periodsFrom is.
Months(g, first, n) ==
  g = [i \in 1..n |-> IF i = 1 THEN first ELSE nextPeriod(g[i - 1])]

LEMMA MonthsExist ==
  ASSUME NEW first, NEW n \in Nat
  PROVE  \E g : Months(g, first, n)
<1> DEFINE Good == {k \in Nat : \E g : Months(g, first, k)}
<1>1. 0 \in Good
  <2> DEFINE g == [i \in 1..0 |-> IF i = 1 THEN first ELSE nextPeriod(<<>>)]
  <2>1. Months(g, first, 0)
    BY DEF Months
  <2> QED BY <2>1
<1>2. ASSUME NEW k \in Good PROVE k + 1 \in Good
  <2>1. PICK g : Months(g, first, k)
    OBVIOUS
  <2> DEFINE next(i) == IF i = 1 THEN first ELSE nextPeriod(g[i - 1])
             h == [i \in 1..(k + 1) |-> next(i)]
  <2>2. \A i \in 1..k : g[i] = next(i)
    BY <2>1 DEF Months
  <2>3. \A i \in 1..k : h[i] = g[i]
    BY <2>2
  <2>4. \A i \in 1..(k + 1) : h[i] = IF i = 1 THEN first ELSE nextPeriod(h[i - 1])
    <3> SUFFICES ASSUME NEW i \in 1..(k + 1)
                 PROVE  h[i] = IF i = 1 THEN first ELSE nextPeriod(h[i - 1])
      OBVIOUS
    <3>1. h[i] = next(i)
      OBVIOUS
    <3>2. i # 1 => h[i - 1] = g[i - 1]
      BY <2>3
    <3> HIDE DEF h
    <3> QED BY <3>1, <3>2
  <2>5. Months(h, first, k + 1)
    <3>1. h = [i \in 1..(k + 1) |-> h[i]]
      OBVIOUS
    <3> HIDE DEF h
    <3> QED BY <2>4, <3>1 DEF Months
  <2> HIDE DEF h
  <2> QED BY <2>5
<1>3. Good = Nat
  <2>1. Good \in SUBSET Nat
    OBVIOUS
  <2> HIDE DEF Good
  <2> QED BY <1>1, <1>2, <2>1, NaturalInduction
<1> QED BY <1>3

LEMMA PeriodsAreMonths ==
  ASSUME NEW first, NEW n \in Nat
  PROVE  Months(periodsFrom(first, n), first, n)
<1> DEFINE at == CHOOSE g : g = [i \in 1..n |-> IF i = 1 THEN first ELSE nextPeriod(g[i - 1])]
<1>1. at = [i \in 1..n |-> IF i = 1 THEN first ELSE nextPeriod(at[i - 1])]
  BY MonthsExist DEF Months
<1>2. periodsFrom(first, n) = [i \in 1..n |-> at[i]]
  BY DEF periodsFrom
<1> HIDE DEF at
<1>3. at = [i \in 1..n |-> at[i]]
  BY <1>1
<1> QED BY <1>1, <1>2, <1>3 DEF Months

\* A longer list of months begins with the shorter one.
LEMMA MonthsAgree ==
  ASSUME NEW first, NEW m \in Nat, NEW n \in Nat, m <= n, NEW i \in 1..m
  PROVE  periodsFrom(first, m)[i] = periodsFrom(first, n)[i]
<1> DEFINE p(k) == periodsFrom(first, m)[k]
           q(k) == periodsFrom(first, n)[k]
           Good == {k \in Nat : k \in 1..m => p(k) = q(k)}
<1>1. \A k \in 1..m : p(k) = IF k = 1 THEN first ELSE nextPeriod(p(k - 1))
  BY PeriodsAreMonths DEF Months
<1>2. \A k \in 1..n : q(k) = IF k = 1 THEN first ELSE nextPeriod(q(k - 1))
  BY PeriodsAreMonths DEF Months
<1> HIDE DEF p, q
<1>3. 0 \in Good
  OBVIOUS
<1>4. ASSUME NEW k \in Good PROVE k + 1 \in Good
  <2> SUFFICES ASSUME k + 1 \in 1..m PROVE p(k + 1) = q(k + 1)
    OBVIOUS
  <2>1. p(k + 1) = IF k + 1 = 1 THEN first ELSE nextPeriod(p(k + 1 - 1))
    BY <1>1
  <2>2. q(k + 1) = IF k + 1 = 1 THEN first ELSE nextPeriod(q(k + 1 - 1))
    BY <1>2
  <2>3. k + 1 # 1 => p(k) = q(k)
    OBVIOUS
  <2> QED BY <2>1, <2>2, <2>3
<1>5. Good = Nat
  <2>1. Good \in SUBSET Nat
    OBVIOUS
  <2> HIDE DEF Good
  <2> QED BY <1>3, <1>4, <2>1, NaturalInduction
<1> QED BY <1>5 DEF p, q

\* Consecutive months: of a real calendar, and numbered without a gap.
LEMMA MonthsConsecutive ==
  ASSUME NEW first \in Nat \X (1..12), NEW n \in Nat, NEW i \in 1..n
  PROVE  /\ periodsFrom(first, n)[i] \in Nat \X (1..12)
         /\ LET p == periodsFrom(first, n)[i]
            IN  12 * p[1] + p[2] = 12 * first[1] + first[2] + i - 1
<1> DEFINE q(k) == periodsFrom(first, n)[k]
           at(p, k) == p \in Nat \X (1..12) /\ 12 * p[1] + p[2] = 12 * first[1] + first[2] + k - 1
           Good == {k \in Nat : k \in 1..n => at(q(k), k)}
<1>1. \A k \in 1..n : q(k) = IF k = 1 THEN first ELSE nextPeriod(q(k - 1))
  BY PeriodsAreMonths DEF Months
<1> HIDE DEF q
<1>2. 0 \in Good
  OBVIOUS
<1>3. ASSUME NEW k \in Good PROVE k + 1 \in Good
  <2> SUFFICES ASSUME k + 1 \in 1..n PROVE at(q(k + 1), k + 1)
    OBVIOUS
  <2>1. q(k + 1) = IF k + 1 = 1 THEN first ELSE nextPeriod(q(k + 1 - 1))
    BY <1>1
  <2>2. CASE k = 0
    <3>1. q(k + 1) = first
      BY <2>1, <2>2
    <3> QED BY <2>2, <3>1
  <2>3. CASE k # 0
    <3>1. at(q(k), k)
      BY <2>3
    <3>2. q(k + 1) = nextPeriod(q(k))
      BY <2>1, <2>3
    <3>3. PICK y \in Nat, m \in 1..12 : q(k) = <<y, m>>
      BY <3>1
    <3>4. q(k + 1) = IF m = 12 THEN <<y + 1, 1>> ELSE <<y, m + 1>>
      BY <3>2, <3>3 DEF nextPeriod
    <3>5. 12 * y + m = 12 * first[1] + first[2] + k - 1
      BY <3>1, <3>3
    <3>6. CASE m = 12
      BY <3>4, <3>5, <3>6
    <3>7. CASE m # 12
      BY <3>4, <3>5, <3>7
    <3> QED BY <3>6, <3>7
  <2> QED BY <2>2, <2>3
<1>4. Good = Nat
  <2>1. Good \in SUBSET Nat
    OBVIOUS
  <2> HIDE DEF Good
  <2> QED BY <1>2, <1>3, <2>1, NaturalInduction
<1> QED BY <1>4 DEF q

-----------------------------------------------------------------------------
\* Rows with an amount that may be set to any other.
Payable(R) ==
  \A r \in R : /\ r.amount \in Nat
               /\ \A n \in Nat : /\ [r EXCEPT !.amount = n] \in R
                                 /\ [r EXCEPT !.amount = n].amount = n

Amounts(rows) == [i \in DOMAIN rows |-> rows[i].amount]

LEMMA DomainFinite ==
  ASSUME NEW R, NEW rows \in Seq(R)
  PROVE  /\ Len(rows) \in Nat /\ DOMAIN rows = 1..Len(rows) /\ IsFiniteSet(DOMAIN rows)
         /\ \A i \in DOMAIN rows : rows[i] \in R
  BY FS_Interval

\* A fold from the right takes the rows from the first one on.
LEMMA Leftmost ==
  ASSUME NEW n \in Nat, NEW s \in SUBSET (1..n), s # {}
  PROVE  Min(s) \in s /\ \A i \in s : Min(s) <= i
<1>1. s \in SUBSET Nat
  OBVIOUS
<1> QED BY <1>1, LeastNatural

-----------------------------------------------------------------------------
\* totalMinor is the sum of the amounts.
First(n) == [s \in SUBSET (1..n) |-> Min(s)]
Adds(rows) == [s \in SUBSET (DOMAIN rows) |-> [v \in Int |-> rows[Min(s)].amount + v]]

LEMMA TotalRecursion ==
  ASSUME NEW R, \A r \in R : r.amount \in Int, NEW rows \in Seq(R)
  PROVE  Recursion(DOMAIN rows, Int, 0, First(Len(rows)), Adds(rows))
<1>1. /\ Len(rows) \in Nat /\ DOMAIN rows = 1..Len(rows) /\ IsFiniteSet(DOMAIN rows)
      /\ \A i \in DOMAIN rows : rows[i].amount \in Int
  BY DomainFinite
<1>2. ASSUME NEW s \in SUBSET (DOMAIN rows), s # {}
      PROVE  /\ First(Len(rows))[s] \in s
             /\ \A v \in Int : Adds(rows)[s][v] \in Int
  <2>1. Min(s) \in s
    BY <1>1, <1>2, Leftmost
  <2> QED BY <1>1, <2>1 DEF First, Adds
<1> QED BY <1>1, <1>2 DEF Recursion

LEMMA TotalIsRecursion ==
  ASSUME NEW R, \A r \in R : r.amount \in Int, NEW rows \in Seq(R),
         NEW g, Unrolls(g, DOMAIN rows, Int, 0, First(Len(rows)), Adds(rows))
  PROVE  totalMinor(rows) = g[DOMAIN rows]
<1> DEFINE iter == CHOOSE h : h = [s \in SUBSET (DOMAIN rows) |-> IF s = {} THEN 0
                      ELSE rows[Min(s)].amount + h[s \ {Min(s)}]]
<1>0. DOMAIN rows = 1..Len(rows)
  BY DomainFinite
<1>1. totalMinor(rows) = iter[DOMAIN rows]
  BY DEF totalMinor, FoldRight, MapThenFoldSet
<1>2. g = [s \in SUBSET (DOMAIN rows) |-> IF s = {} THEN 0
                      ELSE rows[Min(s)].amount + g[s \ {Min(s)}]]
  <2>1. g = [s \in SUBSET (DOMAIN rows) |-> g[s]]
    BY DEF Unrolls
  <2>2. ASSUME NEW s \in SUBSET (DOMAIN rows)
        PROVE  g[s] = IF s = {} THEN 0 ELSE rows[Min(s)].amount + g[s \ {Min(s)}]
    <3>1. CASE s = {}
      BY <3>1 DEF Unrolls
    <3>2. CASE s # {}
      <4>1. g[s] = Adds(rows)[s][g[s \ {Min(s)}]]
        BY <1>0, <3>2 DEF Unrolls, First
      <4>2. g[s \ {Min(s)}] \in Int
        BY DEF Unrolls
      <4> QED BY <3>2, <4>1, <4>2 DEF Adds
    <3> QED BY <3>1, <3>2
  <2> QED BY <2>1, <2>2
<1>3. iter = [s \in SUBSET (DOMAIN rows) |-> IF s = {} THEN 0
                      ELSE rows[Min(s)].amount + iter[s \ {Min(s)}]]
  BY <1>2
<1> HIDE DEF iter
<1>4. iter = [s \in SUBSET (DOMAIN rows) |-> iter[s]] /\ iter[{}] = 0
  BY <1>3
<1>5. ASSUME NEW s \in SUBSET (DOMAIN rows), s # {},
             iter[s \ {First(Len(rows))[s]}] \in Int
      PROVE  iter[s] = Adds(rows)[s][iter[s \ {First(Len(rows))[s]}]]
  BY <1>0, <1>3, <1>5 DEF Adds, First
<1>6. Recursion(DOMAIN rows, Int, 0, First(Len(rows)), Adds(rows))
  BY TotalRecursion
<1>7. Follows(iter, DOMAIN rows, Int, 0, First(Len(rows)), Adds(rows))
  BY <1>4, <1>5 DEF Follows
<1>8. iter = g
  BY <1>6, <1>7, RecursionUnique
<1> QED BY <1>1, <1>8

LEMMA TotalIsSum ==
  ASSUME NEW R, \A r \in R : r.amount \in Int, NEW rows \in Seq(R)
  PROVE  totalMinor(rows) = SumFunctionOnSet(Amounts(rows), DOMAIN rows)
<1>1. /\ Len(rows) \in Nat /\ DOMAIN rows = 1..Len(rows) /\ IsFiniteSet(DOMAIN rows)
      /\ \A i \in DOMAIN rows : rows[i].amount \in Int
  BY DomainFinite
<1>2. PICK g : Unrolls(g, DOMAIN rows, Int, 0, First(Len(rows)), Adds(rows))
  BY TotalRecursion, RecursionExists
<1>3. totalMinor(rows) = g[DOMAIN rows]
  BY <1>2, TotalIsRecursion
<1> DEFINE sum(T) == SumFunctionOnSet(Amounts(rows), T)
           Good == {T \in SUBSET (DOMAIN rows) : g[T] = sum(T)}
<1>4. \A i \in DOMAIN rows : Amounts(rows)[i] = rows[i].amount
  BY DEF Amounts
<1>5. ASSUME NEW T \in SUBSET (DOMAIN rows), \A U \in SUBSET T : U # T => U \in Good
      PROVE  T \in Good
  <2>1. CASE T = {}
    BY <1>2, <2>1, SumEmpty DEF Unrolls
  <2>2. CASE T # {}
    <3>1. Min(T) \in T /\ Min(T) \in DOMAIN rows
      BY <1>1, <2>2, Leftmost
    <3>2. PICK U : U = T \ {Min(T)}
      OBVIOUS
    <3>3. U \in SUBSET T /\ U # T
      BY <3>1, <3>2
    <3>4. g[U] = sum(U) /\ g[U] \in Int
      BY <1>2, <1>5, <3>3 DEF Unrolls
    <3>5. g[T] = rows[Min(T)].amount + g[U]
      <4>1. g[T] = Adds(rows)[T][g[U]]
        BY <1>1, <1>2, <2>2, <3>2 DEF Unrolls, First
      <4> QED BY <3>4, <4>1 DEF Adds
    <3>6. IsFiniteSet(T)
      BY <1>1, FS_Subset
    <3>7. \A i \in T : Amounts(rows)[i] \in Int
      BY <1>1, <1>4
    <3>8. sum(T) = rows[Min(T)].amount + sum(U)
      <4>1. PICK a, x : a = Amounts(rows) /\ x = Min(T)
        OBVIOUS
      <4>2. x \in T /\ (\A i \in T : a[i] \in Int) /\ a[x] = rows[x].amount
        BY <1>4, <3>1, <3>7, <4>1
      <4>3. SumFunctionOnSet(a, T) = a[x] + SumFunctionOnSet(a, T \ {x})
        BY <3>6, <4>2, SumTakeOut
      <4> QED BY <3>2, <4>1, <4>2, <4>3
    <3> QED BY <3>4, <3>5, <3>8
  <2> QED BY <2>1, <2>2
<1>6. Good = SUBSET (DOMAIN rows)
  <2>1. Good \in SUBSET (SUBSET (DOMAIN rows))
    OBVIOUS
  <2> HIDE DEF Good
  <2> QED BY <1>1, <1>5, <2>1, FiniteDescent
<1> QED BY <1>3, <1>6

-----------------------------------------------------------------------------
\* What the provers need of products.
LEMMA DistributesOver ==
  \A a \in Int, b \in Int : a * b \in Int /\ a * (b + 1) = a * b + a /\ a * (b - 1) = a * b - a
  OBVIOUS

\* As many equal terms.
LEMMA SumEqual ==
  ASSUME NEW n \in Nat, NEW c \in Int, NEW f, \A i \in 1..n : f[i] = c
  PROVE  SumFunctionOnSet(f, 1..n) = c * n
<1> DEFINE sum(k) == SumFunctionOnSet(f, 1..k)
           Good == {k \in Nat : k <= n => sum(k) = c * k}
<1>1. 0 \in Good
  <2>1. 1..0 = {}
    OBVIOUS
  <2>2. sum(0) = 0
    BY <2>1, SumEmpty
  <2> QED BY <2>2
<1>2. ASSUME NEW k \in Good PROVE k + 1 \in Good
  <2> SUFFICES ASSUME k + 1 <= n PROVE sum(k + 1) = c * (k + 1)
    OBVIOUS
  <2>1. sum(k) = c * k /\ c * k \in Int
    OBVIOUS
  <2>2. 1..(k + 1) = (1..k) \cup {k + 1} /\ k + 1 \notin 1..k
    OBVIOUS
  <2>3. IsFiniteSet(1..k)
    BY FS_Interval
  <2>4. (\A i \in 1..k : f[i] \in Int) /\ f[k + 1] = c
    OBVIOUS
  <2>5. SumFunctionOnSet(f, (1..k) \cup {k + 1}) = f[k + 1] + sum(k)
    BY <2>2, <2>3, <2>4, SumAdd
  <2>6. c * (k + 1) = c * k + c
    BY DistributesOver
  <2>7. sum(k + 1) = c + sum(k)
    BY <2>2, <2>4, <2>5
  <2> QED BY <2>1, <2>6, <2>7
<1>3. Good = Nat
  <2>1. Good \in SUBSET Nat
    OBVIOUS
  <2> HIDE DEF Good
  <2> QED BY <1>1, <1>2, <2>1, NaturalInduction
<1> QED BY <1>3

LEMMA Division ==
  ASSUME NEW a \in Nat, NEW b \in Nat, b >= 1, a >= b
  PROVE  a \div b \in Nat /\ a \div b >= 1 /\ a - (a \div b) * b \in 0..(b - 1)
  OBVIOUS

\* The rows generateSchedule makes.
Splits(rows, principal, count, first, base) ==
  /\ base \in Nat /\ base >= 1
  /\ principal - base * count \in 0..(count - 1)
  /\ rows = [i \in 1..count |-> rows[i]]
  /\ Len(rows) = count
  /\ \A i \in 1..count :
       /\ rows[i] = [seq |-> i, period |-> periodsFrom(first, count)[i], amount |-> rows[i].amount]
       /\ rows[i].amount \in Nat /\ rows[i].amount >= 1
       /\ i < count => rows[i].amount = base
       /\ i = count => rows[i].amount = base + (principal - base * count)

LEMMA ScheduleRows ==
  ASSUME NEW principal \in Nat, NEW count \in Nat, Schedulable(principal, count), NEW first,
         NEW rows, rows = generateSchedule(principal, count, first),
         NEW base, base = principal \div count
  PROVE  Splits(rows, principal, count, first, base)
<1>1. base \in Nat /\ base >= 1 /\ principal - base * count \in 0..(count - 1)
  BY Division DEF Schedulable
<1>2. PICK rest : rest = principal - base * count
  OBVIOUS
<1>3. rows = [i \in 1..count |->
         [seq |-> i, period |-> periodsFrom(first, count)[i],
          amount |-> IF i = count THEN base + rest ELSE base]]
  BY <1>2 DEF generateSchedule
<1>4. rows = [i \in 1..count |-> rows[i]] /\ Len(rows) = count
  BY <1>3
<1>5. ASSUME NEW i \in 1..count
      PROVE  /\ rows[i] = [seq |-> i, period |-> periodsFrom(first, count)[i], amount |-> rows[i].amount]
             /\ rows[i].amount \in Nat /\ rows[i].amount >= 1
             /\ i < count => rows[i].amount = base
             /\ i = count => rows[i].amount = base + rest
  BY <1>1, <1>2, <1>3
<1> QED BY <1>1, <1>2, <1>4, <1>5 DEF Splits

\* The instalments add up to the principal.
LEMMA ScheduleAddsUp ==
  ASSUME NEW principal \in Nat, NEW count \in Nat, Schedulable(principal, count), NEW first
  PROVE  totalMinor(generateSchedule(principal, count, first)) = principal
<1>0. PICK base : base = principal \div count
  OBVIOUS
<1>1. PICK rows : rows = generateSchedule(principal, count, first)
  OBVIOUS
<1>2. PICK R : R = {rows[i] : i \in 1..count}
  OBVIOUS
<1>3. /\ base \in Nat
      /\ rows = [i \in 1..count |-> rows[i]]
      /\ Len(rows) = count
      /\ \A i \in 1..count :
           /\ rows[i].amount \in Nat
           /\ i < count => rows[i].amount = base
           /\ i = count => rows[i].amount = base + (principal - base * count)
  <2>1. Splits(rows, principal, count, first, base)
    BY <1>0, <1>1, ScheduleRows
  <2> QED BY <2>1 DEF Splits
<1>4. rows \in Seq(R) /\ \A r \in R : r.amount \in Int
  BY <1>2, <1>3
<1>5. totalMinor(rows) = SumFunctionOnSet(Amounts(rows), 1..count)
  BY <1>3, <1>4, TotalIsSum
<1>6. \A i \in 1..count : Amounts(rows)[i] = rows[i].amount
  BY <1>3 DEF Amounts
<1>7. count >= 1
  BY DEF Schedulable
<1>8. SumFunctionOnSet(Amounts(rows), 1..(count - 1)) = base * (count - 1)
  <2>1. \A i \in 1..(count - 1) : Amounts(rows)[i] = base
    BY <1>3, <1>6
  <2>2. count - 1 \in Nat /\ base \in Int
    BY <1>3, <1>7
  <2> QED BY <2>1, <2>2, SumEqual
<1>10. Amounts(rows)[count] = base + (principal - base * count) /\ Amounts(rows)[count] \in Int
  BY <1>3, <1>6, <1>7
<1>11. base * (count - 1) = base * count - base /\ base * count \in Int
  BY <1>3, DistributesOver
<1>9. SumFunctionOnSet(Amounts(rows), 1..count)
        = Amounts(rows)[count] + SumFunctionOnSet(Amounts(rows), 1..(count - 1))
  <2>1. 1..count = (1..(count - 1)) \cup {count} /\ count \notin 1..(count - 1) /\ count \in 1..count
    BY <1>7
  <2>2. IsFiniteSet(1..(count - 1))
    BY <1>7, FS_Interval
  <2>3. (\A i \in 1..(count - 1) : Amounts(rows)[i] \in Int) /\ Amounts(rows)[count] \in Int
    <3>1. \A i \in 1..count : Amounts(rows)[i] \in Int
      BY <1>3, <1>6
    <3> QED BY <2>1, <3>1
  <2>4. SumFunctionOnSet(Amounts(rows), (1..(count - 1)) \cup {count})
          = Amounts(rows)[count] + SumFunctionOnSet(Amounts(rows), 1..(count - 1))
    BY <2>1, <2>2, <2>3, SumAdd
  <2> QED BY <2>1, <2>4
<1> QED BY <1>1, <1>3, <1>5, <1>8, <1>9, <1>10, <1>11

-----------------------------------------------------------------------------
\* What the fold of accelerateTail carries: the extra that is left, and the
\* months kept so far.
Carry(R) == [left : Nat, tail : Seq(R)]

LEMMA AbsorbSteps ==
  ASSUME NEW R, Payable(R), NEW r \in R, NEW acc \in Carry(R)
  PROVE  /\ acc.left >= r.amount =>
              Absorb(r, acc) = [left |-> acc.left - r.amount, tail |-> acc.tail]
         /\ acc.left < r.amount =>
              Absorb(r, acc) = [left |-> 0, tail |-> <<[r EXCEPT !.amount = r.amount - acc.left]>> \o acc.tail]
         /\ Absorb(r, acc) \in Carry(R)
<1>1. r.amount \in Nat /\ acc.left \in Nat /\ acc.tail \in Seq(R)
  BY DEF Payable, Carry
<1>2. CASE acc.left >= r.amount
  <2>1. Absorb(r, acc) = [acc EXCEPT !.left = acc.left - r.amount]
    BY <1>2 DEF Absorb
  <2>2. [acc EXCEPT !.left = acc.left - r.amount] = [left |-> acc.left - r.amount, tail |-> acc.tail]
    BY DEF Carry
  <2>3. acc.left - r.amount \in Nat
    BY <1>1, <1>2
  <2> QED BY <1>1, <1>2, <2>1, <2>2, <2>3 DEF Carry
<1>3. CASE acc.left < r.amount
  <2>1. PICK k : k = [r EXCEPT !.amount = r.amount - acc.left]
    OBVIOUS
  <2>2. Absorb(r, acc) = [left |-> 0, tail |-> <<k>> \o acc.tail]
    BY <1>1, <1>3, <2>1 DEF Absorb
  <2>3. r.amount - acc.left \in Nat
    BY <1>1, <1>3
  <2>4. k \in R
    BY <2>1, <2>3 DEF Payable
  <2>5. <<k>> \o acc.tail \in Seq(R)
    BY <1>1, <2>4
  <2> QED BY <1>1, <1>3, <2>1, <2>2, <2>5 DEF Carry
<1> QED BY <1>1, <1>2, <1>3

Absorbs(R, later) ==
  [s \in SUBSET (DOMAIN later) |-> [acc \in Carry(R) |-> Absorb(later[Min(s)], acc)]]
Whole(extra) == [left |-> extra, tail |-> <<>>]

LEMMA AbsorbRecursion ==
  ASSUME NEW R, Payable(R), NEW later \in Seq(R), NEW extra \in Nat
  PROVE  Recursion(DOMAIN later, Carry(R), Whole(extra), First(Len(later)), Absorbs(R, later))
<1>1. /\ Len(later) \in Nat /\ DOMAIN later = 1..Len(later) /\ IsFiniteSet(DOMAIN later)
      /\ \A i \in DOMAIN later : later[i] \in R
  BY DomainFinite
<1>2. ASSUME NEW s \in SUBSET (DOMAIN later), s # {}
      PROVE  /\ First(Len(later))[s] \in s
             /\ \A v \in Carry(R) : Absorbs(R, later)[s][v] \in Carry(R)
  <2>1. Min(s) \in s
    BY <1>1, <1>2, Leftmost
  <2>2. later[Min(s)] \in R
    BY <1>1, <2>1
  <2>3. \A v \in Carry(R) : Absorb(later[Min(s)], v) \in Carry(R)
    BY <2>2, AbsorbSteps
  <2> QED BY <1>1, <2>1, <2>3 DEF First, Absorbs
<1>3. Whole(extra) \in Carry(R)
  BY DEF Whole, Carry
<1> QED BY <1>1, <1>2, <1>3 DEF Recursion

LEMMA AbsorbIsRecursion ==
  ASSUME NEW R, Payable(R), NEW later \in Seq(R), NEW extra \in Nat, NEW g,
         Unrolls(g, DOMAIN later, Carry(R), Whole(extra), First(Len(later)), Absorbs(R, later))
  PROVE  FoldRight(Absorb, later, Whole(extra)) = g[DOMAIN later]
<1> DEFINE iter == CHOOSE h : h = [s \in SUBSET (DOMAIN later) |-> IF s = {} THEN Whole(extra)
                      ELSE Absorb(later[Min(s)], h[s \ {Min(s)}])]
<1>0. DOMAIN later = 1..Len(later)
  BY DomainFinite
<1>1. FoldRight(Absorb, later, Whole(extra)) = iter[DOMAIN later]
  BY DEF FoldRight, MapThenFoldSet
<1>2. g = [s \in SUBSET (DOMAIN later) |-> IF s = {} THEN Whole(extra)
                      ELSE Absorb(later[Min(s)], g[s \ {Min(s)}])]
  <2>1. g = [s \in SUBSET (DOMAIN later) |-> g[s]]
    BY DEF Unrolls
  <2>2. ASSUME NEW s \in SUBSET (DOMAIN later)
        PROVE  g[s] = IF s = {} THEN Whole(extra) ELSE Absorb(later[Min(s)], g[s \ {Min(s)}])
    <3>1. CASE s = {}
      BY <3>1 DEF Unrolls
    <3>2. CASE s # {}
      <4>1. g[s] = Absorbs(R, later)[s][g[s \ {Min(s)}]]
        BY <1>0, <3>2 DEF Unrolls, First
      <4>2. g[s \ {Min(s)}] \in Carry(R)
        BY DEF Unrolls
      <4> QED BY <3>2, <4>1, <4>2 DEF Absorbs
    <3> QED BY <3>1, <3>2
  <2> QED BY <2>1, <2>2
<1>3. iter = [s \in SUBSET (DOMAIN later) |-> IF s = {} THEN Whole(extra)
                      ELSE Absorb(later[Min(s)], iter[s \ {Min(s)}])]
  BY <1>2
<1> HIDE DEF iter
<1>4. iter = [s \in SUBSET (DOMAIN later) |-> iter[s]] /\ iter[{}] = Whole(extra)
  BY <1>3
<1>5. ASSUME NEW s \in SUBSET (DOMAIN later), s # {},
             iter[s \ {First(Len(later))[s]}] \in Carry(R)
      PROVE  iter[s] = Absorbs(R, later)[s][iter[s \ {First(Len(later))[s]}]]
  <2>1. First(Len(later))[s] = Min(s)
    BY <1>0 DEF First
  <2> QED BY <1>3, <1>5, <2>1 DEF Absorbs
<1>6. Recursion(DOMAIN later, Carry(R), Whole(extra), First(Len(later)), Absorbs(R, later))
  BY AbsorbRecursion
<1>7. Follows(iter, DOMAIN later, Carry(R), Whole(extra), First(Len(later)), Absorbs(R, later))
  BY <1>4, <1>5 DEF Follows
<1>8. iter = g
  BY <1>6, <1>7, RecursionUnique
<1> QED BY <1>1, <1>8

\* The backward walk, as a function of the rows walked over.
Walks(g, R, later, extra) ==
  /\ g \in [SUBSET (DOMAIN later) -> Carry(R)]
  /\ g[{}] = [left |-> extra, tail |-> <<>>]
  /\ \A s \in SUBSET (DOMAIN later) :
       s # {} => g[s] = Absorb(later[Min(s)], g[s \ {Min(s)}])
  /\ \A target : accelerateTail(target, later, extra)
       = <<[target EXCEPT !.amount = @ + extra]>> \o g[DOMAIN later].tail

LEMMA AbsorbWalk ==
  ASSUME NEW R, Payable(R), NEW later \in Seq(R), NEW extra \in Nat
  PROVE  \E g : Walks(g, R, later, extra)
<1>0. DOMAIN later = 1..Len(later)
  BY DomainFinite
<1>1. PICK g : Unrolls(g, DOMAIN later, Carry(R), Whole(extra), First(Len(later)), Absorbs(R, later))
  BY AbsorbRecursion, RecursionExists
<1>2. FoldRight(Absorb, later, Whole(extra)) = g[DOMAIN later]
  BY <1>1, AbsorbIsRecursion
<1>3. \A target : accelerateTail(target, later, extra)
        = <<[target EXCEPT !.amount = @ + extra]>> \o FoldRight(Absorb, later, Whole(extra)).tail
  BY DEF accelerateTail, Whole
<1>4. g \in [SUBSET (DOMAIN later) -> Carry(R)] /\ g[{}] = [left |-> extra, tail |-> <<>>]
  BY <1>1 DEF Unrolls, Whole
<1>5. ASSUME NEW s \in SUBSET (DOMAIN later), s # {}
      PROVE  g[s] = Absorb(later[Min(s)], g[s \ {Min(s)}])
  <2>1. g[s] = Absorbs(R, later)[s][g[s \ {Min(s)}]]
    BY <1>0, <1>1, <1>5 DEF Unrolls, First
  <2>2. g[s \ {Min(s)}] \in Carry(R)
    BY <1>4
  <2> QED BY <2>1, <2>2 DEF Absorbs
<1> QED BY <1>2, <1>3, <1>4, <1>5 DEF Walks

\* accelerateTail gives rows of the same kind, the target first.
LEMMA AccelerateRows ==
  ASSUME NEW R, Payable(R), NEW later \in Seq(R), NEW extra \in Nat, NEW target \in R
  PROVE  /\ accelerateTail(target, later, extra) \in Seq(R)
         /\ accelerateTail(target, later, extra) # <<>>
<1>1. PICK g : Walks(g, R, later, extra)
  BY AbsorbWalk
<1>2. PICK k : k = [target EXCEPT !.amount = target.amount + extra]
  OBVIOUS
<1>3. g[DOMAIN later].tail \in Seq(R)
  <2>1. g[DOMAIN later] \in Carry(R)
    BY <1>1 DEF Walks
  <2> QED BY <2>1 DEF Carry
<1>4. k \in R
  <2>1. target.amount + extra \in Nat
    BY DEF Payable
  <2> QED BY <1>2, <2>1 DEF Payable
<1>5. accelerateTail(target, later, extra) = <<k>> \o g[DOMAIN later].tail
  BY <1>1, <1>2 DEF Walks
<1> QED BY <1>3, <1>4, <1>5

-----------------------------------------------------------------------------
\* The same terms under other numbers.
LEMMA SumShift ==
  ASSUME NEW n \in Nat, NEW d \in Nat, NEW f, NEW h,
         \A i \in 1..n : f[i] \in Int /\ h[i + d] = f[i]
  PROVE  SumFunctionOnSet(f, 1..n) = SumFunctionOnSet(h, (d + 1)..(d + n))
<1> DEFINE F(k) == SumFunctionOnSet(f, 1..k)
           H(k) == SumFunctionOnSet(h, (d + 1)..(d + k))
           Good == {k \in Nat : k <= n => F(k) = H(k)}
<1>1. 0 \in Good
  <2>1. 1..0 = {} /\ (d + 1)..(d + 0) = {}
    OBVIOUS
  <2>2. F(0) = 0 /\ H(0) = 0
    BY <2>1, SumEmpty
  <2> QED BY <2>2
<1>2. ASSUME NEW k \in Good PROVE k + 1 \in Good
  <2> SUFFICES ASSUME k + 1 <= n PROVE F(k + 1) = H(k + 1)
    OBVIOUS
  <2>1. /\ 1..(k + 1) = (1..k) \cup {k + 1} /\ k + 1 \notin 1..k
        /\ (d + 1)..(d + (k + 1)) = ((d + 1)..(d + k)) \cup {d + (k + 1)}
        /\ d + (k + 1) \notin (d + 1)..(d + k)
    <3>1. k \in Nat
      OBVIOUS
    <3> HIDE DEF Good, F, H
    <3>2. 1..(k + 1) = (1..k) \cup {k + 1} /\ k + 1 \notin 1..k
      BY <3>1, IntervalGrows
    <3>3. (d + 1)..(d + (k + 1)) = ((d + 1)..(d + k)) \cup {d + (k + 1)}
      BY <3>1
    <3>4. d + (k + 1) \notin (d + 1)..(d + k)
      BY <3>1
    <3> QED BY <3>2, <3>3, <3>4
  <2>2. IsFiniteSet(1..k) /\ IsFiniteSet((d + 1)..(d + k))
    BY FS_Interval
  <2>3. (\A i \in 1..k : f[i] \in Int) /\ f[k + 1] \in Int
    OBVIOUS
  <2>4. (\A i \in (d + 1)..(d + k) : h[i] \in Int) /\ h[d + (k + 1)] = f[k + 1]
    <3>1. ASSUME NEW i \in (d + 1)..(d + k) PROVE h[i] \in Int
      <4>1. i - d \in 1..n /\ (i - d) + d = i
        OBVIOUS
      <4> QED BY <4>1
    <3>2. k + 1 \in 1..n /\ (k + 1) + d = d + (k + 1)
      OBVIOUS
    <3> QED BY <3>1, <3>2
  <2>5. F(k + 1) = f[k + 1] + F(k)
    BY <2>1, <2>2, <2>3, SumAdd
  <2>6. H(k + 1) = h[d + (k + 1)] + H(k)
    BY <2>1, <2>2, <2>3, <2>4, SumAdd
  <2>7. F(k) = H(k)
    OBVIOUS
  <2> QED BY <2>4, <2>5, <2>6, <2>7
<1>3. Good = Nat
  <2>1. Good \in SUBSET Nat
    OBVIOUS
  <2> HIDE DEF Good
  <2> QED BY <1>1, <1>2, <2>1, NaturalInduction
<1> QED BY <1>3

\* A set of numbers with all below each of them is an interval.
LEMMA DownClosed ==
  ASSUME NEW n \in Nat, NEW A \in SUBSET (1..n), \A j \in A : 1..j \subseteq A
  PROVE  Cardinality(A) \in 0..n /\ A = 1..Cardinality(A)
<1> DEFINE Good == {k \in Nat : A \cap (1..k) = A => \E m \in 0..k : A = 1..m}
<1>1. 0 \in Good
  <2>1. A \cap (1..0) = A => A = 1..0
    OBVIOUS
  <2>2. 0 \in 0..0
    OBVIOUS
  <2>3. A \cap (1..0) = A => \E m \in 0..0 : A = 1..m
    BY <2>1, <2>2, Zenon
  <2> QED BY <2>3
<1>2. ASSUME NEW k \in Good PROVE k + 1 \in Good
  <2> SUFFICES ASSUME A \cap (1..(k + 1)) = A PROVE \E m \in 0..(k + 1) : A = 1..m
    OBVIOUS
  <2>1. CASE k + 1 \in A
    <3>1. A = 1..(k + 1)
      BY <2>1
    <3> QED BY <3>1
  <2>2. CASE k + 1 \notin A
    <3>1. A \cap (1..k) = A
      <4>1. \A x \in A : x \in 1..(k + 1) /\ x # k + 1
        BY <2>2
      <4> QED BY <4>1
    <3>2. PICK m \in 0..k : A = 1..m
      BY <3>1
    <3> QED BY <3>2
  <2> QED BY <2>1, <2>2
<1>3. Good = Nat
  <2>1. Good \in SUBSET Nat
    OBVIOUS
  <2> HIDE DEF Good
  <2> QED BY <1>1, <1>2, <2>1, NaturalInduction
<1>4. A \cap (1..n) = A
  OBVIOUS
<1>5. PICK m \in 0..n : A = 1..m
  BY <1>3, <1>4
<1>6. Cardinality(1..m) = m
  BY FS_Interval
<1> QED BY <1>5, <1>6

-----------------------------------------------------------------------------
\* What is owed from month i on.
Owed(later, i) == SumFunctionOnSet(Amounts(later), i..Len(later))

\* A list of instalments, none of them worth nothing.
Instalments(R, later) ==
  /\ Payable(R) /\ later \in Seq(R)
  /\ \A i \in DOMAIN later : later[i].amount >= 1

LEMMA InstalmentFacts ==
  ASSUME NEW R, NEW later, Instalments(R, later)
  PROVE  /\ Len(later) \in Nat /\ DOMAIN later = 1..Len(later) /\ IsFiniteSet(DOMAIN later)
         /\ \A i \in 1..Len(later) : /\ later[i] \in R
                                     /\ later[i].amount \in Nat /\ later[i].amount >= 1
                                     /\ Amounts(later)[i] = later[i].amount
<1>1. /\ Len(later) \in Nat /\ DOMAIN later = 1..Len(later) /\ IsFiniteSet(DOMAIN later)
      /\ \A i \in DOMAIN later : later[i] \in R
  BY DomainFinite DEF Instalments
<1> QED BY <1>1 DEF Instalments, Payable, Amounts

LEMMA OwedStep ==
  ASSUME NEW R, NEW later, Instalments(R, later), NEW i \in 1..Len(later)
  PROVE  /\ Owed(later, i) = later[i].amount + Owed(later, i + 1)
         /\ Owed(later, i) \in Int /\ Owed(later, i + 1) \in Int
         /\ Owed(later, i) > Owed(later, i + 1)
<1>1. /\ Len(later) \in Nat
      /\ \A j \in 1..Len(later) : later[j].amount \in Nat /\ later[j].amount >= 1
                                  /\ Amounts(later)[j] = later[j].amount
  BY InstalmentFacts
<1>2. i..Len(later) = ((i + 1)..Len(later)) \cup {i} /\ i \notin (i + 1)..Len(later)
  BY <1>1
<1>3. IsFiniteSet((i + 1)..Len(later))
  BY <1>1, FS_Interval
<1>4. (\A j \in (i + 1)..Len(later) : Amounts(later)[j] \in Int) /\ Amounts(later)[i] = later[i].amount
  BY <1>1
<1>5. later[i].amount \in Int /\ later[i].amount >= 1
  BY <1>1
<1>6. SumFunctionOnSet(Amounts(later), ((i + 1)..Len(later)) \cup {i})
        = Amounts(later)[i] + SumFunctionOnSet(Amounts(later), (i + 1)..Len(later))
  BY <1>2, <1>3, <1>4, <1>5, SumAdd
<1>7. Owed(later, i) = later[i].amount + Owed(later, i + 1)
  BY <1>2, <1>4, <1>6 DEF Owed
<1>8. Owed(later, i + 1) \in Int
  BY <1>3, <1>4, SumType DEF Owed
<1> QED BY <1>5, <1>7, <1>8

LEMMA OwedEnd ==
  ASSUME NEW R, NEW later, Instalments(R, later)
  PROVE  Owed(later, Len(later) + 1) = 0
<1>1. (Len(later) + 1)..Len(later) = {}
  BY InstalmentFacts
<1> QED BY <1>1, SumEmpty DEF Owed

\* Later months owe less.
LEMMA OwedFalls ==
  ASSUME NEW R, NEW later, Instalments(R, later),
         NEW i \in 1..Len(later), NEW j \in i..(Len(later) + 1)
  PROVE  /\ Owed(later, i) \in Int /\ Owed(later, j) \in Int
         /\ Owed(later, j) <= Owed(later, i)
<1>0. Len(later) \in Nat
  BY InstalmentFacts
<1> DEFINE Good == {k \in Nat : i + k <= Len(later) + 1 =>
                      Owed(later, i + k) \in Int /\ Owed(later, i + k) <= Owed(later, i)}
<1>1. Owed(later, i) \in Int
  BY OwedStep
<1>2. 0 \in Good
  BY <1>1
<1>3. ASSUME NEW k \in Good PROVE k + 1 \in Good
  <2> SUFFICES ASSUME i + (k + 1) <= Len(later) + 1
               PROVE  Owed(later, i + (k + 1)) \in Int /\ Owed(later, i + (k + 1)) <= Owed(later, i)
    OBVIOUS
  <2>1. i + k \in 1..Len(later) /\ (i + k) + 1 = i + (k + 1)
    BY <1>0
  <2>2. Owed(later, i + k) \in Int /\ Owed(later, i + k) <= Owed(later, i)
    BY <1>0, <2>1
  <2>3. Owed(later, i + (k + 1)) \in Int /\ Owed(later, i + k) > Owed(later, i + (k + 1))
    BY <2>1, OwedStep
  <2> QED BY <1>1, <2>2, <2>3
<1>4. Good = Nat
  <2>1. Good \in SUBSET Nat
    OBVIOUS
  <2> HIDE DEF Good
  <2> QED BY <1>2, <1>3, <2>1, NaturalInduction
<1>5. j - i \in Nat /\ i + (j - i) = j /\ j <= Len(later) + 1
  BY <1>0
<1>6. j - i \in Good
  BY <1>4, <1>5
<1> QED BY <1>1, <1>5, <1>6

LEMMA TotalOwed ==
  ASSUME NEW R, NEW later, Instalments(R, later)
  PROVE  totalMinor(later) = Owed(later, 1)
<1>1. later \in Seq(R) /\ \A r \in R : r.amount \in Int
  BY DEF Instalments, Payable
<1>2. DOMAIN later = 1..Len(later)
  BY InstalmentFacts
<1> QED BY <1>1, <1>2, TotalIsSum DEF Owed

LEMMA BeyondOwed ==
  ASSUME NEW R, NEW later, Instalments(R, later), NEW i \in 1..Len(later)
  PROVE  Beyond(later, i) = Owed(later, i + 1)
<1> DEFINE n == Len(later)
<1>1. /\ n \in Nat
      /\ \A j \in 1..n : later[j] \in R /\ later[j].amount \in Nat
                         /\ Amounts(later)[j] = later[j].amount
  BY InstalmentFacts
<1>2. PICK s : s = SubSeq(later, i + 1, n)
  OBVIOUS
<1>3. later \in Seq(R) /\ \A r \in R : r.amount \in Int
  BY DEF Instalments, Payable
<1>4. s \in Seq(R) /\ Len(s) = n - i /\ \A j \in 1..(n - i) : s[j] = later[j + i]
  BY <1>1, <1>2, <1>3
<1>5. totalMinor(s) = SumFunctionOnSet(Amounts(s), 1..(n - i))
  <2>1. DOMAIN s = 1..(n - i)
    BY <1>4
  <2> QED BY <1>3, <1>4, <2>1, TotalIsSum
<1>6. \A j \in 1..(n - i) : Amounts(s)[j] \in Int /\ Amounts(later)[j + i] = Amounts(s)[j]
  <2> SUFFICES ASSUME NEW j \in 1..(n - i)
               PROVE  Amounts(s)[j] \in Int /\ Amounts(later)[j + i] = Amounts(s)[j]
    OBVIOUS
  <2>1. j + i \in 1..n /\ j \in DOMAIN s
    BY <1>1, <1>4
  <2>2. Amounts(s)[j] = s[j].amount
    BY <2>1 DEF Amounts
  <2> QED BY <1>1, <1>4, <2>1, <2>2
<1>7. n - i \in Nat /\ i \in Nat /\ i + (n - i) = n
  BY <1>1
<1> HIDE DEF n
<1>8. SumFunctionOnSet(Amounts(s), 1..(n - i))
        = SumFunctionOnSet(Amounts(later), (i + 1)..(i + (n - i)))
  <2>1. PICK m, a, b : m = n - i /\ a = Amounts(s) /\ b = Amounts(later)
    OBVIOUS
  <2>2. m \in Nat /\ \A j \in 1..m : a[j] \in Int /\ b[j + i] = a[j]
    BY <1>6, <1>7, <2>1
  <2>3. SumFunctionOnSet(a, 1..m) = SumFunctionOnSet(b, (i + 1)..(i + m))
    BY <1>7, <2>2, SumShift
  <2> QED BY <2>1, <2>3
<1> QED BY <1>2, <1>5, <1>7, <1>8 DEF Beyond, Owed, n

LEMMA KeepingOwed ==
  ASSUME NEW R, NEW later, Instalments(R, later), NEW extra \in Nat, NEW i \in 1..Len(later)
  PROVE  /\ extra <= Owed(later, i + 1) => Keeping(later, extra, i) = later[i].amount
         /\ extra > Owed(later, i + 1) => Keeping(later, extra, i) = Owed(later, i) - extra
         /\ Keeping(later, extra, i) \in Int
         /\ Keeping(later, extra, i) > 0 <=> extra < Owed(later, i)
<1>1. Beyond(later, i) = Owed(later, i + 1)
  BY BeyondOwed
<1>2. /\ Owed(later, i) = later[i].amount + Owed(later, i + 1)
      /\ Owed(later, i) \in Int /\ Owed(later, i + 1) \in Int
  BY OwedStep
<1>3. later[i].amount \in Nat /\ later[i].amount >= 1
  BY InstalmentFacts
<1> QED BY <1>1, <1>2, <1>3 DEF Keeping

\* How many months keep something.
Keepers(later, extra) == Cardinality({j \in DOMAIN later : Keeping(later, extra, j) > 0})

LEMMA KeepersFirst ==
  ASSUME NEW R, NEW later, Instalments(R, later), NEW extra \in Nat
  PROVE  /\ Keepers(later, extra) \in 0..Len(later)
         /\ \A j \in 1..Len(later) : extra < Owed(later, j) <=> j <= Keepers(later, extra)
<1>1. Len(later) \in Nat /\ DOMAIN later = 1..Len(later)
  BY InstalmentFacts
<1>2. PICK A : A = {j \in 1..Len(later) : extra < Owed(later, j)}
  OBVIOUS
<1>3. Keepers(later, extra) = Cardinality(A)
  <2>1. {j \in DOMAIN later : Keeping(later, extra, j) > 0} = A
    BY <1>1, <1>2, KeepingOwed
  <2> QED BY <2>1 DEF Keepers
<1>4. ASSUME NEW j \in A, NEW i \in 1..j PROVE i \in A
  <2>1. i \in 1..Len(later) /\ j \in i..(Len(later) + 1)
    BY <1>1, <1>2
  <2>2. Owed(later, j) <= Owed(later, i) /\ Owed(later, i) \in Int /\ Owed(later, j) \in Int
    BY <2>1, OwedFalls
  <2>3. extra < Owed(later, j)
    BY <1>2
  <2> QED BY <1>2, <2>1, <2>2, <2>3
<1>5. A \in SUBSET (1..Len(later)) /\ \A j \in A : 1..j \subseteq A
  BY <1>2, <1>4
<1>6. Cardinality(A) \in 0..Len(later) /\ A = 1..Cardinality(A)
  BY <1>1, <1>5, DownClosed
<1>7. ASSUME NEW j \in 1..Len(later)
      PROVE  extra < Owed(later, j) <=> j <= Cardinality(A)
  <2>1. j \in A <=> extra < Owed(later, j)
    BY <1>2
  <2>2. j \in A <=> j \in 1..Cardinality(A)
    BY <1>6
  <2> QED BY <1>1, <1>6, <2>1, <2>2
<1> QED BY <1>3, <1>6, <1>7

\* What month i keeps, and the list of what is kept from month i on.
Reduced(later, extra, i) == [later[i] EXCEPT !.amount = Keeping(later, extra, i)]
KeptFrom(later, extra, i) ==
  [j \in 1..(Keepers(later, extra) - i + 1) |-> Reduced(later, extra, i + j - 1)]

LEMMA KeptIsFirst ==
  ASSUME NEW R, NEW later, Instalments(R, later), NEW extra \in Nat
  PROVE  Kept(later, extra) = KeptFrom(later, extra, 1)
<1>1. PICK k : k = Keepers(later, extra)
  OBVIOUS
<1>2. k \in Nat /\ k - 1 + 1 = k
  BY <1>1, KeepersFirst, InstalmentFacts
<1>3. Kept(later, extra) = [i \in 1..k |-> Reduced(later, extra, i)]
  BY <1>1 DEF Kept, Reduced, Keepers
<1>4. KeptFrom(later, extra, 1) = [j \in 1..k |-> Reduced(later, extra, 1 + j - 1)]
  BY <1>1, <1>2 DEF KeptFrom
<1>5. \A j \in 1..k : 1 + j - 1 = j
  OBVIOUS
<1> QED BY <1>3, <1>4, <1>5

\* q is s with e put before it.
Leads(q, e, s) ==
  /\ Len(q) = Len(s) + 1
  /\ q[1] = e
  /\ \A j \in 1..Len(s) : q[j + 1] = s[j]
  /\ q = [j \in 1..(Len(s) + 1) |-> q[j]]

LEMMA Prepended ==
  ASSUME NEW S, NEW e, NEW s \in Seq(S)
  PROVE  Leads(<<e>> \o s, e, s)
  BY DEF Leads

\* What the list is when month i keeps something: month i, then the rest.
LEMMA KeptOneMore ==
  ASSUME NEW k \in Nat, NEW i \in 1..k, NEW f
  PROVE  [j \in 1..(k - i + 1) |-> f[i + j - 1]]
           = <<f[i]>> \o [j \in 1..(k - (i + 1) + 1) |-> f[(i + 1) + j - 1]]
<1> DEFINE all == [j \in 1..(k - i + 1) |-> f[i + j - 1]]
<1>1. PICK rest : rest = [j \in 1..(k - (i + 1) + 1) |-> f[(i + 1) + j - 1]]
  OBVIOUS
<1>2. k - (i + 1) + 1 = k - i /\ k - i \in Nat
  OBVIOUS
<1>3. PICK F : F = {f[j] : j \in 1..k}
  OBVIOUS
<1>4. rest \in Seq(F) /\ Len(rest) = k - i /\ \A j \in 1..(k - i) : rest[j] = f[i + j]
  <2>1. rest = [j \in 1..(k - i) |-> f[(i + 1) + j - 1]]
    BY <1>1, <1>2
  <2>2. \A j \in 1..(k - i) : (i + 1) + j - 1 = i + j /\ i + j \in 1..k
    OBVIOUS
  <2>3. rest = [j \in 1..(k - i) |-> f[i + j]]
    BY <2>1, <2>2
  <2> QED BY <1>2, <1>3, <2>2, <2>3
<1>5. PICK q : q = <<f[i]>> \o rest
  OBVIOUS
<1>6. /\ Len(q) = Len(rest) + 1
      /\ q[1] = f[i]
      /\ \A j \in 1..Len(rest) : q[j + 1] = rest[j]
      /\ q = [j \in 1..(Len(rest) + 1) |-> q[j]]
  <2>1. Leads(<<f[i]>> \o rest, f[i], rest)
    BY <1>4, Prepended
  <2> QED BY <1>5, <2>1 DEF Leads
<1>7. ASSUME NEW j \in 1..(k - i + 1) PROVE q[j] = f[i + j - 1]
  <2>1. CASE j = 1
    <3>1. i + 1 - 1 = i
      OBVIOUS
    <3> QED BY <1>6, <2>1, <3>1
  <2>2. CASE j # 1
    <3>1. j - 1 \in 1..(k - i) /\ (j - 1) + 1 = j /\ i + (j - 1) = i + j - 1
      BY <1>2, <2>2
    <3>2. q[j] = rest[j - 1]
      BY <1>4, <1>6, <3>1
    <3> QED BY <1>4, <3>1, <3>2
  <2> QED BY <2>1, <2>2
<1>8. Len(rest) + 1 = k - i + 1
  BY <1>4
<1>9. q = all
  BY <1>6, <1>7, <1>8
<1> QED BY <1>1, <1>5, <1>9

\* Where the walk is when it has passed month i.
Remainder(later, extra, i) ==
  IF extra >= Owed(later, i) THEN extra - Owed(later, i) ELSE 0
Passed(g, later, extra, i) ==
  g[i..Len(later)] = [left |-> Remainder(later, extra, i), tail |-> KeptFrom(later, extra, i)]

\* It turns from month i + 1 to month i.
LEMMA WalkTurns ==
  ASSUME NEW R, NEW later, Instalments(R, later), NEW extra \in Nat, NEW g, Walks(g, R, later, extra),
         NEW i \in 1..Len(later), NEW acc, acc = g[(i + 1)..Len(later)]
  PROVE  acc \in Carry(R) /\ g[i..Len(later)] = Absorb(later[i], acc)
<1>1. Len(later) \in Nat /\ DOMAIN later = 1..Len(later)
  BY InstalmentFacts
<1>2. (i + 1)..Len(later) \in SUBSET (DOMAIN later)
  BY <1>1
<1>3. acc \in Carry(R)
  BY <1>2 DEF Walks
<1>4. i..Len(later) \in SUBSET (DOMAIN later) /\ i..Len(later) # {}
      /\ (i..Len(later)) \ {i} = (i + 1)..Len(later)
  BY <1>1
<1>5. Min(i..Len(later)) = i
  <2>1. PICK s : s = i..Len(later)
    OBVIOUS
  <2>2. s \in SUBSET (1..Len(later)) /\ s # {} /\ i \in s /\ \A j \in s : j \in Int /\ j >= i
    BY <1>1, <1>4, <2>1
  <2>3. Min(s) \in s /\ \A j \in s : Min(s) <= j
    BY <1>1, <2>2, Leftmost
  <2> QED BY <2>1, <2>2, <2>3
<1>6. g[i..Len(later)] = Absorb(later[Min(i..Len(later))], g[(i..Len(later)) \ {Min(i..Len(later))}])
  BY <1>4 DEF Walks
<1> QED BY <1>3, <1>4, <1>5, <1>6

LEMMA WalkPasses ==
  ASSUME NEW R, NEW later, Instalments(R, later), NEW extra \in Nat, NEW g, Walks(g, R, later, extra),
         NEW i \in 1..Len(later), Passed(g, later, extra, i + 1)
  PROVE  Passed(g, later, extra, i)
<1>1. PICK acc, a, b, k, r :
        /\ acc = g[(i + 1)..Len(later)]
        /\ a = Owed(later, i) /\ b = Owed(later, i + 1)
        /\ k = Keepers(later, extra) /\ r = later[i]
  OBVIOUS
<1>2. Len(later) \in Nat /\ Payable(R)
  BY InstalmentFacts DEF Instalments
<1>3. a = r.amount + b /\ a \in Int /\ b \in Int
  BY <1>1, OwedStep
<1>4. r.amount \in Nat /\ r.amount >= 1 /\ r \in R
  BY <1>1, InstalmentFacts
<1>5. acc \in Carry(R) /\ g[i..Len(later)] = Absorb(r, acc)
  BY <1>1, WalkTurns
<1>6. /\ acc.left = IF extra >= b THEN extra - b ELSE 0
      /\ acc.tail = KeptFrom(later, extra, i + 1)
  BY <1>1 DEF Passed, Remainder
<1>7. /\ extra <= b => Keeping(later, extra, i) = r.amount
      /\ extra > b => Keeping(later, extra, i) = a - extra
  BY <1>1, KeepingOwed
<1>8. k \in 0..Len(later) /\ (extra < a <=> i <= k)
  BY <1>1, KeepersFirst
<1>9. /\ acc.left >= r.amount =>
           Absorb(r, acc) = [left |-> acc.left - r.amount, tail |-> acc.tail]
      /\ acc.left < r.amount =>
           Absorb(r, acc) = [left |-> 0, tail |-> <<[r EXCEPT !.amount = r.amount - acc.left]>> \o acc.tail]
  BY <1>2, <1>4, <1>5, AbsorbSteps
<1>10. CASE extra >= a
  <2>1. acc.left >= r.amount /\ acc.left - r.amount = extra - a
    BY <1>3, <1>4, <1>6, <1>10
  <2>2. g[i..Len(later)] = [left |-> extra - a, tail |-> acc.tail]
    BY <1>5, <1>9, <2>1
  <2>3. Remainder(later, extra, i) = extra - a
    BY <1>1, <1>10 DEF Remainder
  <2>4. ~(i <= k)
    BY <1>3, <1>8, <1>10
  <2>5. 1..(k - i + 1) = {} /\ 1..(k - (i + 1) + 1) = {}
    BY <1>2, <1>8, <2>4
  <2>6. KeptFrom(later, extra, i) = KeptFrom(later, extra, i + 1)
    BY <1>1, <2>5 DEF KeptFrom
  <2> QED BY <1>6, <2>2, <2>3, <2>6 DEF Passed
<1>11. CASE extra < a
  <2>1. acc.left < r.amount /\ r.amount - acc.left = Keeping(later, extra, i)
    BY <1>3, <1>4, <1>6, <1>7, <1>11
  <2>2. [r EXCEPT !.amount = r.amount - acc.left] = Reduced(later, extra, i)
    BY <1>1, <2>1 DEF Reduced
  <2>3. g[i..Len(later)] = [left |-> 0, tail |-> <<Reduced(later, extra, i)>> \o acc.tail]
    BY <1>5, <1>9, <2>1, <2>2
  <2>4. Remainder(later, extra, i) = 0
    BY <1>1, <1>3, <1>11 DEF Remainder
  <2>5. i \in 1..k /\ k \in Nat
    BY <1>2, <1>8, <1>11
  <2>6. PICK f : f = [j \in 1..k |-> Reduced(later, extra, j)]
    OBVIOUS
  <2>7. KeptFrom(later, extra, i) = [j \in 1..(k - i + 1) |-> f[i + j - 1]]
    <3>1. \A j \in 1..(k - i + 1) : i + j - 1 \in 1..k
      BY <2>5
    <3> QED BY <1>1, <2>6, <3>1 DEF KeptFrom
  <2>8. KeptFrom(later, extra, i + 1) = [j \in 1..(k - (i + 1) + 1) |-> f[(i + 1) + j - 1]]
    <3>1. \A j \in 1..(k - (i + 1) + 1) : (i + 1) + j - 1 \in 1..k
      BY <2>5
    <3> QED BY <1>1, <2>6, <3>1 DEF KeptFrom
  <2>9. [j \in 1..(k - i + 1) |-> f[i + j - 1]]
           = <<f[i]>> \o [j \in 1..(k - (i + 1) + 1) |-> f[(i + 1) + j - 1]]
    BY <2>5, KeptOneMore
  <2>10. f[i] = Reduced(later, extra, i)
    BY <2>5, <2>6
  <2> QED BY <1>6, <2>3, <2>4, <2>7, <2>8, <2>9, <2>10 DEF Passed
<1> QED BY <1>3, <1>10, <1>11

\* The whole walk keeps what the later months keep.
LEMMA WalkKeeps ==
  ASSUME NEW R, NEW later, Instalments(R, later), NEW extra \in Nat, NEW g, Walks(g, R, later, extra)
  PROVE  g[1..Len(later)].tail = Kept(later, extra)
<1> DEFINE n == Len(later)
           Good == {m \in Nat : m <= n => Passed(g, later, extra, n + 1 - m)}
<1>1. n \in Nat
  BY InstalmentFacts
<1>2. Passed(g, later, extra, n + 1)
  <2>1. (n + 1)..n = {} /\ g[{}] = [left |-> extra, tail |-> <<>>]
    BY <1>1 DEF Walks
  <2>2. KeptFrom(later, extra, n + 1) = <<>>
    <3>1. PICK k : k = Keepers(later, extra)
      OBVIOUS
    <3>2. k \in 0..n
      BY <3>1, KeepersFirst
    <3>3. 1..(k - (n + 1) + 1) = {}
      BY <1>1, <3>2
    <3> QED BY <3>1, <3>3 DEF KeptFrom
  <2>3. Remainder(later, extra, n + 1) = extra
    BY OwedEnd DEF Remainder
  <2> QED BY <2>1, <2>2, <2>3 DEF Passed
<1> HIDE DEF n
<1>3. 0 \in Good
  <2>1. n + 1 - 0 = n + 1
    BY <1>1
  <2> QED BY <1>2, <2>1
<1>4. ASSUME NEW m \in Good PROVE m + 1 \in Good
  <2> SUFFICES ASSUME m + 1 <= n PROVE Passed(g, later, extra, n + 1 - (m + 1))
    OBVIOUS
  <2>1. PICK i \in 1..n : i = n + 1 - (m + 1) /\ i + 1 = n + 1 - m
    BY <1>1
  <2>2. Passed(g, later, extra, i + 1)
    <3>1. m <= n
      BY <1>1
    <3> QED BY <2>1, <3>1
  <2>3. Passed(g, later, extra, i)
    BY <2>2, WalkPasses DEF n
  <2> QED BY <2>1, <2>3
<1>5. Good = Nat
  <2>1. Good \in SUBSET Nat
    OBVIOUS
  <2> HIDE DEF Good
  <2> QED BY <1>3, <1>4, <2>1, NaturalInduction
<1>6. Passed(g, later, extra, 1)
  <2>1. n <= n => Passed(g, later, extra, n + 1 - n)
    BY <1>1, <1>5
  <2>2. n <= n /\ n + 1 - n = 1
    BY <1>1
  <2> QED BY <2>1, <2>2
<1>7. g[1..Len(later)].tail = KeptFrom(later, extra, 1)
  BY <1>6 DEF Passed
<1> QED BY <1>7, KeptIsFirst

-----------------------------------------------------------------------------
\* A schedule is what it should be, for every amount and every first month.
LEMMA ScheduleSplits ==
  ASSUME NEW amount \in Nat, NEW count \in Nat, Schedulable(amount, count),
         NEW first \in Nat \X (1..12)
  PROVE  SplitsExactly(amount, count, first)
<1>0. PICK base : base = amount \div count
  OBVIOUS
<1>1. PICK s : s = generateSchedule(amount, count, first)
  OBVIOUS
<1>2. Splits(s, amount, count, first, base)
  BY <1>0, <1>1, ScheduleRows
<1>3. totalMinor(s) = amount
  BY <1>1, ScheduleAddsUp
<1>4. Len(s) = count /\ count >= 1
  BY <1>2 DEF Splits, Schedulable
<1>5. PICK rest \in 0..(count - 1) : rest = amount - base * count
  BY <1>2 DEF Splits
<1>6. /\ base \in Nat /\ base >= 1
      /\ \A i \in 1..count :
           /\ s[i].period = periodsFrom(first, count)[i]
           /\ i < count => s[i].amount = base
           /\ i = count => s[i].amount = base + rest
  BY <1>2, <1>5 DEF Splits
<1>7. ASSUME NEW i \in 1..count
      PROVE  /\ s[i].amount >= 1
             /\ s[i].amount - s[1].amount \in 0..(count - 1)
             /\ i < count => s[i].amount = s[1].amount
  <2>1. 1 \in 1..count
    BY <1>4
  <2>2. CASE count = 1
    BY <1>6, <2>2
  <2>3. CASE count > 1
    <3>1. s[1].amount = base
      BY <1>6, <2>1, <2>3
    <3>2. s[i].amount = base \/ s[i].amount = base + rest
      BY <1>6
    <3>3. i < count => s[i].amount = base
      BY <1>6
    <3> QED BY <1>4, <1>5, <1>6, <3>1, <3>2, <3>3
  <2> QED BY <1>4, <2>2, <2>3
<1>8. ASSUME NEW i \in 1..count
      PROVE  /\ MonthIndex(s[i].period) = MonthIndex(first) + i - 1
             /\ s[i].period[2] \in 1..12
  <2>1. PICK p : p = periodsFrom(first, count)[i]
    OBVIOUS
  <2>2. p \in Nat \X (1..12) /\ 12 * p[1] + p[2] = 12 * first[1] + first[2] + i - 1
    BY <2>1, MonthsConsecutive
  <2>3. s[i].period = p
    BY <1>6, <2>1
  <2>4. p[2] \in 1..12
    BY <2>2
  <2> QED BY <2>2, <2>3, <2>4 DEF MonthIndex
<1> QED BY <1>1, <1>3, <1>4, <1>7, <1>8 DEF SplitsExactly

\* generateSchedule loses no minor unit and no month: for every principal and
\* every number of instalments it accepts, from every month on; the samples
\* TLC evaluates are some of them.
THEOREM SchedulesSplitTheDebt ==
  /\ \A amount \in Nat, count \in Nat, first \in Nat \X (1..12) :
       Schedulable(amount, count) => SplitsExactly(amount, count, first)
  /\ Spec => []ScheduleSplitsDebt
<1>1. SampleMonth \in Nat \X (1..12)
  BY DEF SampleMonth
<1>2. SplitsDebt
  <2>1. 1..MaxAmount \in SUBSET Nat /\ 1..(MaxRows + 1) \in SUBSET Nat
    BY DEF MaxAmount, MaxRows
  <2> QED BY <1>1, <2>1, ScheduleSplits DEF SplitsDebt
<1>3. ScheduleSplitsDebt
  BY <1>2 DEF ScheduleSplitsDebt
<1>4. \A amount \in Nat, count \in Nat, first \in Nat \X (1..12) :
         Schedulable(amount, count) => SplitsExactly(amount, count, first)
  BY ScheduleSplits
<1> QED BY <1>3, <1>4, PTL

-----------------------------------------------------------------------------
\* What the kept months owe together: all of it, but for the extra.
LEMMA LastKeeper ==
  ASSUME NEW R, NEW later, Instalments(R, later), NEW extra \in Nat, CanAbsorb(later, extra),
         NEW k, k = Keepers(later, extra), k >= 1
  PROVE  /\ Keeping(later, extra, k) = Owed(later, k) - extra
         /\ \A j \in 1..(k - 1) : Keeping(later, extra, j) = later[j].amount
<1>1. k \in 1..Len(later) /\ Len(later) \in Nat
  BY KeepersFirst, InstalmentFacts
<1>2. \A j \in 1..Len(later) : extra < Owed(later, j) <=> j <= k
  BY KeepersFirst
<1>3. extra >= Owed(later, k + 1) /\ Owed(later, k + 1) \in Int
  <2>1. Owed(later, k + 1) \in Int
    BY <1>1, OwedStep
  <2>2. CASE k = Len(later)
    <3>1. Owed(later, k + 1) = 0
      BY <2>2, OwedEnd
    <3> QED BY <3>1
  <2>3. CASE k # Len(later)
    <3>1. k + 1 \in 1..Len(later) /\ ~(k + 1 <= k)
      BY <1>1, <2>3
    <3> QED BY <1>2, <2>1, <3>1
  <2> QED BY <2>1, <2>2, <2>3
<1>4. Keeping(later, extra, k) = Owed(later, k) - extra
  <2>1. /\ extra <= Owed(later, k + 1) => Keeping(later, extra, k) = later[k].amount
        /\ extra > Owed(later, k + 1) => Keeping(later, extra, k) = Owed(later, k) - extra
    BY <1>1, KeepingOwed
  <2>2. Owed(later, k) = later[k].amount + Owed(later, k + 1) /\ Owed(later, k) \in Int
    BY <1>1, OwedStep
  <2>3. later[k].amount \in Nat
    BY <1>1, InstalmentFacts
  <2> QED BY <1>3, <2>1, <2>2, <2>3
<1>5. ASSUME NEW j \in 1..(k - 1) PROVE Keeping(later, extra, j) = later[j].amount
  <2>1. j \in 1..Len(later) /\ j + 1 \in 1..Len(later) /\ j + 1 <= k
    BY <1>1
  <2>2. extra < Owed(later, j + 1) /\ Owed(later, j + 1) \in Int
    BY <1>2, <2>1, OwedStep
  <2>3. extra <= Owed(later, j + 1) => Keeping(later, extra, j) = later[j].amount
    BY <2>1, KeepingOwed
  <2> QED BY <2>2, <2>3
<1> QED BY <1>4, <1>5

LEMMA KeptOwe ==
  ASSUME NEW R, NEW later, Instalments(R, later), NEW extra \in Nat, CanAbsorb(later, extra),
         NEW k, k = Keepers(later, extra),
         NEW f, \A j \in 1..k : f[j] = Keeping(later, extra, j)
  PROVE  SumFunctionOnSet(f, 1..k) = Owed(later, 1) - extra
<1>1. k \in 0..Len(later) /\ Len(later) \in Nat
  BY KeepersFirst, InstalmentFacts
<1>2. extra > 0 /\ extra <= Owed(later, 1)
  BY TotalOwed DEF CanAbsorb
<1>3. CASE k = 0
  <2>1. Len(later) # 0
    <3>1. Len(later) = 0 => Owed(later, 1) = 0
      BY OwedEnd
    <3> QED BY <1>2, <3>1
  <2>2. 1 \in 1..Len(later)
    BY <1>1, <2>1
  <2>3. Owed(later, 1) \in Int
    BY <2>2, OwedStep
  <2>4. extra < Owed(later, 1) <=> 1 <= k
    BY <2>2, KeepersFirst
  <2>5. Owed(later, 1) - extra = 0
    BY <1>2, <1>3, <2>3, <2>4
  <2>6. 1..k = {}
    BY <1>3
  <2>7. SumFunctionOnSet(f, 1..k) = 0
    BY <2>6, SumEmpty
  <2> QED BY <2>5, <2>7
<1>4. CASE k >= 1
  <2>0. PICK A, n, a : A = 1..(k - 1) /\ n = Len(later) /\ a = Amounts(later)
    OBVIOUS
  <2>1. /\ Keeping(later, extra, k) = Owed(later, k) - extra
        /\ \A j \in 1..(k - 1) : Keeping(later, extra, j) = later[j].amount
    BY <1>4, LastKeeper
  <2>2. \A j \in 1..n : later[j].amount \in Int /\ a[j] = later[j].amount
    BY <2>0, InstalmentFacts
  <2>3. Owed(later, k) \in Int
    BY <1>1, <1>4, OwedStep
  <2>4. IsFiniteSet(A) /\ IsFiniteSet(1..n) /\ A \in SUBSET (1..n) /\ k \in 1..n
    <3>1. IsFiniteSet(1..(k - 1)) /\ IsFiniteSet(1..n)
      BY <1>1, <1>4, <2>0, FS_Interval
    <3>2. A \in SUBSET (1..n) /\ k \in 1..n
      BY <1>1, <1>4, <2>0
    <3> QED BY <2>0, <3>1, <3>2
  <2>5. SumFunctionOnSet(f, A) = SumFunctionOnSet(a, A)
    <3>1. \A j \in A : a[j] \in Int /\ f[j] = a[j]
      <4> SUFFICES ASSUME NEW j \in A PROVE a[j] \in Int /\ f[j] = a[j]
        OBVIOUS
      <4>1. j \in 1..n /\ j \in 1..k /\ j \in 1..(k - 1)
        BY <1>1, <1>4, <2>0
      <4> QED BY <2>1, <2>2, <4>1
    <3> QED BY <2>4, <3>1, SumSame
  <2>6. SumFunctionOnSet(f, 1..k) = (Owed(later, k) - extra) + SumFunctionOnSet(f, A)
    <3>1. 1..k = A \cup {k} /\ k \notin A /\ k \in 1..k
      BY <1>1, <1>4, <2>0
    <3>2. f[k] = Owed(later, k) - extra /\ f[k] \in Int
      BY <2>1, <2>3, <3>1
    <3>3. \A j \in A : f[j] \in Int
      <4> SUFFICES ASSUME NEW j \in A PROVE f[j] \in Int
        OBVIOUS
      <4>1. j \in 1..n /\ j \in 1..k /\ j \in 1..(k - 1)
        BY <1>1, <1>4, <2>0
      <4> QED BY <2>1, <2>2, <4>1
    <3>4. SumFunctionOnSet(f, A \cup {k}) = f[k] + SumFunctionOnSet(f, A)
      BY <2>4, <3>1, <3>2, <3>3, SumAdd
    <3> QED BY <3>1, <3>2, <3>4
  <2>7. Owed(later, 1) = SumFunctionOnSet(a, A) + Owed(later, k)
    <3>1. (1..n) \ A = k..n
      BY <1>1, <1>4, <2>0
    <3>2. \A j \in 1..n : a[j] \in Int
      BY <2>2
    <3>3. SumFunctionOnSet(a, 1..n) = SumFunctionOnSet(a, A) + SumFunctionOnSet(a, (1..n) \ A)
      BY <2>4, <3>2, SumUnion
    <3> QED BY <2>0, <3>1, <3>3 DEF Owed
  <2>8. SumFunctionOnSet(a, A) \in Int
    <3>1. \A j \in A : a[j] \in Int
      BY <2>2, <2>4
    <3> QED BY <2>4, <3>1, SumType
  <2> QED BY <2>3, <2>5, <2>6, <2>7, <2>8
<1> QED BY <1>1, <1>3, <1>4

LEMMA AccelerateMoves ==
  ASSUME NEW R, NEW later, Instalments(R, later), NEW target \in R,
         NEW extra \in Nat, CanAbsorb(later, extra)
  PROVE  MovesExactly(target, later, extra)
<1>1. Payable(R) /\ later \in Seq(R) /\ DOMAIN later = 1..Len(later) /\ Len(later) \in Nat
  BY InstalmentFacts DEF Instalments
<1>2. PICK g : Walks(g, R, later, extra)
  BY <1>1, AbsorbWalk
<1>3. PICK kept : kept = Kept(later, extra)
  OBVIOUS
<1>4. PICK t : t = [target EXCEPT !.amount = target.amount + extra]
  OBVIOUS
<1>5. target.amount \in Nat /\ t \in R /\ t.amount = target.amount + extra
  <2>1. target.amount \in Nat /\ target.amount + extra \in Nat
    BY <1>1 DEF Payable
  <2> QED BY <1>1, <1>4, <2>1 DEF Payable
<1>6. PICK r : r = accelerateTail(target, later, extra)
  OBVIOUS
<1>7. r = <<t>> \o kept
  <2>1. r = <<t>> \o g[DOMAIN later].tail
    BY <1>2, <1>4, <1>6 DEF Walks
  <2>2. g[1..Len(later)].tail = kept
    BY <1>2, <1>3, WalkKeeps
  <2> QED BY <1>1, <2>1, <2>2
<1>8. PICK k : k = Keepers(later, extra)
  OBVIOUS
<1>9. k \in Nat /\ k <= Len(later)
  BY <1>1, <1>8, KeepersFirst
<1>10. kept = [i \in 1..k |-> [later[i] EXCEPT !.amount = Keeping(later, extra, i)]]
  BY <1>3, <1>8 DEF Kept, Keepers
<1>11. ASSUME NEW i \in 1..k
       PROVE  kept[i] \in R /\ kept[i].amount = Keeping(later, extra, i)
  <2>1. i \in 1..Len(later)
    BY <1>1, <1>9
  <2>2. extra < Owed(later, i)
    BY <1>8, <2>1, KeepersFirst
  <2>3. Keeping(later, extra, i) \in Nat
    BY <2>1, <2>2, KeepingOwed
  <2>4. later[i] \in R
    BY <2>1, InstalmentFacts
  <2> QED BY <1>1, <1>10, <2>3, <2>4 DEF Payable
<1>12. kept \in Seq(R) /\ Len(kept) = k
  BY <1>9, <1>10, <1>11
<1>13. Leads(r, t, kept)
  BY <1>7, <1>12, Prepended
<1>14. Len(r) = k + 1 /\ r[1] = t /\ \A j \in 1..k : r[j + 1] = kept[j]
  BY <1>12, <1>13 DEF Leads
<1>15. r \in Seq(R)
  BY <1>5, <1>7, <1>12
<1>16. PICK a, f : a = Amounts(r) /\ f = Amounts(kept)
  OBVIOUS
<1>17. /\ DOMAIN r = 1..(k + 1) /\ DOMAIN kept = 1..k
       /\ a[1] = target.amount + extra
       /\ \A j \in 1..k : f[j] = Keeping(later, extra, j) /\ f[j] \in Int /\ a[j + 1] = f[j]
  <2>1. DOMAIN r = 1..(k + 1) /\ DOMAIN kept = 1..k
    BY <1>9, <1>12, <1>14, <1>15
  <2>2. a[1] = target.amount + extra
    BY <1>5, <1>9, <1>14, <1>16, <2>1 DEF Amounts
  <2>3. ASSUME NEW j \in 1..k
        PROVE  f[j] = Keeping(later, extra, j) /\ f[j] \in Int /\ a[j + 1] = f[j]
    <3>1. kept[j] \in R /\ kept[j].amount = Keeping(later, extra, j)
      BY <1>11
    <3>2. kept[j].amount \in Int
      BY <1>1, <3>1 DEF Payable
    <3>3. j + 1 \in 1..(k + 1) /\ r[j + 1] = kept[j]
      BY <1>9, <1>14
    <3> QED BY <1>16, <2>1, <3>1, <3>2, <3>3 DEF Amounts
  <2> QED BY <2>1, <2>2, <2>3
<1>18. totalMinor(r) = SumFunctionOnSet(a, 1..(k + 1))
  <2>1. \A x \in R : x.amount \in Int
    BY <1>1 DEF Payable
  <2> QED BY <1>15, <1>16, <1>17, <2>1, TotalIsSum
<1>19. SumFunctionOnSet(f, 1..k) = SumFunctionOnSet(a, 2..(k + 1))
  <2>1. 1 \in Nat /\ \A j \in 1..k : f[j] \in Int /\ a[j + 1] = f[j]
    BY <1>17
  <2>2. SumFunctionOnSet(f, 1..k) = SumFunctionOnSet(a, (1 + 1)..(1 + k))
    BY <1>9, <2>1, SumShift
  <2>3. (1 + 1)..(1 + k) = 2..(k + 1)
    BY <1>9
  <2> QED BY <2>2, <2>3
<1>20. SumFunctionOnSet(a, 1..(k + 1)) = (target.amount + extra) + SumFunctionOnSet(a, 2..(k + 1))
  <2>1. 1..(k + 1) = (2..(k + 1)) \cup {1} /\ 1 \notin 2..(k + 1)
    BY <1>9
  <2>2. IsFiniteSet(2..(k + 1))
    BY <1>9, FS_Interval
  <2>3. \A j \in 2..(k + 1) : a[j] \in Int
    <3> SUFFICES ASSUME NEW j \in 2..(k + 1) PROVE a[j] \in Int
      OBVIOUS
    <3>1. j - 1 \in 1..k /\ (j - 1) + 1 = j
      BY <1>9
    <3> QED BY <1>17, <3>1
  <2>4. a[1] \in Int
    BY <1>5, <1>17
  <2>5. SumFunctionOnSet(a, (2..(k + 1)) \cup {1}) = a[1] + SumFunctionOnSet(a, 2..(k + 1))
    BY <2>1, <2>2, <2>3, <2>4, SumAdd
  <2> QED BY <1>17, <2>1, <2>5
<1>21. SumFunctionOnSet(f, 1..k) = Owed(later, 1) - extra
  BY <1>8, <1>17, KeptOwe
<1>22. totalMinor(later) = Owed(later, 1) /\ Owed(later, 1) \in Int
  <2>1. totalMinor(later) = Owed(later, 1)
    BY TotalOwed
  <2>2. \A i \in 1..Len(later) : Amounts(later)[i] \in Int
    BY InstalmentFacts
  <2>3. Owed(later, 1) \in Int
    <3>1. IsFiniteSet(1..Len(later))
      BY <1>1, FS_Interval
    <3>2. SumFunctionOnSet(Amounts(later), 1..Len(later)) \in Int
      BY <2>2, <3>1, SumType
    <3> QED BY <3>2 DEF Owed
  <2> QED BY <2>1, <2>3
<1>23. totalMinor(r) = totalMinor(later) + target.amount
  BY <1>5, <1>18, <1>19, <1>20, <1>21, <1>22
<1> QED BY <1>3, <1>4, <1>6, <1>7, <1>23 DEF MovesExactly

\* accelerateTail takes the extra from the end of the schedule and gives it to
\* the target month, whatever the instalments are worth and wherever the walk
\* stops; the lists TLC evaluates are some of them.
THEOREM AccelerationsMoveTheCalendar ==
  /\ \A R, later : \A extra \in Nat :
       Instalments(R, later) /\ CanAbsorb(later, extra) =>
         \A target \in R : MovesExactly(target, later, extra)
  /\ Spec => []AccelerationMovesCalendar
<1>1. MovesCalendar
  <2> SUFFICES ASSUME NEW extra \in 1..MaxAmount, NEW list \in SeqOf(1..MaxRow, MaxRows),
                      CanAbsorb(SampleRows(list), extra)
               PROVE  MovesExactly(SampleTarget, SampleRows(list), extra)
    BY DEF MovesCalendar
  <2>1. PICK m \in 0..MaxRows : list \in [1..m -> 1..MaxRow]
    BY DEF SeqOf
  <2>2. m \in Nat /\ Len(list) = m
    BY <2>1 DEF MaxRows
  <2>3. PICK p : p = periodsFrom(SampleMonth, Len(list) + 1)
    OBVIOUS
  <2>4. PICK P : P = {SampleMonth} \cup {p[i + 1] : i \in 1..m}
    OBVIOUS
  <2> DEFINE R == [period : P, amount : Nat]
             later == SampleRows(list)
  <2>5. later = [i \in 1..m |-> [period |-> p[i + 1], amount |-> list[i]]]
    BY <2>2, <2>3 DEF SampleRows
  <2>6. \A i \in 1..m : list[i] \in Nat /\ list[i] >= 1
    BY <2>1 DEF MaxRow
  <2>7. \A i \in 1..m : later[i] \in R /\ later[i].amount >= 1
    BY <2>4, <2>5, <2>6
  <2>8. later \in Seq(R) /\ DOMAIN later = 1..m
    <3>1. PICK q : q = later
      OBVIOUS
    <3>2. q \in [1..m -> R]
      BY <2>5, <2>7, <3>1
    <3>3. q \in Seq(R) /\ DOMAIN q = 1..m
      <4> HIDE DEF R
      <4> QED BY <2>2, <3>2
    <3> QED BY <3>1, <3>3
  <2>9. Payable(R)
    BY DEF Payable
  <2>10. SampleTarget \in R
    BY <2>4 DEF SampleTarget
  <2>11. extra \in Nat
    BY DEF MaxAmount
  <2>12. Instalments(R, later)
    BY <2>7, <2>8, <2>9 DEF Instalments
  <2> HIDE DEF R
  <2> QED BY <2>10, <2>11, <2>12, AccelerateMoves
<1>2. AccelerationMovesCalendar
  BY <1>1 DEF AccelerationMovesCalendar
<1>3. \A R, later : \A extra \in Nat :
         Instalments(R, later) /\ CanAbsorb(later, extra) =>
           \A target \in R : MovesExactly(target, later, extra)
  BY AccelerateMoves
<1> QED BY <1>2, <1>3, PTL

-----------------------------------------------------------------------------
Fields == {"step", "op", "v", "was", "paid", "cancel", "rows", "period", "no",
           "lines", "entry", "closed"}

\* The collections are functions, the documents and the requests records.
Shape ==
  /\ loan = [status |-> loan.status, v |-> loan.v, external |-> loan.external]
  /\ loan.v \in Nat
  /\ row = [s \in Seqs |-> [status |-> row[s].status, period |-> row[s].period,
                            amount |-> row[s].amount]]
  /\ ledger = [p \in Periods |-> ledger[p]]
  /\ req = [w \in Workers |-> req[w]]
  /\ \A w \in Workers : req[w] = [f \in Fields |-> req[w][f]]

\* The statuses each request accepts when it begins.
Accepts(op) ==
  CASE op \in {"disburse", "cancel"}                  -> {"approved"}
    [] op \in {"reschedule", "accelerate", "settle"}  -> {"active"}
    [] op = "exit"                                    -> {"approved", "active"}
    [] OTHER                                          -> {}

\* As long as the version that was read is current, so is the status.
Current(q, status) ==
  q.v \in Nat /\ q.v <= loan.v /\ (q.v = loan.v => loan.status = status)

\* A line is the amount of an instalment of its month.
Names(line, p) ==
  \E s \in Seqs : /\ line = [seq |-> s, amount |-> row[s].amount]
                  /\ row[s].period = p
                  /\ row[s].status # "none"

Taken(q) == \E x \in slips : x.period = q.period /\ q.lines \subseteq x.lines

\* What a request has read, and what it has already written.
Sound(q) ==
  /\ q.step \in {"plan", "months", "withdraw", "write", "balance"} => q.op # "pass"
  /\ q.step \in {"price", "slip", "record", "mark", "cleared"} => q.op = "pass"
  /\ q.op = "pass" => q.period \in Periods
  /\ q.step # "idle" /\ q.op # "pass" => q.was \in Accepts(q.op) /\ Current(q, q.was)
  /\ q.step = "update" /\ q.op = "pass" => Current(q, "active")
  /\ q.op = "pass" /\ q.step \in {"record", "mark", "cleared", "update"} => Taken(q)
  /\ \A line \in q.lines : Names(line, q.period)
  /\ q.step = "mark" => Names(q.entry, q.period) /\ ledger[q.period] = q.entry

\* An instalment that says deducted is the one in the ledger.
Recorded ==
  \A s \in Seqs : row[s].status = "deducted" =>
    /\ row[s].period \in Periods
    /\ ledger[row[s].period] = [seq |-> s, amount |-> row[s].amount]

LoanInv == Shape /\ (\A w \in Workers : Sound(req[w])) /\ Recorded /\ LedgerBacked

\* What no step takes back.
Keeps ==
  /\ loan' = loan \/ loan'.v = loan.v + 1
  /\ \A x \in slips : x \in slips'
  /\ \A p \in Periods : ledger[p] # NoEntry => ledger'[p] = ledger[p]
  /\ \A s \in Seqs : row[s].status # "none" =>
       row'[s].status # "none" /\ row'[s].period = row[s].period /\ row'[s].amount = row[s].amount

-----------------------------------------------------------------------------
LEMMA NamesKept ==
  ASSUME Keeps, NEW line, NEW p, Names(line, p)
  PROVE  Names(line, p)' /\ line # NoEntry
<1>1. PICK s \in Seqs : /\ line = [seq |-> s, amount |-> row[s].amount]
                        /\ row[s].period = p
                        /\ row[s].status # "none"
  BY DEF Names
<1>2. line.seq # 0
  BY <1>1 DEF Seqs
<1> QED BY <1>1, <1>2 DEF Names, Keeps, NoEntry

\* What a request has read stays true whatever the others do.
LEMMA SoundKept ==
  ASSUME Shape, Keeps, NEW q, Sound(q)
  PROVE  Sound(q)'
<1>1. \A status : Current(q, status) => Current(q, status)'
  BY DEF Current, Keeps, Shape
<1>2. Taken(q) => Taken(q)'
  BY DEF Taken, Keeps
<1>3. \A line : Names(line, q.period) => Names(line, q.period)'
  BY NamesKept
<1>4. q.step = "mark" => Names(q.entry, q.period)' /\ ledger'[q.period] = q.entry
  <2>1. q.step = "mark" => q.period \in Periods /\ Names(q.entry, q.period) /\ ledger[q.period] = q.entry
    BY DEF Sound
  <2>2. q.step = "mark" => q.entry # NoEntry
    BY <2>1, NamesKept
  <2> QED BY <1>3, <2>1, <2>2 DEF Keeps
<1> QED BY <1>1, <1>2, <1>3, <1>4 DEF Sound

\* The step of one request.
LEMMA Assemble ==
  ASSUME Shape, \A w \in Workers : Sound(req[w]), Keeps,
         NEW w \in Workers, NEW q, req' = [req EXCEPT ![w] = q], Sound(q)'
  PROVE  \A x \in Workers : Sound(req[x])'
<1> SUFFICES ASSUME NEW x \in Workers PROVE Sound(req[x])'
  OBVIOUS
<1>1. PICK r : r = req'[x]
  OBVIOUS
<1>2. Sound(r)'
  <2>1. CASE x = w
    BY <1>1, <2>1 DEF Shape
  <2>2. CASE x # w
    <3>1. r = req[x] /\ Sound(req[x])
      BY <1>1, <2>2 DEF Shape
    <3>2. Sound(r)
      BY <3>1
    <3> QED BY <3>2, SoundKept
  <2> QED BY <2>1, <2>2
<1> QED BY <1>1, <1>2 DEF Sound, Current, Taken, Names

\* A step that leaves the four collections alone.
LEMMA Reads ==
  ASSUME LoanInv, UNCHANGED <<loan, row, ledger, slips>>,
         NEW w \in Workers, NEW q, req' = [req EXCEPT ![w] = q],
         q = [f \in Fields |-> q[f]], Sound(q)
  PROVE  LoanInv'
<1>1. Keeps
  BY DEF Keeps
<1>2. Sound(q)'
  BY <1>1, SoundKept DEF LoanInv
<1>3. \A x \in Workers : Sound(req[x])'
  BY <1>1, <1>2, Assemble DEF LoanInv
<1>4. Shape'
  BY DEF LoanInv, Shape
<1> QED BY <1>3, <1>4 DEF LoanInv, Recorded, LedgerBacked

LEMMA IdleSound == Sound(Idle) /\ Idle = [f \in Fields |-> Idle[f]]
<1>1. Idle = [f \in Fields |-> Idle[f]]
  BY DEF Idle, Fields
<1>2. Idle.step = "idle" /\ Idle.op = "none" /\ Idle.lines = {}
  BY DEF Idle
<1> QED BY <1>1, <1>2 DEF Sound

LEMMA LoanInitially == Init => LoanInv
<1> SUFFICES ASSUME Init PROVE LoanInv
  OBVIOUS
<1>1. Shape
  BY IdleSound DEF Init, Shape, NoRow
<1>2. \A w \in Workers : Sound(req[w])
  BY IdleSound DEF Init
<1>3. Recorded /\ LedgerBacked
  BY DEF Init, Recorded, LedgerBacked, NoRow
<1> QED BY <1>1, <1>2, <1>3 DEF LoanInv

-----------------------------------------------------------------------------
\* A request begins.
LEMMA BeginKeeps ==
  ASSUME LoanInv, NEW w \in Workers, Start(w)
  PROVE  LoanInv'
<1>1. \E op, from, step :
        /\ Begin(w, op, from, step)
        /\ from = Accepts(op) /\ op # "pass" /\ step \in {"plan", "update", "months"}
  BY DEF Start, StartDisburse, StartCancel, StartReschedule, StartAccelerate, StartSettle,
         StartExit, Accepts
<1>2. PICK op, from, step :
        /\ Begin(w, op, from, step)
        /\ from = Accepts(op) /\ op # "pass" /\ step \in {"plan", "update", "months"}
  BY <1>1
<1>3. PICK q : q = [Idle EXCEPT !.step = step, !.op = op, !.v = loan.v, !.was = loan.status]
  OBVIOUS
<1>4. /\ req' = [req EXCEPT ![w] = q]
      /\ UNCHANGED <<loan, row, ledger, slips>>
      /\ loan.status \in from
  BY <1>2, <1>3 DEF Begin
<1>5. /\ q = [f \in Fields |-> q[f]]
      /\ q.step = step /\ q.op = op /\ q.v = loan.v /\ q.was = loan.status /\ q.lines = {}
  BY <1>3 DEF Idle, Fields
<1>6. Current(q, q.was)
  BY <1>5 DEF Current, LoanInv, Shape
<1>7. Sound(q)
  BY <1>2, <1>4, <1>5, <1>6 DEF Sound
<1> QED BY <1>4, <1>5, <1>7, Reads

\* A request that only moves on, between its first read and its update.
LEMMA PlanKeeps ==
  ASSUME LoanInv, NEW w \in Workers, req[w].op # "pass", req[w].step # "idle",
         UNCHANGED <<loan, row, ledger, slips>>,
         NEW step \in {"plan", "withdraw", "write", "update"}, NEW q,
         req' = [req EXCEPT ![w] = q], q = [f \in Fields |-> q[f]],
         q.step = step, q.op = req[w].op, q.v = req[w].v, q.was = req[w].was,
         q.lines = req[w].lines, q.period = req[w].period
  PROVE  LoanInv'
<1>1. Sound(req[w])
  BY DEF LoanInv
<1>2. Sound(q)
  BY <1>1 DEF Sound, Current
<1> QED BY <1>2, Reads

\* A request that is over, or has been refused.
LEMMA EndKeeps ==
  ASSUME LoanInv, NEW w \in Workers, UNCHANGED <<loan, row, ledger, slips>>,
         req' = [req EXCEPT ![w] = Idle]
  PROVE  LoanInv'
  BY IdleSound, Reads

LEMMA ProceedKeeps ==
  ASSUME LoanInv, NEW w \in Workers, req[w].step = "plan",
         NEW step \in {"withdraw", "write"}, NEW cancel, NEW rows,
         Proceed(w, step, cancel, rows)
  PROVE  LoanInv'
<1>1. PICK q : q = [req[w] EXCEPT !.step = step, !.cancel = cancel, !.rows = rows,
                                  !.closed = {}]
  OBVIOUS
<1>2. /\ req' = [req EXCEPT ![w] = q]
      /\ q = [f \in Fields |-> q[f]]
      /\ q.step = step /\ q.op = req[w].op /\ q.v = req[w].v /\ q.was = req[w].was
      /\ q.lines = req[w].lines /\ q.period = req[w].period
  <2>1. req = [x \in Workers |-> req[x]] /\ req[w] = [f \in Fields |-> req[w][f]]
    BY DEF LoanInv, Shape
  <2>2. req' = [req EXCEPT ![w] = q]
    BY <1>1, <2>1 DEF Proceed
  <2>3. q = [f \in Fields |-> q[f]]
    BY <1>1, <2>1
  <2>4. /\ q.step = step /\ q.op = req[w].op /\ q.v = req[w].v /\ q.was = req[w].was
        /\ q.lines = req[w].lines /\ q.period = req[w].period
    BY <1>1, <2>1 DEF Fields
  <2> QED BY <2>2, <2>3, <2>4
<1>3. req[w].op # "pass" /\ req[w].step # "idle"
  BY DEF LoanInv, Sound
<1>4. UNCHANGED <<loan, row, ledger, slips>>
  BY DEF Proceed
<1> QED BY <1>2, <1>3, <1>4, PlanKeeps

\* The steps of a request before its first write.
LEMMA PlansKeep ==
  ASSUME LoanInv, NEW w \in Workers,
         \/ ReadMonths(w) \/ PlanDisburse(w) \/ PlanReschedule(w) \/ PlanAccelerate(w)
         \/ PlanSettle(w) \/ PlanExit(w) \/ Refuse(w) \/ ReadBalance(w)
  PROVE  LoanInv'
<1>1. CASE ReadMonths(w)
  <2>1. PICK q : q = req'[w]
    OBVIOUS
  <2>2. /\ req' = [req EXCEPT ![w] = q]
        /\ q = [f \in Fields |-> q[f]]
        /\ q.step = "plan" /\ q.op = req[w].op /\ q.v = req[w].v /\ q.was = req[w].was
        /\ q.lines = req[w].lines /\ q.period = req[w].period
    BY <1>1, <2>1 DEF ReadMonths, LoanInv, Shape, Fields
  <2>3. req[w].op # "pass" /\ req[w].step # "idle"
    BY <1>1 DEF ReadMonths, LoanInv, Sound
  <2>4. UNCHANGED <<loan, row, ledger, slips>>
    BY <1>1 DEF ReadMonths
  <2> QED BY <2>2, <2>3, <2>4, PlanKeeps
<1>2. CASE PlanDisburse(w)
  BY <1>2, ProceedKeeps DEF PlanDisburse, Plan
<1>3. CASE PlanReschedule(w)
  BY <1>3, ProceedKeeps DEF PlanReschedule, Plan
<1>4. CASE PlanAccelerate(w)
  BY <1>4, ProceedKeeps DEF PlanAccelerate, Plan
<1>5. CASE PlanExit(w)
  BY <1>5, ProceedKeeps DEF PlanExit, Plan
<1>6. CASE PlanSettle(w)
  <2>1. PICK q : q = [req[w] EXCEPT !.step = "withdraw", !.paid = remainingMinor]
    OBVIOUS
  <2>2. /\ req' = [req EXCEPT ![w] = q]
        /\ q = [f \in Fields |-> q[f]]
        /\ q.step = "withdraw" /\ q.op = req[w].op /\ q.v = req[w].v /\ q.was = req[w].was
        /\ q.lines = req[w].lines /\ q.period = req[w].period
    <3>1. req = [x \in Workers |-> req[x]] /\ req[w] = [f \in Fields |-> req[w][f]]
      BY DEF LoanInv, Shape
    <3>2. req' = [req EXCEPT ![w] = q]
      BY <1>6, <2>1, <3>1 DEF PlanSettle
    <3>3. q = [f \in Fields |-> q[f]]
      BY <2>1, <3>1
    <3>4. /\ q.step = "withdraw" /\ q.op = req[w].op /\ q.v = req[w].v /\ q.was = req[w].was
          /\ q.lines = req[w].lines /\ q.period = req[w].period
      BY <2>1, <3>1 DEF Fields
    <3> QED BY <3>2, <3>3, <3>4
  <2>3. req[w].op # "pass" /\ req[w].step # "idle"
    <3>1. req[w].step = "plan" /\ Sound(req[w])
      BY <1>6 DEF PlanSettle, Plan, LoanInv
    <3> QED BY <3>1 DEF Sound
  <2>4. UNCHANGED <<loan, row, ledger, slips>>
    BY <1>6 DEF PlanSettle
  <2> QED BY <2>2, <2>3, <2>4, PlanKeeps
<1>7. CASE Refuse(w)
  BY <1>7, EndKeeps DEF Refuse
<1>8. CASE ReadBalance(w)
  <2>1. UNCHANGED <<loan, row, ledger, slips>> /\ req[w].step = "balance"
    BY <1>8 DEF ReadBalance
  <2>2. CASE remainingMinor <= 0
    BY <1>8, <2>1, <2>2, EndKeeps DEF ReadBalance
  <2>3. CASE ~(remainingMinor <= 0)
    <3>1. PICK q : q = req'[w]
      OBVIOUS
    <3>2. /\ req' = [req EXCEPT ![w] = q]
          /\ q = [f \in Fields |-> q[f]]
          /\ q.step = "update" /\ q.op = req[w].op /\ q.v = req[w].v /\ q.was = req[w].was
          /\ q.lines = req[w].lines /\ q.period = req[w].period
      BY <1>8, <2>3, <3>1 DEF ReadBalance, LoanInv, Shape, Fields
    <3>3. req[w].op # "pass" /\ req[w].step # "idle"
      BY <2>1 DEF LoanInv, Sound
    <3> QED BY <2>1, <3>2, <3>3, PlanKeeps
  <2> QED BY <2>2, <2>3
<1> QED BY <1>1, <1>2, <1>3, <1>4, <1>5, <1>6, <1>7, <1>8

-----------------------------------------------------------------------------
\* A step that writes rows on behalf of a schedule.
LEMMA RowsKeep ==
  ASSUME LoanInv, NEW w \in Workers, req[w].op # "pass", req[w].step # "idle",
         UNCHANGED <<loan, ledger, slips>>,
         row' = [s \in Seqs |-> row'[s]],
         \A s \in Seqs : row'[s] = [status |-> row'[s].status, period |-> row'[s].period,
                                    amount |-> row'[s].amount],
         \A s \in Seqs : row[s].status # "none" =>
           /\ row'[s].status # "none"
           /\ row'[s].period = row[s].period /\ row'[s].amount = row[s].amount,
         \A s \in Seqs : row'[s].status = "deducted" => row'[s] = row[s],
         NEW q, req' = [req EXCEPT ![w] = q], q = [f \in Fields |-> q[f]],
         \/ q = Idle
         \/ /\ q.step \in {"write", "update", "balance"}
            /\ q.op = req[w].op /\ q.v = req[w].v /\ q.was = req[w].was
            /\ q.lines = req[w].lines /\ q.period = req[w].period
  PROVE  LoanInv'
<1>1. Keeps
  BY DEF Keeps
<1>2. Sound(q)
  <2>1. Sound(req[w])
    BY DEF LoanInv
  <2> QED BY <2>1, IdleSound DEF Sound, Current
<1>3. Sound(q)'
  BY <1>1, <1>2, SoundKept DEF LoanInv
<1>4. \A x \in Workers : Sound(req[x])'
  BY <1>1, <1>3, Assemble DEF LoanInv
<1>5. Shape'
  BY DEF LoanInv, Shape
<1>6. Recorded' /\ LedgerBacked'
  BY DEF LoanInv, Recorded, LedgerBacked
<1> QED BY <1>4, <1>5, <1>6 DEF LoanInv

LEMMA SchedulesKeep ==
  ASSUME LoanInv, NEW w \in Workers, Withdraw(w) \/ WriteRow(w)
  PROVE  LoanInv'
<1>1. /\ req = [x \in Workers |-> req[x]] /\ req[w] = [f \in Fields |-> req[w][f]]
      /\ row = [s \in Seqs |-> row[s]]
      /\ \A s \in Seqs : row[s] = [status |-> row[s].status, period |-> row[s].period,
                                   amount |-> row[s].amount]
  BY DEF LoanInv, Shape
<1>2. Sound(req[w])
  BY DEF LoanInv
<1>3. CASE Withdraw(w)
  <2> DEFINE gone == IF req[w].op = "settle" THEN Planned ELSE req[w].cancel
  <2>1. PICK q : q = [req[w] EXCEPT !.step = AfterWithdraw(req[w]), !.cancel = {}]
    OBVIOUS
  <2>2. req[w].op # "pass" /\ req[w].step # "idle"
    BY <1>2, <1>3 DEF Withdraw, Sound
  <2>3. req' = [req EXCEPT ![w] = q]
    BY <1>1, <1>3, <2>1 DEF Withdraw
  <2>4. /\ q = [f \in Fields |-> q[f]]
        /\ q.step = AfterWithdraw(req[w]) /\ q.op = req[w].op /\ q.v = req[w].v
        /\ q.was = req[w].was /\ q.lines = req[w].lines /\ q.period = req[w].period
    BY <1>1, <2>1 DEF Fields
  <2>5. q.step \in {"write", "update", "balance"}
    BY <2>4 DEF AfterWithdraw
  <2>6. /\ UNCHANGED <<loan, ledger, slips>>
        /\ row' = [s \in Seqs |->
                     IF s \in gone THEN [row[s] EXCEPT !.status = "cancelled"] ELSE row[s]]
    BY <1>3 DEF Withdraw
  <2>7. \A s \in Seqs :
          \/ row'[s] = row[s]
          \/ row'[s] = [status |-> "cancelled", period |-> row[s].period, amount |-> row[s].amount]
    BY <1>1, <2>6
  <2> QED BY <1>1, <2>2, <2>3, <2>4, <2>5, <2>6, <2>7, RowsKeep
<1>4. CASE WriteRow(w)
  <2> DEFINE r == Head(req[w].rows)
             missing == row[r.seq].status = "none"
             clash == \E t \in Planned : row[t].period = r.period
  <2>1. req[w].op # "pass" /\ req[w].step = "write"
    BY <1>2, <1>4 DEF WriteRow, Sound
  <2>2. CASE missing /\ clash
    <3>1. req' = [req EXCEPT ![w] = Idle] /\ UNCHANGED <<loan, row, ledger, slips>>
      BY <1>4, <2>2 DEF WriteRow
    <3> QED BY <3>1, EndKeeps
  <2>3. CASE ~ (missing /\ clash)
    <3>q. PICK q : q = [req[w] EXCEPT !.rows = Tail(req[w].rows),
                                      !.step = IF Len(req[w].rows) = 1 THEN "update"
                                               ELSE req[w].step]
      OBVIOUS
    <3>0. req' = [req EXCEPT ![w] = q]
      <4>1. req' = [req EXCEPT ![w].rows = Tail(@),
                              ![w].step = IF Len(req[w].rows) = 1 THEN "update" ELSE @]
        BY <1>4, <2>3 DEF WriteRow
      <4> QED BY <1>1, <3>q, <4>1 DEF Fields
    <3>1. /\ q = [f \in Fields |-> q[f]]
          /\ q.op = req[w].op /\ q.v = req[w].v /\ q.was = req[w].was
          /\ q.lines = req[w].lines /\ q.period = req[w].period
      BY <1>1, <3>q DEF Fields
    <3>2. q.step \in {"write", "update"}
      BY <1>1, <2>1, <3>q DEF Fields
    <3>3. /\ UNCHANGED <<loan, ledger, slips>>
          /\ \/ row' = row
             \/ /\ row[r.seq].status = "none"
                /\ row' = [row EXCEPT ![r.seq] = [status |-> "planned", period |-> r.period,
                                                  amount |-> r.amount]]
      BY <1>4 DEF WriteRow
    <3>4. \A s \in Seqs :
            \/ row'[s] = row[s]
            \/ /\ row[s].status = "none"
               /\ row'[s] = [status |-> "planned", period |-> r.period, amount |-> r.amount]
      BY <1>1, <3>3
    <3>5. row' = [s \in Seqs |-> row'[s]]
      BY <1>1, <3>3
    <3> QED BY <1>1, <2>1, <3>0, <3>1, <3>2, <3>3, <3>4, <3>5, RowsKeep
  <2> QED BY <2>2, <2>3
<1> QED BY <1>3, <1>4

-----------------------------------------------------------------------------
\* The payslip pass.
LEMMA PassBegins ==
  ASSUME LoanInv, NEW w \in Workers, NEW p \in Periods, StartPass(w, p)
  PROVE  LoanInv'
<1>1. PICK q : q = [Idle EXCEPT !.step = "price", !.op = "pass", !.period = p, !.no = runNo[p]]
  OBVIOUS
<1>2. req' = [req EXCEPT ![w] = q] /\ UNCHANGED <<loan, row, ledger, slips>>
  BY <1>1 DEF StartPass
<1>3. /\ q = [f \in Fields |-> q[f]]
      /\ q.step = "price" /\ q.op = "pass" /\ q.period = p /\ q.lines = {}
  BY <1>1 DEF Idle, Fields
<1>4. Sound(q)
  BY <1>3 DEF Sound
<1> QED BY <1>2, <1>3, <1>4, Reads

LEMMA PassPrices ==
  ASSUME LoanInv, NEW w \in Workers, PricePass(w)
  PROVE  LoanInv'
<1>1. /\ req = [x \in Workers |-> req[x]] /\ req[w] = [f \in Fields |-> req[w][f]]
      /\ Sound(req[w])
  BY DEF LoanInv, Shape
<1>2. PICK q : q = [req[w] EXCEPT !.step = "slip", !.lines = Due(req[w].period)]
  OBVIOUS
<1>3. req' = [req EXCEPT ![w] = q] /\ UNCHANGED <<loan, row, ledger, slips>>
  BY <1>1, <1>2 DEF PricePass
<1>4. /\ q = [f \in Fields |-> q[f]]
      /\ q.step = "slip" /\ q.op = req[w].op /\ q.period = req[w].period
      /\ q.lines = Due(req[w].period)
  BY <1>1, <1>2 DEF Fields
<1>5. req[w].op = "pass" /\ req[w].period \in Periods
  BY <1>1 DEF PricePass, Sound
<1>6. \A line \in q.lines : Names(line, q.period)
  BY <1>4 DEF Due, Names
<1>7. Sound(q)
  BY <1>4, <1>5, <1>6 DEF Sound
<1> QED BY <1>3, <1>4, <1>7, Reads

LEMMA NextLineSound ==
  ASSUME NEW q, q = [f \in Fields |-> q[f]], q.op = "pass", q.period \in Periods, Taken(q)',
         \A line \in q.lines : Names(line, q.period)'
  PROVE  Sound(NextLine(q))' /\ NextLine(q) = [f \in Fields |-> NextLine(q)[f]]
<1>1. CASE q.lines = {}
  <2>1. NextLine(q) = Idle
    BY <1>1 DEF NextLine
  <2>2. Idle.step = "idle" /\ Idle.op = "none" /\ Idle.lines = {}
    BY DEF Idle
  <2>3. Sound(Idle)'
    BY <2>2 DEF Sound
  <2> QED BY <2>1, <2>3, IdleSound
<1>2. CASE q.lines # {}
  <2>1. PICK r : r = [q EXCEPT !.step = "record"]
    OBVIOUS
  <2>2. NextLine(q) = r
    BY <1>2, <2>1 DEF NextLine
  <2>3. /\ r = [f \in Fields |-> r[f]]
        /\ r.step = "record" /\ r.op = "pass" /\ r.period = q.period /\ r.lines = q.lines
    BY <2>1 DEF Fields
  <2>4. Taken(r)'
    BY <2>3 DEF Taken
  <2>5. Sound(r)'
    BY <2>3, <2>4 DEF Sound
  <2> QED BY <2>2, <2>3, <2>5
<1> QED BY <1>1, <1>2

\* The step of a pass that only appends to the collections, or marks a row.
LEMMA PassKeeps ==
  ASSUME LoanInv, Shape', Keeps, NEW w \in Workers, NEW q,
         req' = [req EXCEPT ![w] = q], Sound(q)', Recorded', LedgerBacked'
  PROVE  LoanInv'
<1>1. \A x \in Workers : Sound(req[x])'
  BY Assemble DEF LoanInv
<1> QED BY <1>1 DEF LoanInv

\* The pass of request w turns to its next line after a step that keeps what
\* it relies on.
LEMMA TurnsToNextLine ==
  ASSUME LoanInv, Keeps, NEW q, q = [f \in Fields |-> q[f]], q.op = "pass",
         q.period \in Periods, Taken(q)', \A line \in q.lines : Names(line, q.period)
  PROVE  Sound(NextLine(q))' /\ NextLine(q) = [f \in Fields |-> NextLine(q)[f]]
<1>1. \A line \in q.lines : Names(line, q.period)'
  BY NamesKept
<1> QED BY <1>1, NextLineSound

LEMMA SlipKeeps ==
  ASSUME LoanInv, NEW w \in Workers, WriteSlip(w)
  PROVE  LoanInv'
<1> DEFINE exists == \E x \in slips : x.period = req[w].period /\ x.no = req[w].no
<1>1. /\ req = [x \in Workers |-> req[x]] /\ req[w] = [f \in Fields |-> req[w][f]]
      /\ Sound(req[w]) /\ req[w].step = "slip"
  BY DEF LoanInv, Shape, WriteSlip
<1>2. CASE exists
  BY <1>2, EndKeeps DEF WriteSlip
<1>3. CASE ~ exists
  <2>1. PICK x : x = [period |-> req[w].period, no |-> req[w].no, lines |-> req[w].lines]
    OBVIOUS
  <2>2. PICK q : q = NextLine(req[w])
    OBVIOUS
  <2>3. /\ slips' = slips \cup {x} /\ req' = [req EXCEPT ![w] = q]
        /\ UNCHANGED <<loan, row, ledger>>
    BY <1>3, <2>1, <2>2 DEF WriteSlip
  <2>4. Keeps
    BY <2>3 DEF Keeps
  <2>5. PICK r : r = req[w]
    OBVIOUS
  <2>6. r.op = "pass" /\ r.period \in Periods /\ \A line \in r.lines : Names(line, r.period)
    BY <1>1, <2>5 DEF Sound
  <2>7. Taken(r)'
    <3>1. x \in slips' /\ x.period = r.period /\ x.lines = r.lines
      BY <2>1, <2>3, <2>5
    <3> QED BY <3>1 DEF Taken
  <2>8. Sound(NextLine(r))' /\ NextLine(r) = [f \in Fields |-> NextLine(r)[f]]
    BY <1>1, <2>4, <2>5, <2>6, <2>7, TurnsToNextLine
  <2>9. Sound(q)' /\ q = [f \in Fields |-> q[f]]
    BY <2>2, <2>5, <2>8
  <2>10. Shape'
    BY <1>1, <2>3, <2>9 DEF LoanInv, Shape
  <2>11. Recorded' /\ LedgerBacked'
    BY <2>3 DEF LoanInv, Recorded, LedgerBacked
  <2> QED BY <2>3, <2>4, <2>9, <2>10, <2>11, PassKeeps
<1> QED BY <1>2, <1>3

LEMMA EntryKeeps ==
  ASSUME LoanInv, NEW w \in Workers, RecordEntry(w)
  PROVE  LoanInv'
<1>1. /\ req = [x \in Workers |-> req[x]] /\ req[w] = [f \in Fields |-> req[w][f]]
      /\ Sound(req[w]) /\ ledger = [p \in Periods |-> ledger[p]]
  BY DEF LoanInv, Shape
<1>2. PICK line \in req[w].lines :
        LET inserted == ledger[req[w].period] = NoEntry
            rest == [req[w] EXCEPT !.lines = @ \ {line}] IN
          /\ req[w].step = "record"
          /\ ledger' = IF inserted THEN [ledger EXCEPT ![req[w].period] = line] ELSE ledger
          /\ req' = [req EXCEPT ![w] =
                       IF inserted THEN [rest EXCEPT !.step = "mark", !.entry = line]
                       ELSE NextLine(rest)]
          /\ UNCHANGED <<loan, row, slips>>
  BY Zenon DEF RecordEntry
<1>3. PICK rest : rest = [req[w] EXCEPT !.lines = @ \ {line}]
  OBVIOUS
<1>4. PICK p : p = req[w].period
  OBVIOUS
<1>5. /\ rest = [f \in Fields |-> rest[f]]
      /\ rest.op = req[w].op /\ rest.period = p /\ rest.lines = req[w].lines \ {line}
  BY <1>1, <1>3, <1>4 DEF Fields
<1>6. /\ req[w].op = "pass" /\ p \in Periods
      /\ \A l \in req[w].lines : Names(l, p)
      /\ \E x \in slips : x.period = p /\ req[w].lines \subseteq x.lines
  BY <1>1, <1>2, <1>4 DEF Sound, Taken
<1>7. UNCHANGED <<loan, row, slips>>
  BY <1>2
<1>8. Taken(rest)'
  BY <1>5, <1>6, <1>7 DEF Taken
<1>9. CASE ledger[p] = NoEntry
  <2>1. PICK q : q = [rest EXCEPT !.step = "mark", !.entry = line]
    OBVIOUS
  <2>2. ledger' = [ledger EXCEPT ![p] = line] /\ req' = [req EXCEPT ![w] = q]
    BY <1>2, <1>3, <1>4, <1>9, <2>1
  <2>3. Keeps
    BY <1>1, <1>7, <1>9, <2>2 DEF Keeps
  <2>4. /\ q = [f \in Fields |-> q[f]]
        /\ q.step = "mark" /\ q.op = "pass" /\ q.period = p /\ q.entry = line
        /\ q.lines = req[w].lines \ {line}
    BY <1>5, <1>6, <2>1 DEF Fields
  <2>5. ledger'[p] = line
    BY <1>1, <1>6, <2>2
  <2>6. \A l \in req[w].lines : Names(l, p)'
    BY <1>6, <2>3, NamesKept
  <2>7. Taken(q)'
    BY <1>5, <1>8, <2>4 DEF Taken
  <2>8. Sound(q)'
    BY <1>6, <2>4, <2>5, <2>6, <2>7 DEF Sound
  <2>9. Shape'
    BY <1>1, <1>7, <2>2, <2>4 DEF LoanInv, Shape
  <2>10. Recorded'
    <3>1. \A s \in Seqs : [seq |-> s, amount |-> row[s].amount] # NoEntry
      BY DEF NoEntry, Seqs
    <3> QED BY <1>7, <2>3, <3>1 DEF Keeps, LoanInv, Recorded
  <2>11. LedgerBacked'
    BY <1>1, <1>6, <1>7, <2>2 DEF LoanInv, LedgerBacked
  <2> QED BY <2>2, <2>3, <2>8, <2>9, <2>10, <2>11, PassKeeps
<1>10. CASE ledger[p] # NoEntry
  <2>1. PICK q : q = NextLine(rest)
    OBVIOUS
  <2>2. ledger' = ledger /\ req' = [req EXCEPT ![w] = q]
    BY <1>2, <1>3, <1>4, <1>10, <2>1
  <2>3. Keeps
    BY <1>7, <2>2 DEF Keeps
  <2>4. Sound(NextLine(rest))' /\ NextLine(rest) = [f \in Fields |-> NextLine(rest)[f]]
    BY <1>5, <1>6, <1>8, <2>3, TurnsToNextLine
  <2>5. Sound(q)' /\ q = [f \in Fields |-> q[f]]
    BY <2>1, <2>4
  <2>6. Shape'
    BY <1>1, <1>7, <2>2, <2>5 DEF LoanInv, Shape
  <2>7. Recorded' /\ LedgerBacked'
    BY <1>7, <2>2 DEF LoanInv, Recorded, LedgerBacked
  <2> QED BY <2>2, <2>3, <2>5, <2>6, <2>7, PassKeeps
<1> QED BY <1>9, <1>10

LEMMA MarkKeeps ==
  ASSUME LoanInv, NEW w \in Workers, MarkDeducted(w)
  PROVE  LoanInv'
<1>1. /\ req = [x \in Workers |-> req[x]] /\ req[w] = [f \in Fields |-> req[w][f]]
      /\ row = [s \in Seqs |-> row[s]]
      /\ \A s \in Seqs : row[s] = [status |-> row[s].status, period |-> row[s].period,
                                   amount |-> row[s].amount]
      /\ Sound(req[w]) /\ req[w].step = "mark"
  BY DEF LoanInv, Shape, MarkDeducted
<1>2. PICK p : p = req[w].period
  OBVIOUS
<1>3. /\ req[w].op = "pass" /\ p \in Periods /\ Taken(req[w])
      /\ \A l \in req[w].lines : Names(l, p)
      /\ Names(req[w].entry, p) /\ ledger[p] = req[w].entry
  BY <1>1, <1>2 DEF Sound
<1>4. PICK s \in Seqs : /\ req[w].entry = [seq |-> s, amount |-> row[s].amount]
                        /\ row[s].period = p /\ row[s].status # "none"
  BY <1>3 DEF Names
<1>5. PICK q : q = [req[w] EXCEPT !.step = "cleared", !.entry = NoEntry]
  OBVIOUS
<1>6. /\ req' = [req EXCEPT ![w] = q] /\ UNCHANGED <<loan, ledger, slips>>
      /\ row' = [row EXCEPT ![s].status = IF @ = "planned" THEN "deducted" ELSE @]
  <2>1. req[w].entry.seq = s
    BY <1>4
  <2>2. req' = [req EXCEPT ![w] = q]
    BY <1>1, <1>5 DEF MarkDeducted, Fields
  <2>3. row' = [row EXCEPT ![s].status = IF @ = "planned" THEN "deducted" ELSE @]
    BY <2>1, Zenon DEF MarkDeducted
  <2>4. UNCHANGED <<loan, ledger, slips>>
    BY DEF MarkDeducted
  <2> QED BY <2>2, <2>3, <2>4
<1>7. /\ q = [f \in Fields |-> q[f]]
      /\ q.step = "cleared" /\ q.op = "pass" /\ q.period = p /\ q.lines = req[w].lines
  BY <1>1, <1>2, <1>3, <1>5 DEF Fields
<1>8. /\ row' = [t \in Seqs |-> row'[t]]
      /\ \A t \in Seqs : t # s => row'[t] = row[t]
      /\ row'[s] = [status |-> IF row[s].status = "planned" THEN "deducted" ELSE row[s].status,
                    period |-> p, amount |-> row[s].amount]
  BY <1>1, <1>4, <1>6
<1>9. Keeps
  BY <1>4, <1>6, <1>8 DEF Keeps
<1>10. \A l \in q.lines : Names(l, p)'
  BY <1>3, <1>7, <1>9, NamesKept
<1>11. Taken(q)'
  BY <1>2, <1>3, <1>6, <1>7 DEF Taken
<1>12. Sound(q)'
  BY <1>3, <1>7, <1>10, <1>11 DEF Sound
<1>13. Shape'
  <2>1. /\ req' = [x \in Workers |-> req'[x]]
        /\ \A x \in Workers : req'[x] = [f \in Fields |-> req'[x][f]]
    BY <1>6, <1>7 DEF LoanInv, Shape
  <2>2. \A t \in Seqs : row'[t] = [status |-> row'[t].status, period |-> row'[t].period,
                                   amount |-> row'[t].amount]
    BY <1>1, <1>8
  <2>3. row' = [t \in Seqs |-> [status |-> row'[t].status, period |-> row'[t].period,
                                amount |-> row'[t].amount]]
    BY <1>8, <2>2
  <2> QED BY <1>6, <2>1, <2>3 DEF LoanInv, Shape
<1>14. Recorded'
  BY <1>3, <1>4, <1>6, <1>8 DEF LoanInv, Recorded
<1>15. LedgerBacked'
  BY <1>6 DEF LoanInv, LedgerBacked
<1> QED BY <1>6, <1>9, <1>12, <1>13, <1>14, <1>15, PassKeeps

LEMMA ClearedKeeps ==
  ASSUME LoanInv, NEW w \in Workers, settleIfCleared(w)
  PROVE  LoanInv'
<1>1. /\ req = [x \in Workers |-> req[x]] /\ req[w] = [f \in Fields |-> req[w][f]]
      /\ Sound(req[w]) /\ req[w].step = "cleared"
  BY DEF LoanInv, Shape, settleIfCleared
<1>2. /\ req[w].op = "pass" /\ req[w].period \in Periods /\ Taken(req[w])
      /\ \A l \in req[w].lines : Names(l, req[w].period)
  BY <1>1 DEF Sound
<1>3. UNCHANGED <<loan, row, ledger, slips>>
  BY DEF settleIfCleared
<1>4. Keeps
  BY <1>3 DEF Keeps
<1>5. CASE loan.status = "active" /\ remainingMinor <= 0
  <2>1. PICK q : q = [req[w] EXCEPT !.step = "update", !.v = loan.v]
    OBVIOUS
  <2>2. req' = [req EXCEPT ![w] = q]
    BY <1>5, <2>1 DEF settleIfCleared
  <2>3. /\ q = [f \in Fields |-> q[f]]
        /\ q.step = "update" /\ q.op = "pass" /\ q.v = loan.v
        /\ q.period = req[w].period /\ q.lines = req[w].lines
    BY <1>1, <1>2, <2>1 DEF Fields
  <2>4. Current(q, "active")
    BY <1>5, <2>3 DEF Current, LoanInv, Shape
  <2>5. Sound(q)
    BY <1>2, <2>3, <2>4 DEF Sound, Taken
  <2> QED BY <1>3, <2>2, <2>3, <2>5, Reads
<1>6. CASE ~ (loan.status = "active" /\ remainingMinor <= 0)
  <2>1. PICK q : q = NextLine(req[w])
    OBVIOUS
  <2>2. req' = [req EXCEPT ![w] = q]
    BY <1>6, <2>1 DEF settleIfCleared
  <2>3. PICK r : r = req[w]
    OBVIOUS
  <2>4. Taken(r)'
    BY <1>2, <1>3, <2>3 DEF Taken
  <2>5. Sound(NextLine(r))' /\ NextLine(r) = [f \in Fields |-> NextLine(r)[f]]
    BY <1>1, <1>2, <1>4, <2>3, <2>4, TurnsToNextLine
  <2>6. Sound(q)' /\ q = [f \in Fields |-> q[f]]
    BY <2>1, <2>3, <2>5
  <2>7. Shape'
    BY <1>1, <1>3, <2>2, <2>6 DEF LoanInv, Shape
  <2>8. Recorded' /\ LedgerBacked'
    BY <1>3 DEF LoanInv, Recorded, LedgerBacked
  <2> QED BY <1>4, <2>2, <2>6, <2>7, <2>8, PassKeeps
<1> QED BY <1>5, <1>6

-----------------------------------------------------------------------------
\* The write of the loan document.
LEMMA UpdateKeeps ==
  ASSUME LoanInv, NEW w \in Workers, Update(w)
  PROVE  LoanInv'
<1>1. /\ req = [x \in Workers |-> req[x]] /\ req[w] = [f \in Fields |-> req[w][f]]
      /\ Sound(req[w]) /\ req[w].step = "update"
  BY DEF LoanInv, Shape, Update
<1>2. /\ loan' = [status |-> Outcome(req[w]), v |-> loan.v + 1,
                  external |-> loan.external + req[w].paid]
      /\ UNCHANGED <<row, ledger, slips>>
  BY DEF Update
<1>3. /\ loan' = [status |-> loan'.status, v |-> loan'.v, external |-> loan'.external]
      /\ loan'.v = loan.v + 1 /\ loan'.v \in Nat
  BY <1>2 DEF LoanInv, Shape
<1>4. Keeps
  BY <1>2, <1>3 DEF Keeps
<1>5. Recorded' /\ LedgerBacked'
  BY <1>2 DEF LoanInv, Recorded, LedgerBacked
<1>6. PICK q : /\ req' = [req EXCEPT ![w] = q]
               /\ Sound(q)' /\ q = [f \in Fields |-> q[f]]
  <2>1. CASE req[w].op = "pass"
    <3>1. PICK r : r = req[w]
      OBVIOUS
    <3>2. /\ r.op = "pass" /\ r.period \in Periods /\ Taken(r)
          /\ \A l \in r.lines : Names(l, r.period)
      BY <1>1, <2>1, <3>1 DEF Sound
    <3>3. Taken(r)'
      BY <1>2, <3>2 DEF Taken
    <3>4. Sound(NextLine(r))' /\ NextLine(r) = [f \in Fields |-> NextLine(r)[f]]
      BY <1>1, <1>4, <3>1, <3>2, <3>3, TurnsToNextLine
    <3>5. PICK q : q = NextLine(r)
      OBVIOUS
    <3>6. req' = [req EXCEPT ![w] = q]
      BY <2>1, <3>1, <3>5 DEF Update
    <3>7. Sound(q)' /\ q = [f \in Fields |-> q[f]]
      BY <3>4, <3>5
    <3> QED BY <3>6, <3>7
  <2>2. CASE req[w].op # "pass"
    <3>1. PICK q : q = Idle
      OBVIOUS
    <3>2. req' = [req EXCEPT ![w] = q]
      BY <2>2, <3>1 DEF Update
    <3>3. Sound(q) /\ q = [f \in Fields |-> q[f]]
      BY <3>1, IdleSound
    <3>4. Sound(q)'
      BY <1>4, <3>3, SoundKept DEF LoanInv
    <3> QED BY <3>2, <3>3, <3>4
  <2> QED BY <2>1, <2>2
<1>7. Shape'
  BY <1>1, <1>2, <1>3, <1>6 DEF LoanInv, Shape
<1> QED BY <1>4, <1>5, <1>6, <1>7, PassKeeps

LEMMA LoanNext == LoanInv /\ [Next]_vars => LoanInv'
<1> SUFFICES ASSUME LoanInv, [Next]_vars PROVE LoanInv'
  OBVIOUS
<1>1. ASSUME UNCHANGED <<loan, row, ledger, slips, req>> PROVE LoanInv'
  <2>1. ASSUME NEW w \in Workers PROVE Sound(req[w])'
    BY <1>1 DEF LoanInv, Sound, Current, Taken, Names
  <2> QED BY <1>1, <2>1 DEF LoanInv, Shape, Recorded, LedgerBacked
<1>2. ASSUME NEW p \in Periods, OpenRun(p) \/ MoveRun(p) PROVE LoanInv'
  BY <1>1, <1>2 DEF OpenRun, MoveRun
<1>3. ASSUME NEW w \in Workers, Start(w) PROVE LoanInv'
  BY <1>3, BeginKeeps
<1>4. ASSUME NEW w \in Workers, Serve(w) PROVE LoanInv'
  <2>1. CASE \/ ReadMonths(w) \/ PlanDisburse(w) \/ PlanReschedule(w) \/ PlanAccelerate(w)
             \/ PlanSettle(w) \/ PlanExit(w) \/ Refuse(w) \/ ReadBalance(w)
    BY <2>1, PlansKeep
  <2>2. CASE Withdraw(w) \/ WriteRow(w)
    BY <2>2, SchedulesKeep
  <2>3. CASE Update(w)
    BY <2>3, UpdateKeeps
  <2>4. CASE Stale(w)
    BY <2>4, EndKeeps DEF Stale
  <2>5. CASE PricePass(w)
    BY <2>5, PassPrices
  <2>6. CASE WriteSlip(w)
    BY <2>6, SlipKeeps
  <2>7. CASE RecordEntry(w)
    BY <2>7, EntryKeeps
  <2>8. CASE MarkDeducted(w)
    BY <2>8, MarkKeeps
  <2>9. CASE settleIfCleared(w)
    BY <2>9, ClearedKeeps
  <2> QED BY <1>4, <2>1, <2>2, <2>3, <2>4, <2>5, <2>6, <2>7, <2>8, <2>9 DEF Serve
<1>5. ASSUME NEW w \in Workers, Crash(w) PROVE LoanInv'
  BY <1>5, EndKeeps DEF Crash
<1>6. ASSUME NEW w \in Workers, NEW p \in Periods, StartPass(w, p) PROVE LoanInv'
  BY <1>6, PassBegins
<1> QED BY <1>1, <1>2, <1>3, <1>4, <1>5, <1>6 DEF Next, vars

THEOREM LoanInvariant == Spec => []LoanInv
BY LoanInitially, LoanNext, PTL DEF Spec

-----------------------------------------------------------------------------
\* Every repayment in the ledger is a line of a payslip of its month: the
\* order of the writes of generateFor is enough, whatever overlaps or dies.
THEOREM RepaymentsHaveSlips == Spec => []LedgerBacked
<1>1. LoanInv => LedgerBacked
  BY DEF LoanInv
<1> QED BY <1>1, LoanInvariant, PTL

\* What markDeducted marks is what recordDeducted has inserted.
THEOREM DeductedRowsAreRecorded == Spec => []DeductedIsRecorded
<1>1. LoanInv => DeductedIsRecorded
  BY DEF LoanInv, Recorded, DeductedIsRecorded
<1> QED BY <1>1, LoanInvariant, PTL

\* The version filter of updateById keeps the loan on its lifecycle: the
\* status a request has judged is the one it overwrites.
THEOREM LoanFollowsLifecycle == Spec => LoanLifecycle
<1> DEFINE Edge == loan'.status # loan.status => <<loan.status, loan'.status>> \in LoanEdges
<1>1. ASSUME LoanInv, [Next]_vars PROVE Edge
  <2>1. ASSUME NEW w \in Workers, Update(w) PROVE Edge
    <3>1. /\ req[w].step = "update" /\ Sound(req[w]) /\ loan.v = req[w].v
          /\ loan'.status = Outcome(req[w])
      <4>1. req[w].step = "update" /\ loan.v = req[w].v
        BY <2>1 DEF Update, Fresh
      <4>2. loan'.status = Outcome(req[w])
        <5>1. loan' = [status |-> Outcome(req[w]), v |-> loan.v + 1,
                       external |-> loan.external + req[w].paid]
          BY <2>1 DEF Update
        <5> QED BY <5>1
      <4> QED BY <1>1, <4>1, <4>2 DEF LoanInv
    <3>2. CASE req[w].op = "pass"
      <4>1. loan.status = "active" /\ loan'.status = "settled"
        BY <3>1, <3>2 DEF Sound, Current, Outcome
      <4> QED BY <4>1 DEF LoanEdges
    <3>3. CASE req[w].op # "pass"
      <4>1. req[w].was \in Accepts(req[w].op) /\ loan.status = req[w].was
        BY <3>1, <3>3 DEF Sound, Current
      <4> QED BY <3>1, <3>3, <4>1 DEF Accepts, Outcome, LoanEdges
    <3> QED BY <3>2, <3>3
  <2>2. CASE \E w \in Workers : Update(w)
    BY <2>1, <2>2
  <2>3. CASE UNCHANGED loan
    BY <2>3
  <2>4. UNCHANGED loan \/ \E w \in Workers : Update(w)
    <3>1. ASSUME NEW p \in Periods, OpenRun(p) \/ MoveRun(p) PROVE UNCHANGED loan
      BY <3>1 DEF OpenRun, MoveRun
    <3>2. ASSUME NEW w \in Workers, Start(w) PROVE UNCHANGED loan
      BY <3>2 DEF Start, Begin, StartDisburse, StartCancel, StartReschedule, StartAccelerate,
         StartSettle, StartExit
    <3>3. ASSUME NEW w \in Workers,
                 \/ ReadMonths(w) \/ PlanDisburse(w) \/ PlanReschedule(w)
                 \/ PlanAccelerate(w) \/ PlanSettle(w) \/ PlanExit(w) \/ Refuse(w)
                 \/ ReadBalance(w)
          PROVE  UNCHANGED loan
      BY <3>3 DEF Proceed, ReadMonths, PlanDisburse, PlanReschedule, PlanAccelerate,
         PlanSettle, PlanExit, Refuse, ReadBalance
    <3>4. ASSUME NEW w \in Workers, Withdraw(w) \/ WriteRow(w) \/ Stale(w) PROVE UNCHANGED loan
      BY <3>4 DEF Withdraw, WriteRow, Stale
    <3>5. ASSUME NEW w \in Workers,
                 \/ PricePass(w) \/ WriteSlip(w) \/ RecordEntry(w) \/ MarkDeducted(w)
                 \/ settleIfCleared(w) \/ Crash(w)
          PROVE  UNCHANGED loan
      BY <3>5 DEF PricePass, WriteSlip, RecordEntry, MarkDeducted, settleIfCleared, Crash
    <3>6. ASSUME NEW w \in Workers, NEW p \in Periods, StartPass(w, p) PROVE UNCHANGED loan
      BY <3>6 DEF StartPass
    <3>7. CASE Next
      BY <3>1, <3>2, <3>3, <3>4, <3>5, <3>6, <3>7 DEF Next, Serve
    <3>8. CASE UNCHANGED vars
      BY <3>8 DEF vars
    <3> QED BY <1>1, <3>7, <3>8
  <2> QED BY <2>2, <2>3, <2>4
<1>2. ASSUME LoanInv, [Next]_vars PROVE [Edge]_vars
  BY <1>1, <1>2
<1>3. LoanInv /\ [Next]_vars => [Edge]_vars
  BY <1>2
<1> QED BY <1>3, LoanInvariant, PTL DEF Spec, LoanLifecycle

-----------------------------------------------------------------------------
RowType == [seq : Seqs, period : Periods, amount : Nat]

\* What a request holds.
Typed(q) ==
  /\ q.paid \in Nat
  /\ q.rows \in Seq(RowType)
  /\ q.lines \subseteq Entries
  /\ q.op = "pass" => q.no \in 1..MaxRuns
  /\ q.step = "write" => q.op \in {"disburse", "reschedule", "accelerate"} /\ q.rows # <<>>
  /\ q.step = "withdraw" =>
       \/ q.op \in {"settle", "exit"}
       \/ q.op \in {"reschedule", "accelerate"} /\ q.rows # <<>>
  /\ q.step = "balance" => q.op = "exit"

\* What a request has seen repaid when it is about to settle the loan.
Repays(q) ==
  /\ q.op = "settle" /\ q.step \in {"withdraw", "update"} => q.paid + Repaid >= Principal
  /\ q.op = "pass" /\ q.step = "update" => Repaid >= Principal

\* A run that exists has a number.
Runs ==
  /\ runNo \in [Periods -> 0..MaxRuns]
  /\ \A p \in Periods : current[p] # "none" => runNo[p] >= 1

LoanData ==
  /\ TypeOK /\ Runs /\ SettledIsRepaid
  /\ \A w \in Workers : Typed(req[w]) /\ Repays(req[w])

-----------------------------------------------------------------------------
\* The calendar of the model.
LEMMA Calendar ==
  ASSUME LoanAssumption
  PROVE  /\ IsFiniteSet(Periods) /\ FirstPeriod \in Periods
         /\ \A i \in 1..Installments : periodsFrom(FirstPeriod, Installments)[i] \in Periods
         /\ IsFiniteSet(Seqs) /\ Seqs \in SUBSET Nat /\ Principal \in Nat /\ Installments \in Nat
         /\ MaxSeq \in Nat /\ MaxRuns \in Nat /\ MaxMishaps \in Nat /\ Horizon \in Nat
<1>1. /\ Principal \in Nat /\ Installments \in Nat /\ MaxSeq \in Nat /\ MaxRuns \in Nat
      /\ MaxMishaps \in Nat /\ Horizon \in Nat
      /\ Installments >= 1 /\ Installments <= Horizon
  BY DEF LoanAssumption, Schedulable
<1>2. Months(PeriodSeq, FirstPeriod, Horizon)
  BY <1>1, PeriodsAreMonths DEF PeriodSeq
<1>3. DOMAIN PeriodSeq = 1..Horizon /\ PeriodSeq[1] = FirstPeriod
  BY <1>1, <1>2 DEF Months
<1>4. Periods = {PeriodSeq[i] : i \in 1..Horizon}
  BY <1>3 DEF Periods, ToSet
<1>5. IsFiniteSet(Periods)
  <2>1. IsFiniteSet(1..Horizon)
    BY <1>1, FS_Interval
  <2>2. PICK f : f = [i \in 1..Horizon |-> PeriodSeq[i]]
    OBVIOUS
  <2>3. f \in Surjection(1..Horizon, Periods)
    BY <1>4, <2>2 DEF Surjection
  <2> QED BY <2>1, <2>3, FS_Surjection
<1>6. FirstPeriod \in Periods
  BY <1>1, <1>3, <1>4
<1>7. ASSUME NEW i \in 1..Installments PROVE periodsFrom(FirstPeriod, Installments)[i] \in Periods
  <2>1. periodsFrom(FirstPeriod, Installments)[i] = PeriodSeq[i]
    BY <1>1, MonthsAgree DEF PeriodSeq
  <2>2. i \in 1..Horizon
    BY <1>1
  <2> QED BY <1>4, <2>1, <2>2
<1>8. IsFiniteSet(Seqs) /\ Seqs \in SUBSET Nat
  <2>1. IsFiniteSet(1..MaxSeq)
    BY <1>1, FS_Interval
  <2>2. \A s \in 1..MaxSeq : s \in Nat
    BY <1>1
  <2> QED BY <2>1, <2>2 DEF Seqs
<1> QED BY <1>1, <1>5, <1>6, <1>7, <1>8

\* The sums are integers.
LEMMA RepaidType == ASSUME LoanAssumption, TypeOK PROVE Repaid \in Int
<1>1. PICK f : f = [p \in Periods |-> ledger[p].amount]
  OBVIOUS
<1>2. \A p \in Periods : f[p] \in Int
  BY <1>1 DEF TypeOK, Entries
<1>3. SumFunctionOnSet(f, Periods) \in Int
  BY <1>2, Calendar, SumType
<1> QED BY <1>1, <1>3 DEF Repaid

LEMMA TotalType ==
  ASSUME LoanAssumption, TypeOK, NEW S \in SUBSET Seqs
  PROVE  Total(S) \in Int
<1>1. PICK f : f = [s \in Seqs |-> row[s].amount]
  OBVIOUS
<1>2. \A s \in S : f[s] \in Int
  BY <1>1 DEF TypeOK
<1>3. IsFiniteSet(S)
  BY Calendar, FS_Subset
<1>4. SumFunctionOnSet(f, S) \in Int
  BY <1>2, <1>3, SumType
<1> QED BY <1>1, <1>4 DEF Total

\* What has been repaid is never less later.
LEMMA RepaidGrows ==
  ASSUME LoanAssumption, TypeOK, TypeOK', Keeps
  PROVE  Repaid \in Int /\ Repaid' \in Int /\ Repaid <= Repaid'
<1>1. PICK f, g : f = [p \in Periods |-> ledger[p].amount] /\ g = [p \in Periods |-> ledger'[p].amount]
  OBVIOUS
<1>2. \A p \in Periods : f[p] \in Int /\ g[p] \in Int /\ f[p] <= g[p]
  <2> SUFFICES ASSUME NEW p \in Periods PROVE f[p] \in Int /\ g[p] \in Int /\ f[p] <= g[p]
    OBVIOUS
  <2>1. ledger[p].amount \in Nat /\ ledger'[p].amount \in Nat
    BY DEF TypeOK, Entries
  <2>2. CASE ledger[p] = NoEntry
    BY <1>1, <2>1, <2>2 DEF NoEntry
  <2>3. CASE ledger[p] # NoEntry
    BY <1>1, <2>1, <2>3 DEF Keeps
  <2> QED BY <2>2, <2>3
<1>3. /\ SumFunctionOnSet(f, Periods) <= SumFunctionOnSet(g, Periods)
      /\ SumFunctionOnSet(f, Periods) \in Int /\ SumFunctionOnSet(g, Periods) \in Int
  BY <1>2, Calendar, SumMonotone, SumType
<1> QED BY <1>1, <1>3 DEF Repaid

-----------------------------------------------------------------------------
\* The rows a request is about to write.
LEMMA RowsPayable == Payable(RowType)
  BY DEF Payable, RowType

LEMMA NextSeqType ==
  ASSUME LoanAssumption
  PROVE  nextSeq \in Nat /\ nextSeq >= 1
<1>1. PICK S : S = {0} \cup Planned
  OBVIOUS
<1>2. S \in SUBSET (0..MaxSeq) /\ 0 \in S /\ MaxSeq \in Nat
  BY <1>1, Calendar DEF Planned, Seqs
<1>3. PICK T : T = {MaxSeq - s : s \in S}
  OBVIOUS
<1>4. T \in SUBSET Nat /\ T # {}
  BY <1>2, <1>3
<1>5. PICK t \in T : \A u \in T : t <= u
  BY <1>4, LeastNatural
<1>6. PICK m \in S : t = MaxSeq - m
  BY <1>3, <1>5
<1>7. \A s \in S : m >= s
  <2> SUFFICES ASSUME NEW s \in S PROVE m >= s
    OBVIOUS
  <2>1. MaxSeq - s \in T
    BY <1>3
  <2>2. t <= MaxSeq - s
    BY <1>5, <2>1
  <2> QED BY <1>2, <1>6, <2>2
<1>8. Max(S) \in S
  BY <1>7 DEF Max
<1> QED BY <1>1, <1>2, <1>8 DEF nextSeq

LEMMA RenumberedRows ==
  ASSUME LoanAssumption, NEW n \in Nat, n >= 1, NEW rows, NEW X,
         rows = [i \in 1..n |-> rows[i]],
         \A i \in 1..n : rows[i] \in [seq : X, period : Periods, amount : Nat],
         nextSeq + n - 1 <= MaxSeq
  PROVE  Renumbered(rows) \in Seq(RowType) /\ Renumbered(rows) # <<>>
<1>1. PICK q : q = Renumbered(rows)
  OBVIOUS
<1>2. nextSeq \in Nat /\ nextSeq >= 1 /\ MaxSeq \in Nat
  BY NextSeqType, Calendar
<1>3. q = [i \in 1..n |-> [rows[i] EXCEPT !.seq = nextSeq + i - 1]]
  BY <1>1 DEF Renumbered
<1>4. ASSUME NEW i \in 1..n PROVE q[i] \in RowType
  <2>1. nextSeq + i - 1 \in Seqs
    BY <1>2 DEF Seqs
  <2>2. rows[i] \in [seq : X, period : Periods, amount : Nat]
    OBVIOUS
  <2> QED BY <1>3, <2>1, <2>2 DEF RowType
<1>5. q \in [1..n -> RowType]
  BY <1>3, <1>4
<1>6. q \in Seq(RowType) /\ q # <<>>
  <2>1. q \in Seq(RowType)
    BY <1>5, FunctionIsSeq
  <2>2. 1 \in DOMAIN q /\ DOMAIN (<<>>) = {}
    BY <1>5
  <2> QED BY <2>1, <2>2
<1> QED BY <1>1, <1>6

-----------------------------------------------------------------------------
\* What a request does to itself: it goes on as q.
Goes(w, q) ==
  /\ req' = [req EXCEPT ![w] = q]
  /\ Typed(q) /\ Repays(q)
  /\ TypeOK' /\ Runs'
  /\ loan'.status = "settled" => Repaid + loan'.external >= Principal

LEMMA GoesOn ==
  ASSUME LoanAssumption, LoanInv, LoanData, Keeps, NEW w \in Workers, NEW q, Goes(w, q)
  PROVE  LoanData'
<1>1. TypeOK /\ TypeOK' /\ Runs' /\ req = [x \in Workers |-> req[x]]
  BY DEF LoanInv, Shape, LoanData, Goes
<1>2. Repaid \in Int /\ Repaid' \in Int /\ Repaid <= Repaid'
  BY <1>1, RepaidGrows
<1>3. Principal \in Nat
  BY Calendar
<1>4. SettledIsRepaid'
  <2>1. loan'.external \in Nat
    BY <1>1 DEF TypeOK
  <2>2. loan'.status = "settled" => Repaid + loan'.external >= Principal
    BY DEF Goes
  <2> QED BY <1>2, <1>3, <2>1, <2>2 DEF SettledIsRepaid
<1>5. ASSUME NEW x \in Workers PROVE (Typed(req[x]) /\ Repays(req[x]))'
  <2>1. PICK r : r = req'[x]
    OBVIOUS
  <2>2. Typed(r) /\ Repays(r)
    <3>1. CASE x = w
      BY <1>1, <2>1, <3>1 DEF Goes
    <3>2. CASE x # w
      BY <1>1, <2>1, <3>2 DEF Goes, LoanData
    <3> QED BY <3>1, <3>2
  <2>3. r.paid \in Nat
    BY <2>2 DEF Typed
  <2>4. /\ r.op = "settle" /\ r.step \in {"withdraw", "update"} => r.paid + Repaid' >= Principal
        /\ r.op = "pass" /\ r.step = "update" => Repaid' >= Principal
    BY <1>2, <1>3, <2>2, <2>3 DEF Repays
  <2> QED BY <2>1, <2>2, <2>4 DEF Typed, Repays
<1> QED BY <1>1, <1>4, <1>5 DEF LoanData

LEMMA IdleTyped == Typed(Idle) /\ Repays(Idle)
<1>1. /\ Idle.step = "idle" /\ Idle.op = "none" /\ Idle.paid = 0 /\ Idle.rows = <<>>
      /\ Idle.lines = {}
  BY DEF Idle
<1> QED BY <1>1 DEF Typed, Repays

LEMMA NextLineTyped ==
  ASSUME NEW q, Typed(q), q = [f \in Fields |-> q[f]]
  PROVE  Typed(NextLine(q)) /\ Repays(NextLine(q))
<1>1. CASE q.lines = {}
  BY <1>1, IdleTyped DEF NextLine
<1>2. CASE q.lines # {}
  <2>1. PICK r : r = [q EXCEPT !.step = "record"]
    OBVIOUS
  <2>2. /\ r.step = "record" /\ r.op = q.op /\ r.paid = q.paid /\ r.rows = q.rows
        /\ r.lines = q.lines /\ r.no = q.no
    BY <2>1 DEF Fields
  <2>3. Typed(r) /\ Repays(r)
    BY <2>2 DEF Typed, Repays
  <2> QED BY <1>2, <2>1, <2>3 DEF NextLine
<1> QED BY <1>1, <1>2

\* A request that only reads, and goes on as q.
LEMMA ReadsGoOn ==
  ASSUME LoanAssumption, LoanInv, LoanData, UNCHANGED <<loan, row, ledger, slips, world>>,
         NEW w \in Workers, NEW q, req' = [req EXCEPT ![w] = q], Typed(q), Repays(q)
  PROVE  LoanData'
<1>1. Keeps
  BY DEF Keeps
<1>2. TypeOK' /\ Runs'
  BY DEF LoanData, TypeOK, Runs, world
<1>3. Goes(w, q)
  BY <1>2 DEF Goes, LoanData, SettledIsRepaid
<1> QED BY <1>1, <1>3, GoesOn

LEMMA EndsTyped ==
  ASSUME LoanAssumption, LoanInv, LoanData, UNCHANGED <<loan, row, ledger, slips, world>>,
         NEW w \in Workers, req' = [req EXCEPT ![w] = Idle]
  PROVE  LoanData'
BY IdleTyped, ReadsGoOn

LEMMA DataInitially == LoanAssumption /\ Init => LoanData
<1> SUFFICES ASSUME LoanAssumption, Init PROVE LoanData
  OBVIOUS
<1>1. TypeOK
  BY Calendar DEF Init, TypeOK, NoRow, NoEntry, Entries, LoanStatuses, Period!PeriodInit, Period!Stages
<1>2. Runs
  BY Calendar DEF Init, Runs, Period!PeriodInit
<1>3. SettledIsRepaid
  BY DEF Init, SettledIsRepaid
<1> QED BY <1>1, <1>2, <1>3, IdleTyped DEF Init, LoanData

-----------------------------------------------------------------------------
\* The record a step makes of its request.
LEMMA BeginTyped ==
  ASSUME LoanAssumption, LoanInv, LoanData, NEW w \in Workers, Start(w)
  PROVE  LoanData'
<1>1. \E op, from, step :
        /\ Begin(w, op, from, step)
        /\ op # "pass" /\ (step = "update" => op = "cancel")
        /\ step \in {"plan", "update", "months"}
  BY DEF Start, StartDisburse, StartCancel, StartReschedule, StartAccelerate, StartSettle,
         StartExit
<1>2. PICK op, from, step :
        /\ Begin(w, op, from, step)
        /\ op # "pass" /\ (step = "update" => op = "cancel")
        /\ step \in {"plan", "update", "months"}
  BY <1>1
<1>3. PICK q : q = [Idle EXCEPT !.step = step, !.op = op, !.v = loan.v, !.was = loan.status]
  OBVIOUS
<1>4. req' = [req EXCEPT ![w] = q] /\ UNCHANGED <<loan, row, ledger, slips, world>>
  BY <1>2, <1>3 DEF Begin
<1>5. q.step = step /\ q.op = op /\ q.paid = 0 /\ q.rows = <<>> /\ q.lines = {}
  BY <1>3 DEF Idle
<1>6. Typed(q) /\ Repays(q)
  BY <1>2, <1>5 DEF Typed, Repays
<1> QED BY <1>4, <1>6, ReadsGoOn

LEMMA ProceedTyped ==
  ASSUME LoanAssumption, LoanInv, LoanData, NEW w \in Workers, NEW step, NEW cancel, NEW rows,
         rows \in Seq(RowType), req[w].op \notin {"settle", "pass"},
         \/ step = "withdraw" /\ req[w].op = "exit"
         \/ step = "withdraw" /\ req[w].op \in {"reschedule", "accelerate"} /\ rows # <<>>
         \/ step = "write" /\ req[w].op = "disburse" /\ rows # <<>>,
         Proceed(w, step, cancel, rows)
  PROVE  LoanData'
<1>1. PICK q : q = [req[w] EXCEPT !.step = step, !.cancel = cancel, !.rows = rows,
                                  !.closed = {}]
  OBVIOUS
<1>2. req = [x \in Workers |-> req[x]] /\ req[w] = [f \in Fields |-> req[w][f]]
  BY DEF LoanInv, Shape
<1>3. req' = [req EXCEPT ![w] = q] /\ UNCHANGED <<loan, row, ledger, slips, world>>
  BY <1>1, <1>2 DEF Proceed
<1>4. /\ q.step = step /\ q.op = req[w].op /\ q.rows = rows /\ q.paid = req[w].paid
      /\ q.lines = req[w].lines
  BY <1>1, <1>2 DEF Fields
<1>5. Typed(q) /\ Repays(q)
  BY <1>4 DEF Typed, Repays, LoanData
<1> QED BY <1>3, <1>5, ReadsGoOn

LEMMA DisburseTyped ==
  ASSUME LoanAssumption, LoanInv, LoanData, NEW w \in Workers, PlanDisburse(w)
  PROVE  LoanData'
<1>1. PICK rows : rows = generateSchedule(Principal, Installments, FirstPeriod)
  OBVIOUS
<1>2. Proceed(w, "write", {}, rows) /\ req[w].op = "disburse"
  BY <1>1 DEF PlanDisburse, Plan
<1>3. PICK base : base = Principal \div Installments
  OBVIOUS
<1>4. Splits(rows, Principal, Installments, FirstPeriod, base)
  BY <1>1, <1>3, ScheduleRows, Calendar DEF LoanAssumption
<1>5. /\ Installments \in Nat /\ Installments >= 1 /\ Installments <= MaxSeq /\ MaxSeq \in Nat
      /\ rows = [i \in 1..Installments |-> rows[i]]
  BY <1>4, Calendar DEF Splits, LoanAssumption, Schedulable
<1>6. ASSUME NEW i \in 1..Installments PROVE rows[i] \in RowType
  <2>1. /\ rows[i] = [seq |-> i, period |-> periodsFrom(FirstPeriod, Installments)[i],
                      amount |-> rows[i].amount]
        /\ rows[i].amount \in Nat
    BY <1>4 DEF Splits
  <2>2. periodsFrom(FirstPeriod, Installments)[i] \in Periods /\ i \in Seqs
    BY <1>5, Calendar DEF Seqs
  <2> QED BY <2>1, <2>2 DEF RowType
<1>7. rows \in Seq(RowType) /\ rows # <<>>
  <2>1. rows \in [1..Installments -> RowType]
    BY <1>5, <1>6
  <2>2. rows \in Seq(RowType)
    BY <1>5, <2>1
  <2>3. 1 \in DOMAIN rows /\ DOMAIN (<<>>) = {}
    BY <1>5, <2>1
  <2> QED BY <2>2, <2>3
<1> QED BY <1>2, <1>7, ProceedTyped

\* The schedule a reschedule replaces its rows with.
Rescheduled(w, S, amount, count, first, rows) ==
  /\ S = Planned \ {s \in Planned : row[s].period \in req[w].closed}
  /\ amount \in Nat /\ amount = Total(S)
  /\ count \in Nat /\ count >= 1 /\ Schedulable(amount, count)
  /\ rows = generateSchedule(amount, count, first)
  /\ nextSeq + count - 1 <= MaxSeq
  /\ rows = [i \in 1..count |-> rows[i]]
  /\ \A i \in 1..count : /\ rows[i] \in [seq : Nat, period : Periods, amount : Nat]
                         /\ rows[i].amount >= 1
  /\ req[w].step = "plan" /\ req[w].op = "reschedule"
  /\ Proceed(w, "withdraw", S, Renumbered(rows))

LEMMA ReschedulePlan ==
  ASSUME LoanAssumption, LoanData, NEW w \in Workers, PlanReschedule(w)
  PROVE  \E S, amount, count, first, rows : Rescheduled(w, S, amount, count, first, rows)
<1>1. PICK S : S = Planned \ {s \in Planned : row[s].period \in req[w].closed}
  OBVIOUS
<1>2. PICK count \in 1..Horizon, first \in Periods :
        /\ Schedulable(Total(S), count)
        /\ Fits(generateSchedule(Total(S), count, first))
        /\ Proceed(w, "withdraw", S, Renumbered(generateSchedule(Total(S), count, first)))
  BY <1>1, Zenon DEF PlanReschedule
<1>3. PICK rows : rows = generateSchedule(Total(S), count, first)
  OBVIOUS
<1>4. req[w].step = "plan" /\ req[w].op = "reschedule"
  BY DEF PlanReschedule, Plan
<1>5. PICK amount \in Nat : amount = Total(S)
  <2>1. S \in SUBSET Seqs
    BY <1>1 DEF Planned
  <2>2. Total(S) \in Int
    BY <2>1, TotalType DEF LoanData
  <2>3. Total(S) > 0
    BY <1>2 DEF Schedulable
  <2> QED BY <2>2, <2>3
<1>6. count \in Nat /\ count >= 1
  BY <1>2, Calendar
<1>7. PICK base : base = amount \div count
  OBVIOUS
<1>8. Splits(rows, amount, count, first, base)
  BY <1>2, <1>3, <1>5, <1>6, <1>7, ScheduleRows
<1>9. Len(rows) = count /\ rows = [i \in 1..count |-> rows[i]]
  BY <1>8 DEF Splits
<1>10. nextSeq + count - 1 <= MaxSeq /\ \A i \in 1..count : rows[i].period \in Periods
  BY <1>2, <1>3, <1>6, <1>9 DEF Fits
<1>11. ASSUME NEW i \in 1..count
       PROVE  rows[i] \in [seq : Nat, period : Periods, amount : Nat] /\ rows[i].amount >= 1
  <2>1. /\ rows[i] = [seq |-> i, period |-> periodsFrom(first, count)[i],
                      amount |-> rows[i].amount]
        /\ rows[i].amount \in Nat /\ rows[i].amount >= 1
    BY <1>8 DEF Splits
  <2>2. rows[i].period \in Periods /\ i \in Nat
    BY <1>10
  <2> QED BY <2>1, <2>2
<1>12. Schedulable(amount, count) /\ rows = generateSchedule(amount, count, first)
  BY <1>2, <1>3, <1>5
<1>13. Proceed(w, "withdraw", S, Renumbered(rows))
  BY <1>2, <1>3
<1>14. Rescheduled(w, S, amount, count, first, rows)
  BY <1>1, <1>4, <1>5, <1>6, <1>9, <1>10, <1>11, <1>12, <1>13 DEF Rescheduled
<1> QED BY <1>14

LEMMA RescheduleTyped ==
  ASSUME LoanAssumption, LoanInv, LoanData, NEW w \in Workers, PlanReschedule(w)
  PROVE  LoanData'
<1>1. PICK S, amount, count, first, rows : Rescheduled(w, S, amount, count, first, rows)
  BY ReschedulePlan
<1>2. /\ req[w].op = "reschedule" /\ Proceed(w, "withdraw", S, Renumbered(rows))
      /\ count \in Nat /\ count >= 1 /\ nextSeq + count - 1 <= MaxSeq
      /\ rows = [i \in 1..count |-> rows[i]]
      /\ \A i \in 1..count : rows[i] \in [seq : Nat, period : Periods, amount : Nat]
  BY <1>1 DEF Rescheduled
<1>3. PICK X : X = Nat
  OBVIOUS
<1>4. \A i \in 1..count : rows[i] \in [seq : X, period : Periods, amount : Nat]
  BY <1>2, <1>3
<1>5. Renumbered(rows) \in Seq(RowType) /\ Renumbered(rows) # <<>>
  BY <1>2, <1>4, RenumberedRows
<1> QED BY <1>2, <1>5, ProceedTyped

\* What an acceleration replaces, and with what.
Accelerated(w, s, later, order, extra, target, list, rows) ==
  /\ s \in Planned
  /\ later = {t \in Planned : /\ Before(row[s].period, row[t].period)
                              /\ row[t].period \notin req[w].closed}
  /\ order \in [1..Cardinality(later) -> later] /\ InOrder(order)
  /\ extra \in 1..Principal
  /\ target = [seq |-> s, period |-> row[s].period, amount |-> row[s].amount]
  /\ list = [i \in DOMAIN order |->
               [seq |-> order[i], period |-> row[order[i]].period, amount |-> row[order[i]].amount]]
  /\ rows = accelerateTail(target, list, extra)
  /\ CanAbsorb(list, extra) /\ Fits(rows)
  /\ req[w].step = "plan" /\ req[w].op = "accelerate"
  /\ Proceed(w, "withdraw", {s} \cup later, Renumbered(rows))

LEMMA AcceleratePlan ==
  ASSUME NEW w \in Workers, PlanAccelerate(w)
  PROVE  \E s, later, order, extra, target, list, rows :
           Accelerated(w, s, later, order, extra, target, list, rows)
<1> DEFINE asRow(t) == [seq |-> t, period |-> row[t].period, amount |-> row[t].amount]
           after(s) == {t \in Planned : /\ Before(row[s].period, row[t].period)
                                        /\ row[t].period \notin req[w].closed}
           tail(order) == [i \in DOMAIN order |-> asRow(order[i])]
<1>1. PICK s \in Planned, extra \in 1..Principal :
        /\ Plan(w, "accelerate")
        /\ \E order \in [1..Cardinality(after(s)) -> after(s)] :
             /\ InOrder(order)
             /\ CanAbsorb(tail(order), extra)
             /\ Fits(accelerateTail(asRow(s), tail(order), extra))
             /\ Proceed(w, "withdraw", {s} \cup after(s),
                        Renumbered(accelerateTail(asRow(s), tail(order), extra)))
  BY Zenon DEF PlanAccelerate
<1>2. PICK order \in [1..Cardinality(after(s)) -> after(s)] :
        /\ InOrder(order)
        /\ CanAbsorb(tail(order), extra)
        /\ Fits(accelerateTail(asRow(s), tail(order), extra))
        /\ Proceed(w, "withdraw", {s} \cup after(s),
                   Renumbered(accelerateTail(asRow(s), tail(order), extra)))
  BY <1>1
<1>3. PICK later, target, list, rows : /\ later = after(s) /\ target = asRow(s) /\ list = tail(order)
                                       /\ rows = accelerateTail(target, list, extra)
  OBVIOUS
<1>4. Accelerated(w, s, later, order, extra, target, list, rows)
  BY <1>1, <1>2, <1>3 DEF Accelerated, Plan
<1> QED BY <1>4

LEMMA AcceleratedRows ==
  ASSUME LoanAssumption, LoanData, NEW w \in Workers, NEW s, NEW later, NEW order, NEW extra,
         NEW target, NEW list, NEW rows, Accelerated(w, s, later, order, extra, target, list, rows),
         NEW k, k = Cardinality(later)
  PROVE  /\ k \in Nat /\ order \in [1..k -> later] /\ later \in SUBSET Planned
         /\ s \in Planned /\ Planned \in SUBSET Seqs /\ extra \in Nat
         /\ target \in RowType /\ target.amount = row[s].amount
         /\ list \in Seq(RowType) /\ DOMAIN list = 1..k
         /\ \A i \in 1..k : order[i] \in Planned /\ list[i].amount = row[order[i]].amount
<1>1. later \in SUBSET Planned
  BY DEF Accelerated
<1>2. Planned \in SUBSET Seqs /\ s \in Planned
  BY DEF Planned, Accelerated
<1>3. extra \in Nat
  <2>1. extra \in 1..Principal
    BY DEF Accelerated
  <2> QED BY <2>1, Calendar
<1>4. k \in Nat /\ order \in [1..k -> later]
  <2>1. IsFiniteSet(later)
    BY <1>1, <1>2, Calendar, FS_Subset
  <2> QED BY <2>1, FS_CardinalityType DEF Accelerated
<1>5. ASSUME NEW t \in Planned
      PROVE  [seq |-> t, period |-> row[t].period, amount |-> row[t].amount] \in RowType
  BY <1>2 DEF LoanData, TypeOK, RowType
<1>6. target \in RowType /\ target.amount = row[s].amount
  BY <1>2, <1>5 DEF Accelerated
<1>7. list = [i \in 1..k |->
               [seq |-> order[i], period |-> row[order[i]].period, amount |-> row[order[i]].amount]]
  BY <1>4 DEF Accelerated
<1>8. \A i \in 1..k : order[i] \in Planned
  BY <1>1, <1>4
<1>9. list \in Seq(RowType)
  <2>1. list \in [1..k -> RowType]
    BY <1>5, <1>7, <1>8
  <2> QED BY <1>4, <2>1, FunctionIsSeq
<1> QED BY <1>1, <1>2, <1>3, <1>4, <1>6, <1>7, <1>8, <1>9

LEMMA AccelerateTyped ==
  ASSUME LoanAssumption, LoanInv, LoanData, NEW w \in Workers, PlanAccelerate(w)
  PROVE  LoanData'
<1>1. PICK s, later, order, extra, target, list, rows :
        Accelerated(w, s, later, order, extra, target, list, rows)
  BY AcceleratePlan
<1>2. target \in RowType /\ list \in Seq(RowType) /\ extra \in Nat
  BY <1>1, AcceleratedRows
<1>3. /\ req[w].op = "accelerate" /\ Proceed(w, "withdraw", {s} \cup later, Renumbered(rows))
      /\ rows = accelerateTail(target, list, extra) /\ Fits(rows)
  BY <1>1 DEF Accelerated
<1>4. rows \in Seq(RowType) /\ rows # <<>>
  BY <1>2, <1>3, RowsPayable, AccelerateRows
<1>5. PICK n : n = Len(rows)
  OBVIOUS
<1>6. /\ n \in Nat /\ n >= 1 /\ rows = [i \in 1..n |-> rows[i]]
      /\ \A i \in 1..n : rows[i] \in [seq : Seqs, period : Periods, amount : Nat]
  <2>1. /\ n \in Nat /\ n >= 1 /\ rows = [i \in 1..n |-> rows[i]]
        /\ \A i \in 1..n : rows[i] \in RowType
    BY <1>4, <1>5
  <2> QED BY <2>1 DEF RowType
<1>7. nextSeq + n - 1 <= MaxSeq
  BY <1>3, <1>5 DEF Fits
<1>8. Renumbered(rows) \in Seq(RowType) /\ Renumbered(rows) # <<>>
  BY <1>6, <1>7, RenumberedRows
<1> QED BY <1>3, <1>8, ProceedTyped

\* The other steps of a request before its first write.
LEMMA PlansTyped ==
  ASSUME LoanAssumption, LoanInv, LoanData, NEW w \in Workers,
         \/ ReadMonths(w) \/ PlanSettle(w) \/ PlanExit(w) \/ Refuse(w) \/ ReadBalance(w)
  PROVE  LoanData'
<1>0. req = [x \in Workers |-> req[x]] /\ req[w] = [f \in Fields |-> req[w][f]] /\ Typed(req[w])
  BY DEF LoanInv, Shape, LoanData
<1>1. CASE ReadMonths(w)
  <2>1. PICK q : q = [req[w] EXCEPT !.step = "plan", !.closed = Period!frozenPeriods]
    OBVIOUS
  <2>2. req' = [req EXCEPT ![w] = q] /\ UNCHANGED <<loan, row, ledger, slips, world>>
    BY <1>0, <1>1, <2>1 DEF ReadMonths
  <2>3. /\ q.step = "plan" /\ q.op = req[w].op /\ q.rows = req[w].rows /\ q.paid = req[w].paid
        /\ q.lines = req[w].lines /\ q.no = req[w].no
    BY <1>0, <2>1 DEF Fields
  <2>4. Typed(q) /\ Repays(q)
    BY <1>0, <2>3 DEF Typed, Repays
  <2> QED BY <2>2, <2>4, ReadsGoOn
<1>2. CASE PlanSettle(w)
  <2>1. PICK q : q = [req[w] EXCEPT !.step = "withdraw", !.paid = remainingMinor]
    OBVIOUS
  <2>2. req' = [req EXCEPT ![w] = q] /\ UNCHANGED <<loan, row, ledger, slips, world>>
    BY <1>0, <1>2, <2>1 DEF PlanSettle
  <2>3. req[w].op = "settle" /\ remainingMinor > 0
    BY <1>2 DEF PlanSettle, Plan
  <2>4. remainingMinor \in Nat /\ remainingMinor + Repaid >= Principal
    <3>1. Repaid \in Int /\ Principal \in Nat
      BY RepaidType, Calendar DEF LoanData
    <3>2. remainingMinor = Principal - Repaid
      BY DEF remainingMinor
    <3> QED BY <2>3, <3>1, <3>2
  <2>5. /\ q.step = "withdraw" /\ q.op = "settle" /\ q.rows = req[w].rows
        /\ q.paid = remainingMinor /\ q.lines = req[w].lines /\ q.no = req[w].no
    BY <1>0, <2>1, <2>3 DEF Fields
  <2>6. Typed(q)
    BY <1>0, <2>4, <2>5 DEF Typed
  <2>7. Repays(q)
    BY <2>4, <2>5 DEF Repays
  <2> QED BY <2>2, <2>6, <2>7, ReadsGoOn
<1>3. CASE PlanExit(w)
  <2>1. <<>> \in Seq(RowType)
    OBVIOUS
  <2>2. \E cancel : Proceed(w, "withdraw", cancel, <<>>)
    BY <1>3 DEF PlanExit
  <2>3. req[w].op = "exit"
    BY <1>3 DEF PlanExit, Plan
  <2> QED BY <2>1, <2>2, <2>3, ProceedTyped
<1>4. CASE Refuse(w)
  BY <1>4, EndsTyped DEF Refuse
<1>5. CASE ReadBalance(w)
  <2>1. UNCHANGED <<loan, row, ledger, slips, world>> /\ req[w].step = "balance"
    BY <1>5 DEF ReadBalance
  <2>2. CASE remainingMinor <= 0
    BY <1>5, <2>1, <2>2, EndsTyped DEF ReadBalance
  <2>3. CASE ~(remainingMinor <= 0)
    <3>1. PICK q : q = [req[w] EXCEPT !.step = "update"]
      OBVIOUS
    <3>2. req' = [req EXCEPT ![w] = q]
      BY <1>5, <2>3, <3>1 DEF ReadBalance
    <3>3. /\ q.step = "update" /\ q.op = req[w].op /\ q.rows = req[w].rows
          /\ q.paid = req[w].paid /\ q.lines = req[w].lines /\ q.no = req[w].no
      BY <1>0, <3>1 DEF Fields
    <3>4. Typed(q) /\ Repays(q)
      BY <1>0, <2>1, <3>3 DEF Typed, Repays
    <3> QED BY <2>1, <3>2, <3>4, ReadsGoOn
  <2> QED BY <2>2, <2>3
<1> QED BY <1>1, <1>2, <1>3, <1>4, <1>5

-----------------------------------------------------------------------------
\* The writes of the schedule.
LEMMA RowsTyped ==
  ASSUME LoanAssumption, LoanInv, LoanData, NEW w \in Workers, UNCHANGED <<loan, ledger, slips, world>>,
         row' \in [Seqs -> [status : {"none", "planned", "deducted", "cancelled"},
                            period : Periods, amount : Nat]],
         \A s \in Seqs : row[s].status # "none" =>
           /\ row'[s].status # "none"
           /\ row'[s].period = row[s].period /\ row'[s].amount = row[s].amount,
         NEW q, req' = [req EXCEPT ![w] = q], Typed(q), Repays(q)
  PROVE  LoanData'
<1>1. Keeps
  BY DEF Keeps
<1>2. TypeOK' /\ Runs'
  BY DEF LoanData, TypeOK, Runs, world
<1>3. Goes(w, q)
  BY <1>2 DEF Goes, LoanData, SettledIsRepaid
<1> QED BY <1>1, <1>3, GoesOn

LEMMA WithdrawTyped ==
  ASSUME LoanAssumption, LoanInv, LoanData, NEW w \in Workers, Withdraw(w)
  PROVE  LoanData'
<1>0. /\ req = [x \in Workers |-> req[x]] /\ req[w] = [f \in Fields |-> req[w][f]]
      /\ Typed(req[w]) /\ Repays(req[w]) /\ Sound(req[w]) /\ TypeOK
  BY DEF LoanInv, Shape, LoanData
<1>1. PICK gone : row' = [s \in Seqs |->
                     IF s \in gone THEN [row[s] EXCEPT !.status = "cancelled"] ELSE row[s]]
  BY DEF Withdraw
<1>2. PICK q : q = [req[w] EXCEPT !.step = AfterWithdraw(req[w]), !.cancel = {}]
  OBVIOUS
<1>3. /\ req' = [req EXCEPT ![w] = q] /\ UNCHANGED <<loan, ledger, slips, world>>
      /\ req[w].step = "withdraw"
  BY <1>0, <1>2 DEF Withdraw
<1>4. /\ q.step = AfterWithdraw(req[w]) /\ q.op = req[w].op /\ q.rows = req[w].rows
      /\ q.paid = req[w].paid /\ q.lines = req[w].lines /\ q.no = req[w].no
  BY <1>0, <1>2 DEF Fields
<1>5. /\ q.op \in {"settle", "exit"} => q.step \in {"update", "balance"}
      /\ q.op = "settle" => q.step = "update"
      /\ q.op \in {"reschedule", "accelerate"} => q.step = "write"
      /\ q.op # "pass"
  <2>1. req[w].op = "exit" => req[w].was \in {"approved", "active"}
    BY <1>0, <1>3 DEF Sound, Accepts
  <2> QED BY <1>0, <1>3, <1>4, <2>1 DEF AfterWithdraw, Sound
<1>6. Typed(q) /\ Repays(q)
  BY <1>0, <1>3, <1>4, <1>5 DEF Typed, Repays
<1>7. \A s \in Seqs :
        \/ row'[s] = row[s]
        \/ row'[s] = [status |-> "cancelled", period |-> row[s].period, amount |-> row[s].amount]
  BY <1>0, <1>1 DEF TypeOK
<1>8. row' \in [Seqs -> [status : {"none", "planned", "deducted", "cancelled"},
                         period : Periods, amount : Nat]]
  BY <1>0, <1>1, <1>7 DEF TypeOK
<1>9. ASSUME NEW s \in Seqs, row[s].status # "none"
      PROVE  /\ row'[s].status # "none"
             /\ row'[s].period = row[s].period /\ row'[s].amount = row[s].amount
  <2>1. CASE row'[s] = row[s]
    BY <1>9, <2>1
  <2>2. CASE row'[s] = [status |-> "cancelled", period |-> row[s].period, amount |-> row[s].amount]
    BY <2>2
  <2> QED BY <1>7, <2>1, <2>2
<1> QED BY <1>3, <1>6, <1>8, <1>9, RowsTyped

LEMMA WriteRowTyped ==
  ASSUME LoanAssumption, LoanInv, LoanData, NEW w \in Workers, WriteRow(w)
  PROVE  LoanData'
<1>0. /\ req = [x \in Workers |-> req[x]] /\ req[w] = [f \in Fields |-> req[w][f]]
      /\ Typed(req[w]) /\ TypeOK /\ req[w].step = "write"
  BY DEF LoanInv, Shape, LoanData, WriteRow
<1>1. PICK r : r = Head(req[w].rows)
  OBVIOUS
<1>2. r \in RowType /\ Tail(req[w].rows) \in Seq(RowType)
      /\ (Len(req[w].rows) # 1 => Tail(req[w].rows) # <<>>)
  <2>1. PICK rows : rows = req[w].rows
    OBVIOUS
  <2>2. rows \in Seq(RowType) /\ rows # <<>>
    BY <1>0, <2>1 DEF Typed
  <2>3. Head(rows) \in RowType /\ Tail(rows) \in Seq(RowType)
    BY <2>2
  <2>4. Len(rows) # 1 => Tail(rows) # <<>>
    <3>1. PICK t : t = Tail(rows)
      OBVIOUS
    <3>2. Len(t) = Len(rows) - 1 /\ Len(rows) \in Nat
      BY <2>2, <3>1
    <3>3. t = <<>> => Len(t) = 0
      OBVIOUS
    <3>4. Len(rows) # 1 => t # <<>>
      BY <3>2, <3>3
    <3> QED BY <3>1, <3>4
  <2> QED BY <1>1, <2>1, <2>3, <2>4
<1>3. UNCHANGED <<loan, ledger, slips, world>>
  BY DEF WriteRow
<1>4. CASE row[r.seq].status = "none" /\ \E t \in Planned : row[t].period = r.period
  <2>1. req' = [req EXCEPT ![w] = Idle] /\ UNCHANGED row
    BY <1>1, <1>4 DEF WriteRow
  <2> QED BY <1>3, <2>1, EndsTyped
<1>5. CASE ~(row[r.seq].status = "none" /\ \E t \in Planned : row[t].period = r.period)
  <2>1. PICK q : q = [req[w] EXCEPT !.rows = Tail(req[w].rows),
                                    !.step = IF Len(req[w].rows) = 1 THEN "update"
                                             ELSE req[w].step]
    OBVIOUS
  <2>2. req' = [req EXCEPT ![w] = q]
    <3>1. req' = [req EXCEPT ![w].rows = Tail(@),
                             ![w].step = IF Len(req[w].rows) = 1 THEN "update" ELSE @]
      BY <1>1, <1>5 DEF WriteRow
    <3> QED BY <1>0, <2>1, <3>1 DEF Fields
  <2>3. row' = IF row[r.seq].status = "none"
                 THEN [row EXCEPT ![r.seq] = [status |-> "planned", period |-> r.period,
                                              amount |-> r.amount]]
                 ELSE row
    BY <1>1, <1>5 DEF WriteRow
  <2>4. /\ q.step = (IF Len(req[w].rows) = 1 THEN "update" ELSE "write") /\ q.op = req[w].op
        /\ q.rows = Tail(req[w].rows) /\ q.paid = req[w].paid
        /\ q.lines = req[w].lines /\ q.no = req[w].no
    BY <1>0, <2>1 DEF Fields
  <2>5. Typed(q) /\ Repays(q)
    <3>1. req[w].op \in {"disburse", "reschedule", "accelerate"}
      BY <1>0 DEF Typed
    <3> QED BY <1>0, <1>2, <2>4, <3>1 DEF Typed, Repays
  <2>6. r.period \in Periods /\ r.amount \in Nat
    BY <1>2 DEF RowType
  <2>7. \A s \in Seqs : \/ row'[s] = row[s]
                        \/ /\ row[s].status = "none"
                           /\ row'[s] = [status |-> "planned", period |-> r.period,
                                         amount |-> r.amount]
    BY <1>0, <2>3 DEF TypeOK
  <2>8. row' \in [Seqs -> [status : {"none", "planned", "deducted", "cancelled"},
                           period : Periods, amount : Nat]]
    BY <1>0, <2>3, <2>6, <2>7 DEF TypeOK
  <2> QED BY <1>3, <2>2, <2>5, <2>7, <2>8, RowsTyped
<1> QED BY <1>4, <1>5

-----------------------------------------------------------------------------
\* The payslip pass.
LEMMA PassBeginsTyped ==
  ASSUME LoanAssumption, LoanInv, LoanData, NEW w \in Workers, NEW p \in Periods, StartPass(w, p)
  PROVE  LoanData'
<1>1. PICK q : q = [Idle EXCEPT !.step = "price", !.op = "pass", !.period = p, !.no = runNo[p]]
  OBVIOUS
<1>2. req' = [req EXCEPT ![w] = q] /\ UNCHANGED <<loan, row, ledger, slips, world>>
  BY <1>1 DEF StartPass
<1>3. /\ q.step = "price" /\ q.op = "pass" /\ q.paid = 0 /\ q.rows = <<>> /\ q.lines = {}
      /\ q.no = runNo[p]
  BY <1>1 DEF Idle
<1>4. runNo[p] \in 1..MaxRuns
  BY Calendar DEF StartPass, LoanData, Runs
<1>5. Typed(q) /\ Repays(q)
  BY <1>3, <1>4 DEF Typed, Repays
<1> QED BY <1>2, <1>5, ReadsGoOn

LEMMA PricesTyped ==
  ASSUME LoanAssumption, LoanInv, LoanData, NEW w \in Workers, PricePass(w)
  PROVE  LoanData'
<1>0. /\ req = [x \in Workers |-> req[x]] /\ req[w] = [f \in Fields |-> req[w][f]]
      /\ Typed(req[w]) /\ TypeOK
  BY DEF LoanInv, Shape, LoanData
<1>1. PICK q : q = [req[w] EXCEPT !.step = "slip", !.lines = Due(req[w].period)]
  OBVIOUS
<1>2. req' = [req EXCEPT ![w] = q] /\ UNCHANGED <<loan, row, ledger, slips, world>>
  BY <1>0, <1>1 DEF PricePass
<1>3. /\ q.step = "slip" /\ q.op = req[w].op /\ q.rows = req[w].rows /\ q.paid = req[w].paid
      /\ q.lines = Due(req[w].period) /\ q.no = req[w].no
  BY <1>0, <1>1 DEF Fields
<1>4. Due(req[w].period) \subseteq Entries
  <2>1. \A s \in Seqs : [seq |-> s, amount |-> row[s].amount] \in Entries
    <3>1. \A s \in Seqs : s \in 0..MaxSeq /\ row[s].amount \in Nat
      BY <1>0, Calendar DEF TypeOK, Seqs
    <3> QED BY <3>1 DEF Entries
  <2> QED BY <2>1 DEF Due
<1>5. Typed(q) /\ Repays(q)
  BY <1>0, <1>3, <1>4 DEF Typed, Repays
<1> QED BY <1>2, <1>5, ReadsGoOn

LEMMA SlipTyped ==
  ASSUME LoanAssumption, LoanInv, LoanData, NEW w \in Workers, WriteSlip(w)
  PROVE  LoanData'
<1>0. /\ req = [x \in Workers |-> req[x]] /\ req[w] = [f \in Fields |-> req[w][f]]
      /\ Typed(req[w]) /\ TypeOK /\ Sound(req[w]) /\ req[w].step = "slip"
  BY DEF LoanInv, Shape, LoanData, WriteSlip
<1>1. UNCHANGED <<loan, row, ledger, world>>
  BY DEF WriteSlip
<1>2. CASE \E x \in slips : x.period = req[w].period /\ x.no = req[w].no
  BY <1>1, <1>2, EndsTyped DEF WriteSlip
<1>3. CASE ~ \E x \in slips : x.period = req[w].period /\ x.no = req[w].no
  <2>1. PICK x : x = [period |-> req[w].period, no |-> req[w].no, lines |-> req[w].lines]
    OBVIOUS
  <2>2. PICK q : q = NextLine(req[w])
    OBVIOUS
  <2>3. slips' = slips \cup {x} /\ req' = [req EXCEPT ![w] = q]
    BY <1>3, <2>1, <2>2 DEF WriteSlip
  <2>4. Typed(q) /\ Repays(q)
    BY <1>0, <2>2, NextLineTyped
  <2>5. x.period \in Periods /\ x.no \in 1..MaxRuns /\ x.lines \subseteq Entries
    BY <1>0, <2>1 DEF Typed, Sound
  <2>6. Keeps
    BY <1>1, <2>3 DEF Keeps
  <2>7. TypeOK' /\ Runs'
    BY <1>0, <1>1, <2>3, <2>5 DEF LoanData, TypeOK, Runs, world
  <2>8. Goes(w, q)
    BY <1>1, <2>3, <2>4, <2>7 DEF Goes, LoanData, SettledIsRepaid
  <2> QED BY <2>6, <2>8, GoesOn
<1> QED BY <1>2, <1>3

LEMMA EntryTyped ==
  ASSUME LoanAssumption, LoanInv, LoanData, NEW w \in Workers, RecordEntry(w)
  PROVE  LoanData'
<1>0. /\ req = [x \in Workers |-> req[x]] /\ req[w] = [f \in Fields |-> req[w][f]]
      /\ Typed(req[w]) /\ TypeOK /\ Sound(req[w])
  BY DEF LoanInv, Shape, LoanData
<1>1. PICK line \in req[w].lines :
        LET inserted == ledger[req[w].period] = NoEntry
            rest == [req[w] EXCEPT !.lines = @ \ {line}] IN
          /\ req[w].step = "record"
          /\ ledger' = IF inserted THEN [ledger EXCEPT ![req[w].period] = line] ELSE ledger
          /\ req' = [req EXCEPT ![w] =
                       IF inserted THEN [rest EXCEPT !.step = "mark", !.entry = line]
                       ELSE NextLine(rest)]
          /\ UNCHANGED <<loan, row, slips, world>>
  BY Zenon DEF RecordEntry
<1>2. PICK rest : rest = [req[w] EXCEPT !.lines = @ \ {line}]
  OBVIOUS
<1>3. PICK p : p = req[w].period
  OBVIOUS
<1>4. /\ rest = [f \in Fields |-> rest[f]]
      /\ rest.step = "record" /\ rest.op = req[w].op /\ rest.rows = req[w].rows
      /\ rest.paid = req[w].paid /\ rest.lines = req[w].lines \ {line} /\ rest.no = req[w].no
  BY <1>0, <1>1, <1>2 DEF Fields
<1>5. Typed(rest) /\ line \in Entries
  BY <1>0, <1>4 DEF Typed
<1>6. UNCHANGED <<loan, row, slips, world>> /\ p \in Periods
  BY <1>0, <1>1, <1>3 DEF Sound
<1>7. CASE ledger[p] = NoEntry
  <2>1. PICK q : q = [rest EXCEPT !.step = "mark", !.entry = line]
    OBVIOUS
  <2>2. ledger' = [ledger EXCEPT ![p] = line] /\ req' = [req EXCEPT ![w] = q]
    BY <1>1, <1>2, <1>3, <1>7, <2>1
  <2>3. /\ q.step = "mark" /\ q.op = rest.op /\ q.rows = rest.rows
        /\ q.paid = rest.paid /\ q.lines = rest.lines /\ q.no = rest.no
    BY <1>4, <2>1 DEF Fields
  <2>4. Typed(q) /\ Repays(q)
    BY <1>5, <2>3 DEF Typed, Repays
  <2>5. Keeps
    BY <1>0, <1>6, <1>7, <2>2 DEF Keeps, TypeOK
  <2>6. ledger' \in [Periods -> Entries]
    BY <1>0, <1>5, <1>6, <2>2 DEF TypeOK
  <2>7. TypeOK' /\ Runs'
    BY <1>0, <1>6, <2>6 DEF LoanData, TypeOK, Runs, world
  <2>8. Goes(w, q)
    BY <1>6, <2>2, <2>4, <2>7 DEF Goes, LoanData, SettledIsRepaid
  <2> QED BY <2>5, <2>8, GoesOn
<1>8. CASE ledger[p] # NoEntry
  <2>1. PICK q : q = NextLine(rest)
    OBVIOUS
  <2>2. ledger' = ledger /\ req' = [req EXCEPT ![w] = q]
    BY <1>1, <1>2, <1>3, <1>8, <2>1
  <2>3. Typed(q) /\ Repays(q)
    BY <1>4, <1>5, <2>1, NextLineTyped
  <2> QED BY <1>6, <2>2, <2>3, ReadsGoOn
<1> QED BY <1>7, <1>8

LEMMA MarkTyped ==
  ASSUME LoanAssumption, LoanInv, LoanData, NEW w \in Workers, MarkDeducted(w)
  PROVE  LoanData'
<1>0. /\ req = [x \in Workers |-> req[x]] /\ req[w] = [f \in Fields |-> req[w][f]]
      /\ Typed(req[w]) /\ TypeOK
  BY DEF LoanInv, Shape, LoanData
<1>1. PICK s : s = req[w].entry.seq
  OBVIOUS
<1>2. PICK q : q = [req[w] EXCEPT !.step = "cleared", !.entry = NoEntry]
  OBVIOUS
<1>3. req' = [req EXCEPT ![w] = q] /\ UNCHANGED <<loan, ledger, slips, world>>
  BY <1>0, <1>2 DEF MarkDeducted, Fields
<1>4. row' = [row EXCEPT ![s].status = IF @ = "planned" THEN "deducted" ELSE @]
  BY <1>1, Zenon DEF MarkDeducted
<1>5. /\ q.step = "cleared" /\ q.op = req[w].op /\ q.rows = req[w].rows
      /\ q.paid = req[w].paid /\ q.lines = req[w].lines /\ q.no = req[w].no
  BY <1>0, <1>2 DEF Fields
<1>6. Typed(q) /\ Repays(q)
  BY <1>0, <1>5 DEF Typed, Repays
<1>7. \A t \in Seqs :
        \/ row'[t] = row[t]
        \/ /\ row[t].status = "planned"
           /\ row'[t] = [status |-> "deducted", period |-> row[t].period, amount |-> row[t].amount]
  BY <1>0, <1>4 DEF TypeOK
<1>8. row' \in [Seqs -> [status : {"none", "planned", "deducted", "cancelled"},
                         period : Periods, amount : Nat]]
  <2>1. row' = [t \in Seqs |-> row'[t]]
    BY <1>0, <1>4 DEF TypeOK
  <2>2. ASSUME NEW t \in Seqs
        PROVE  row'[t] \in [status : {"none", "planned", "deducted", "cancelled"},
                            period : Periods, amount : Nat]
    <3>1. row[t] \in [status : {"none", "planned", "deducted", "cancelled"},
                      period : Periods, amount : Nat]
      BY <1>0 DEF TypeOK
    <3>2. CASE row'[t] = row[t]
      BY <3>1, <3>2
    <3>3. CASE row'[t] = [status |-> "deducted", period |-> row[t].period, amount |-> row[t].amount]
      BY <3>1, <3>3
    <3> QED BY <1>7, <3>2, <3>3
  <2> QED BY <2>1, <2>2
<1>9. ASSUME NEW t \in Seqs, row[t].status # "none"
      PROVE  /\ row'[t].status # "none"
             /\ row'[t].period = row[t].period /\ row'[t].amount = row[t].amount
  <2>1. CASE row'[t] = row[t]
    BY <1>9, <2>1
  <2>2. CASE row'[t] = [status |-> "deducted", period |-> row[t].period, amount |-> row[t].amount]
    BY <2>2
  <2> QED BY <1>7, <2>1, <2>2
<1> QED BY <1>3, <1>6, <1>8, <1>9, RowsTyped

LEMMA ClearedTyped ==
  ASSUME LoanAssumption, LoanInv, LoanData, NEW w \in Workers, settleIfCleared(w)
  PROVE  LoanData'
<1>0. /\ req = [x \in Workers |-> req[x]] /\ req[w] = [f \in Fields |-> req[w][f]]
      /\ Typed(req[w]) /\ TypeOK /\ Sound(req[w]) /\ req[w].step = "cleared"
  BY DEF LoanInv, Shape, LoanData, settleIfCleared
<1>1. UNCHANGED <<loan, row, ledger, slips, world>>
  BY DEF settleIfCleared
<1>2. CASE loan.status = "active" /\ remainingMinor <= 0
  <2>1. PICK q : q = [req[w] EXCEPT !.step = "update", !.v = loan.v]
    OBVIOUS
  <2>2. req' = [req EXCEPT ![w] = q]
    BY <1>2, <2>1 DEF settleIfCleared
  <2>3. /\ q.step = "update" /\ q.op = req[w].op /\ q.rows = req[w].rows
        /\ q.paid = req[w].paid /\ q.lines = req[w].lines /\ q.no = req[w].no
    BY <1>0, <2>1 DEF Fields
  <2>4. req[w].op = "pass"
    BY <1>0 DEF Sound
  <2>5. Repaid >= Principal
    <3>1. Repaid \in Int /\ Principal \in Nat
      BY <1>0, RepaidType, Calendar
    <3> QED BY <1>2, <3>1 DEF remainingMinor
  <2>6. Typed(q) /\ Repays(q)
    BY <1>0, <2>3, <2>4, <2>5 DEF Typed, Repays
  <2> QED BY <1>1, <2>2, <2>6, ReadsGoOn
<1>3. CASE ~(loan.status = "active" /\ remainingMinor <= 0)
  <2>1. PICK q : q = NextLine(req[w])
    OBVIOUS
  <2>2. req' = [req EXCEPT ![w] = q]
    BY <1>3, <2>1 DEF settleIfCleared
  <2>3. Typed(q) /\ Repays(q)
    BY <1>0, <2>1, NextLineTyped
  <2> QED BY <1>1, <2>2, <2>3, ReadsGoOn
<1> QED BY <1>2, <1>3

-----------------------------------------------------------------------------
\* The write of the loan document: a loan that becomes settled is repaid, and
\* a settled one is not written again.
LEMMA UpdateTyped ==
  ASSUME LoanAssumption, LoanInv, LoanData, NEW w \in Workers, Update(w)
  PROVE  LoanData'
<1>0. /\ req = [x \in Workers |-> req[x]] /\ req[w] = [f \in Fields |-> req[w][f]]
      /\ Typed(req[w]) /\ Repays(req[w]) /\ TypeOK /\ Sound(req[w])
      /\ req[w].step = "update" /\ loan.v = req[w].v
  BY DEF LoanInv, Shape, LoanData, Update, Fresh
<1>1. /\ loan' = [status |-> Outcome(req[w]), v |-> loan.v + 1,
                  external |-> loan.external + req[w].paid]
      /\ UNCHANGED <<row, ledger, slips, world>>
  BY DEF Update
<1>2. loan.v \in Nat /\ loan.external \in Nat /\ loan.status \in LoanStatuses /\ req[w].paid \in Nat
  BY <1>0 DEF TypeOK, Typed
<1>3. loan.status # "settled"
  <2>1. CASE req[w].op = "pass"
    BY <1>0, <2>1 DEF Sound, Current
  <2>2. CASE req[w].op # "pass"
    <3>1. loan.status \in Accepts(req[w].op)
      BY <1>0, <2>2 DEF Sound, Current
    <3> QED BY <3>1 DEF Accepts
  <2> QED BY <2>1, <2>2
<1>4. Outcome(req[w]) \in LoanStatuses
  BY <1>2 DEF Outcome, LoanStatuses
<1>5. Outcome(req[w]) = "settled" => req[w].op \in {"settle", "pass"}
  BY <1>3 DEF Outcome
<1>6. loan'.status = "settled" => Repaid + loan'.external >= Principal
  <2>1. Repaid \in Int /\ Principal \in Nat
    BY <1>0, RepaidType, Calendar
  <2>2. loan'.status = Outcome(req[w]) /\ loan'.external = loan.external + req[w].paid
    BY <1>1
  <2>3. req[w].op = "settle" => req[w].paid + Repaid >= Principal
    BY <1>0 DEF Repays
  <2>4. req[w].op = "pass" => Repaid >= Principal
    BY <1>0 DEF Repays
  <2> QED BY <1>2, <1>5, <2>1, <2>2, <2>3, <2>4
<1>7. PICK q : q = IF req[w].op = "pass" THEN NextLine(req[w]) ELSE Idle
  OBVIOUS
<1>8. req' = [req EXCEPT ![w] = q]
  BY <1>0, <1>7 DEF Update
<1>9. Typed(q) /\ Repays(q)
  BY <1>0, <1>7, NextLineTyped, IdleTyped
<1>10. Keeps
  BY <1>1 DEF Keeps
<1>11. TypeOK' /\ Runs'
  <2>1. loan' \in [status : LoanStatuses, v : Nat, external : Nat]
    BY <1>1, <1>2, <1>4
  <2> QED BY <1>0, <1>1, <2>1 DEF LoanData, TypeOK, Runs, world
<1>12. Goes(w, q)
  BY <1>6, <1>8, <1>9, <1>11 DEF Goes
<1> QED BY <1>10, <1>12, GoesOn

-----------------------------------------------------------------------------
\* Payroll runs.
LEMMA RunsTyped ==
  ASSUME LoanAssumption, LoanInv, LoanData, NEW p \in Periods, OpenRun(p) \/ MoveRun(p)
  PROVE  LoanData'
<1>0. TypeOK /\ Runs /\ MaxRuns \in Nat
  BY Calendar DEF LoanData
<1>1. UNCHANGED <<loan, row, ledger, slips, req>>
  BY DEF OpenRun, MoveRun
<1>2. TypeOK' /\ Runs'
  <2>1. CASE OpenRun(p)
    <3>1. /\ runNo[p] < MaxRuns /\ runNo' = [runNo EXCEPT ![p] = @ + 1]
          /\ current' = [current EXCEPT ![p] = "draft"]
      BY <2>1 DEF OpenRun, Period!Open, Period!Move
    <3>2. runNo' \in [Periods -> 0..MaxRuns] /\ \A x \in Periods : runNo'[x] >= runNo[x]
      BY <1>0, <3>1 DEF Runs
    <3>3. runNo'[p] >= 1 /\ \A x \in Periods : x # p => current'[x] = current[x]
      BY <1>0, <3>1 DEF Runs, TypeOK
    <3>4. Runs'
      BY <1>0, <3>2, <3>3 DEF Runs
    <3>5. current' \in [Periods -> Period!Stages]
      BY <1>0, <3>1 DEF TypeOK, Period!Stages
    <3> QED BY <1>0, <1>1, <3>4, <3>5 DEF TypeOK
  <2>2. CASE MoveRun(p)
    <3>1. PICK from, to :
            /\ current[p] \in from /\ current' = [current EXCEPT ![p] = to]
            /\ to \in Period!Stages /\ "none" \notin from
      BY <2>2 DEF MoveRun, Period!Freeze, Period!Approve, Period!Cancel,
         Period!Move, Period!Stages
    <3>2. runNo' = runNo /\ current[p] # "none"
      BY <2>2, <3>1 DEF MoveRun
    <3>3. current' \in [Periods -> Period!Stages]
      BY <1>0, <3>1 DEF TypeOK
    <3>4. \A x \in Periods : current'[x] # "none" => current[x] # "none"
      BY <1>0, <3>1, <3>2 DEF TypeOK
    <3> QED BY <1>0, <1>1, <3>2, <3>3, <3>4 DEF TypeOK, Runs
  <2> QED BY <2>1, <2>2
<1> QED BY <1>1, <1>2 DEF LoanData, SettledIsRepaid, Repays, Repaid

LEMMA DataNext == LoanAssumption /\ LoanInv /\ LoanData /\ [Next]_vars => LoanData'
<1> SUFFICES ASSUME LoanAssumption, LoanInv, LoanData, [Next]_vars PROVE LoanData'
  OBVIOUS
<1>1. ASSUME NEW w \in Workers, Serve(w) PROVE LoanData'
  <2>1. CASE \/ ReadMonths(w) \/ PlanSettle(w) \/ PlanExit(w) \/ Refuse(w) \/ ReadBalance(w)
    BY <2>1, PlansTyped
  <2>2. CASE PlanDisburse(w)
    BY <2>2, DisburseTyped
  <2>3. CASE PlanReschedule(w)
    BY <2>3, RescheduleTyped
  <2>4. CASE PlanAccelerate(w)
    BY <2>4, AccelerateTyped
  <2>5. CASE Withdraw(w)
    BY <2>5, WithdrawTyped
  <2>6. CASE WriteRow(w)
    BY <2>6, WriteRowTyped
  <2>7. CASE Update(w)
    BY <2>7, UpdateTyped
  <2>8. CASE Stale(w)
    BY <2>8, EndsTyped DEF Stale
  <2>9. CASE PricePass(w)
    BY <2>9, PricesTyped
  <2>10. CASE WriteSlip(w)
    BY <2>10, SlipTyped
  <2>11. CASE RecordEntry(w)
    BY <2>11, EntryTyped
  <2>12. CASE MarkDeducted(w)
    BY <2>12, MarkTyped
  <2>13. CASE settleIfCleared(w)
    BY <2>13, ClearedTyped
  <2> QED BY <1>1, <2>1, <2>2, <2>3, <2>4, <2>5, <2>6, <2>7, <2>8, <2>9, <2>10, <2>11, <2>12,
         <2>13 DEF Serve
<1>2. ASSUME NEW p \in Periods, OpenRun(p) \/ MoveRun(p) PROVE LoanData'
  BY <1>2, RunsTyped
<1>3. ASSUME NEW w \in Workers, Start(w) PROVE LoanData'
  BY <1>3, BeginTyped
<1>4. ASSUME NEW w \in Workers, Crash(w) PROVE LoanData'
  BY <1>4, EndsTyped DEF Crash
<1>5. ASSUME NEW w \in Workers, NEW p \in Periods, StartPass(w, p) PROVE LoanData'
  BY <1>5, PassBeginsTyped
<1>6. CASE UNCHANGED vars
  BY <1>6 DEF vars, world, LoanData, TypeOK, Runs, SettledIsRepaid, Repays, Repaid
<1> QED BY <1>1, <1>2, <1>3, <1>4, <1>5, <1>6 DEF Next

THEOREM LoanDataInvariant == Spec => []LoanData
BY LoanAssumption, DataInitially, DataNext, LoanInvariant, PTL DEF Spec

\* The four collections keep the shape of their schemas, whatever is planned,
\* replanned, written twice or dies half way.
THEOREM LoanTypes == Spec => []TypeOK
<1>1. LoanData => TypeOK
  BY DEF LoanData
<1> QED BY <1>1, LoanDataInvariant, PTL

\* A loan says settled only when payroll and the settlement have repaid it:
\* what settleExternally and settleIfCleared have read cannot shrink before
\* they write, and updateById refuses them when the loan has moved.
THEOREM SettledLoansAreRepaid == Spec => []SettledIsRepaid
<1>1. LoanData => SettledIsRepaid
  BY DEF LoanData
<1> QED BY <1>1, LoanDataInvariant, PTL

-----------------------------------------------------------------------------
\* What is planned and not about to be withdrawn or marked.
Still(q) ==
  Planned \ (IF q.step = "mark" THEN {q.entry.seq}
             ELSE IF q.step = "withdraw" THEN q.cancel ELSE {})

\* What a request is about to schedule.
Coming(q) == IF q.step \in {"withdraw", "write"} THEN totalMinor(q.rows) ELSE 0

\* What has been repaid and what may still be: never more than the principal.
Budget(q) ==
  IF loan.status \in {"approved", "active"}
    THEN loan.external = 0 /\ Repaid + Total(Still(q)) + Coming(q) <= Principal
    ELSE Repaid + loan.external <= Principal

\* A loan that was never paid out has no schedule and no repayments.
Untouched(q) ==
  loan.status = "approved" =>
    /\ \A p \in Periods : ledger[p] = NoEntry
    /\ \/ q.op = "disburse" /\ q.step \in {"write", "update"}
       \/ \A s \in Seqs : row[s].status = "none"

\* The rows about to be written: worth something, and those of the first
\* schedule in months of their own.
Writes(q) ==
  /\ q.step \in {"withdraw", "write"} => \A i \in DOMAIN q.rows : q.rows[i].amount >= 1
  /\ q.step = "withdraw" /\ q.op # "settle" => q.cancel \subseteq Planned
  /\ q.op = "disburse" /\ q.step = "write" =>
       /\ \A i, j \in DOMAIN q.rows : q.rows[i].period = q.rows[j].period => i = j
       /\ \A i \in DOMAIN q.rows, t \in Planned : row[t].period # q.rows[i].period

\* The lines a pass is about to record are planned, unless the month has its
\* entry.
Prices(q) ==
  /\ q.op = "pass" /\ q.step \in {"slip", "record"} /\ ledger[q.period] = NoEntry =>
       \A line \in q.lines :
         /\ loan.status = "active"
         /\ \E s \in Planned : line = [seq |-> s, amount |-> row[s].amount]
  /\ q.op = "pass" /\ q.step \in {"mark", "cleared", "update"} => ledger[q.period] # NoEntry

\* A request that nothing overlaps.
Alone(q) ==
  /\ q.step # "idle" /\ q.op # "pass" => q.v = loan.v
  /\ q.paid = 0 \/ (q.op = "settle" /\ Repaid + q.paid <= Principal)
  /\ q.op \in {"settle", "exit"} => q.rows = <<>>
  /\ Budget(q) /\ Untouched(q) /\ Writes(q) /\ Prices(q)

Worth == \A s \in Seqs : row[s].status # "none" => row[s].amount >= 1

\* Nobody else is being served.
Turn(w) == \A v \in Workers \ {w} : req[v] = Idle

LoanBudget ==
  /\ mishaps \in Nat
  /\ mishaps = 0 => Worth /\ \E w \in Workers : Turn(w) /\ Alone(req[w])

-----------------------------------------------------------------------------
\* Sums over instalments.
LEMMA TotalFacts ==
  ASSUME LoanAssumption, TypeOK, NEW S \in SUBSET Seqs
  PROVE  /\ Total(S) \in Int /\ Total(S) >= 0
         /\ \A A \in SUBSET S : /\ Total(A) \in Int /\ Total(A) >= 0
                                /\ Total(S) = Total(A) + Total(S \ A)
                                /\ Total(A) <= Total(S)
         /\ \A s \in S : Total(S) = row[s].amount + Total(S \ {s})
<1>1. PICK f : f = [s \in Seqs |-> row[s].amount]
  OBVIOUS
<1>2. \A s \in Seqs : f[s] = row[s].amount /\ f[s] \in Int /\ f[s] >= 0
  BY <1>1 DEF TypeOK
<1>3. \A A : Total(A) = SumFunctionOnSet(f, A)
  BY <1>1 DEF Total
<1>4. ASSUME NEW A \in SUBSET Seqs PROVE Total(A) \in Int /\ Total(A) >= 0
  <2>1. IsFiniteSet(A)
    BY Calendar, FS_Subset
  <2>2. PICK z : z = [s \in Seqs |-> 0]
    OBVIOUS
  <2>3. \A s \in A : z[s] = 0 /\ z[s] \in Int /\ f[s] \in Int /\ z[s] <= f[s]
    BY <1>2, <2>2
  <2>4. SumFunctionOnSet(z, A) = 0 /\ SumFunctionOnSet(z, A) <= SumFunctionOnSet(f, A)
    BY <2>1, <2>3, SumZero, SumMonotone
  <2>5. SumFunctionOnSet(f, A) \in Int
    BY <2>1, <2>3, SumType
  <2> QED BY <1>3, <2>4, <2>5
<1>5. ASSUME NEW A \in SUBSET S
      PROVE  /\ Total(A) \in Int /\ Total(A) >= 0
             /\ Total(S) = Total(A) + Total(S \ A)
             /\ Total(A) <= Total(S)
  <2>1. IsFiniteSet(S) /\ \A s \in S : f[s] \in Int
    BY <1>2, Calendar, FS_Subset
  <2>2. SumFunctionOnSet(f, S) = SumFunctionOnSet(f, A) + SumFunctionOnSet(f, S \ A)
    BY <2>1, SumUnion
  <2>3. Total(S) = Total(A) + Total(S \ A)
    BY <1>3, <2>2
  <2>4. /\ Total(A) \in Int /\ Total(A) >= 0
        /\ Total(S \ A) \in Int /\ Total(S \ A) >= 0
    BY <1>4
  <2> QED BY <2>3, <2>4
<1>6. ASSUME NEW s \in S PROVE Total(S) = row[s].amount + Total(S \ {s})
  <2>1. IsFiniteSet(S) /\ \A t \in S : f[t] \in Int
    BY <1>2, Calendar, FS_Subset
  <2>2. SumFunctionOnSet(f, S) = f[s] + SumFunctionOnSet(f, S \ {s})
    BY <2>1, SumTakeOut
  <2> QED BY <1>2, <1>3, <2>2
<1> QED BY <1>4, <1>5, <1>6

\* The same instalments, after a step that leaves their amounts.
LEMMA TotalKept ==
  ASSUME LoanAssumption, TypeOK, TypeOK', NEW S \in SUBSET Seqs,
         \A s \in S : row'[s].amount = row[s].amount
  PROVE  SumFunctionOnSet([s \in Seqs |-> row'[s].amount], S) = Total(S)
<1>1. PICK f, g : f = [s \in Seqs |-> row[s].amount] /\ g = [s \in Seqs |-> row'[s].amount]
  OBVIOUS
<1>2. \A s \in S : f[s] \in Int /\ g[s] = f[s]
  BY <1>1 DEF TypeOK
<1>3. IsFiniteSet(S)
  BY Calendar, FS_Subset
<1>4. SumFunctionOnSet(f, S) = SumFunctionOnSet(g, S)
  BY <1>2, <1>3, SumSame
<1> QED BY <1>1, <1>4 DEF Total

\* One instalment more.
LEMMA TotalMore ==
  ASSUME LoanAssumption, TypeOK, TypeOK', NEW S \in SUBSET Seqs, NEW x \in Seqs \ S,
         \A s \in S : row'[s].amount = row[s].amount
  PROVE  SumFunctionOnSet([s \in Seqs |-> row'[s].amount], S \cup {x}) = row'[x].amount + Total(S)
<1>1. PICK g : g = [s \in Seqs |-> row'[s].amount]
  OBVIOUS
<1>2. \A s \in Seqs : g[s] = row'[s].amount /\ g[s] \in Int
  BY <1>1 DEF TypeOK
<1>3. IsFiniteSet(S)
  BY Calendar, FS_Subset
<1>4. SumFunctionOnSet(g, S \cup {x}) = g[x] + SumFunctionOnSet(g, S)
  BY <1>2, <1>3, SumAdd
<1>5. SumFunctionOnSet(g, S) = Total(S)
  BY <1>1, TotalKept
<1> QED BY <1>1, <1>2, <1>4, <1>5

-----------------------------------------------------------------------------
\* Sums over rows about to be written.
LEMMA TotalOfNone == totalMinor(<<>>) = 0
<1>1. PICK R : R = [amount : Nat]
  OBVIOUS
<1>2. PICK rows : rows = <<>>
  OBVIOUS
<1>3. rows \in Seq(R) /\ (\A r \in R : r.amount \in Int) /\ DOMAIN rows = {}
  BY <1>1, <1>2
<1>4. totalMinor(rows) = SumFunctionOnSet(Amounts(rows), {})
  BY <1>3, TotalIsSum
<1> QED BY <1>2, <1>4, SumEmpty

LEMMA TotalOfRows ==
  ASSUME NEW rows \in Seq(RowType), rows # <<>>
  PROVE  /\ Head(rows).amount \in Nat
         /\ totalMinor(rows) \in Int /\ totalMinor(Tail(rows)) \in Int /\ totalMinor(Tail(rows)) >= 0
         /\ totalMinor(rows) = Head(rows).amount + totalMinor(Tail(rows))
<1>1. \A r \in RowType : r.amount \in Int /\ r.amount >= 0 /\ r.amount \in Nat
  BY DEF RowType
<1>2. PICK n, t : n = Len(rows) - 1 /\ t = Tail(rows)
  OBVIOUS
<1>3. /\ n \in Nat /\ Len(rows) = n + 1 /\ t \in Seq(RowType) /\ Len(t) = n
      /\ \A j \in 1..n : t[j] = rows[j + 1]
      /\ DOMAIN rows = 1..(n + 1) /\ DOMAIN t = 1..n /\ Head(rows) = rows[1]
      /\ \A j \in 1..(n + 1) : rows[j] \in RowType
  BY <1>2
<1>4. PICK a, b : a = Amounts(rows) /\ b = Amounts(t)
  OBVIOUS
<1>5. \A j \in 1..(n + 1) : a[j] = rows[j].amount /\ a[j] \in Int /\ a[j] >= 0
  BY <1>1, <1>3, <1>4 DEF Amounts
<1>6. \A j \in 1..n : b[j] \in Int /\ b[j] >= 0 /\ a[j + 1] = b[j]
  <2> SUFFICES ASSUME NEW j \in 1..n PROVE b[j] \in Int /\ b[j] >= 0 /\ a[j + 1] = b[j]
    OBVIOUS
  <2>1. j + 1 \in 1..(n + 1)
    BY <1>3
  <2>2. b[j] = t[j].amount /\ t[j] = rows[j + 1]
    BY <1>3, <1>4 DEF Amounts
  <2> QED BY <1>5, <2>1, <2>2
<1>7. totalMinor(rows) = SumFunctionOnSet(a, 1..(n + 1)) /\ totalMinor(t) = SumFunctionOnSet(b, 1..n)
  BY <1>1, <1>3, <1>4, TotalIsSum
<1>8. SumFunctionOnSet(b, 1..n) = SumFunctionOnSet(a, 2..(n + 1))
  <2>1. SumFunctionOnSet(b, 1..n) = SumFunctionOnSet(a, (1 + 1)..(1 + n))
    <3>1. PICK d : d = 1
      OBVIOUS
    <3>2. d \in Nat /\ n \in Nat
      BY <1>3, <3>1
    <3>3. \A j \in 1..n : b[j] \in Int /\ a[j + d] = b[j]
      BY <1>6, <3>1
    <3>4. SumFunctionOnSet(b, 1..n) = SumFunctionOnSet(a, (d + 1)..(d + n))
      BY <3>2, <3>3, SumShift
    <3>5. (d + 1)..(d + n) = (1 + 1)..(1 + n)
      BY <1>3, <3>1
    <3> QED BY <3>4, <3>5
  <2>2. (1 + 1)..(1 + n) = 2..(n + 1)
    BY <1>3
  <2> QED BY <2>1, <2>2
<1>9. SumFunctionOnSet(a, 1..(n + 1)) = a[1] + SumFunctionOnSet(a, 2..(n + 1))
  <2>1. 1..(n + 1) = (2..(n + 1)) \cup {1} /\ 1 \notin 2..(n + 1)
    BY <1>3
  <2>2. IsFiniteSet(2..(n + 1))
    BY <1>3, FS_Interval
  <2>3. (\A j \in 2..(n + 1) : a[j] \in Int) /\ a[1] \in Int
    BY <1>3, <1>5
  <2> QED BY <2>1, <2>2, <2>3, SumAdd
<1>10. SumFunctionOnSet(b, 1..n) \in Int /\ SumFunctionOnSet(b, 1..n) >= 0
  <2>1. IsFiniteSet(1..n)
    BY <1>3, FS_Interval
  <2>2. PICK z : z = [j \in 1..n |-> 0]
    OBVIOUS
  <2>3. \A j \in 1..n : z[j] = 0 /\ z[j] \in Int /\ b[j] \in Int /\ z[j] <= b[j]
    BY <1>6, <2>2
  <2>4. SumFunctionOnSet(z, 1..n) = 0 /\ SumFunctionOnSet(z, 1..n) <= SumFunctionOnSet(b, 1..n)
    BY <2>1, <2>3, SumZero, SumMonotone
  <2>5. SumFunctionOnSet(b, 1..n) \in Int
    BY <2>1, <2>3, SumType
  <2> QED BY <2>4, <2>5
<1>11. a[1] = Head(rows).amount /\ a[1] \in Nat
  BY <1>1, <1>3, <1>5
<1> QED BY <1>2, <1>7, <1>8, <1>9, <1>10, <1>11

\* Rows that are worth the same.
Alike(q, rows, n) ==
  /\ DOMAIN q = 1..n
  /\ \A i \in 1..n : q[i].amount = rows[i].amount
  /\ totalMinor(q) = totalMinor(rows)

\* A new number does not change what a row is worth.
LEMMA TotalRenumbered ==
  ASSUME NEW X, NEW n \in Nat, NEW rows, rows = [i \in 1..n |-> rows[i]],
         \A i \in 1..n : rows[i] \in [seq : X, period : Periods, amount : Nat]
  PROVE  Alike(Renumbered(rows), rows, n)
<1>1. PICK q : q = Renumbered(rows)
  OBVIOUS
<1>2. q = [i \in 1..n |-> [rows[i] EXCEPT !.seq = nextSeq + i - 1]]
  BY <1>1 DEF Renumbered
<1>3. PICK R : R = [seq : X, period : Periods, amount : Nat]
  OBVIOUS
<1>4. PICK Q : Q = {q[i] : i \in 1..n}
  OBVIOUS
<1>5. ASSUME NEW i \in 1..n PROVE q[i].amount = rows[i].amount /\ rows[i].amount \in Int
  <2>1. rows[i] \in [seq : X, period : Periods, amount : Nat]
    OBVIOUS
  <2> QED BY <1>2, <2>1
<1>6. rows \in Seq(R) /\ q \in Seq(Q) /\ DOMAIN rows = 1..n /\ DOMAIN q = 1..n
  <2>1. rows \in [1..n -> R]
    BY <1>3
  <2>2. q \in [1..n -> Q] /\ DOMAIN q = 1..n
    BY <1>2, <1>4
  <2> QED BY <2>1, <2>2
<1>7. (\A r \in R : r.amount \in Int) /\ \A r \in Q : r.amount \in Int
  BY <1>3, <1>4, <1>5
<1>8. PICK a, b : a = Amounts(rows) /\ b = Amounts(q)
  OBVIOUS
<1>9. totalMinor(rows) = SumFunctionOnSet(a, 1..n) /\ totalMinor(q) = SumFunctionOnSet(b, 1..n)
  BY <1>6, <1>7, <1>8, TotalIsSum
<1>10. \A i \in 1..n : a[i] \in Int /\ b[i] = a[i]
  BY <1>5, <1>6, <1>8 DEF Amounts
<1>11. SumFunctionOnSet(a, 1..n) = SumFunctionOnSet(b, 1..n)
  <2>1. IsFiniteSet(1..n)
    BY FS_Interval
  <2> QED BY <1>10, <2>1, SumSame
<1> QED BY <1>1, <1>5, <1>6, <1>9, <1>11 DEF Alike

-----------------------------------------------------------------------------
\* The one request goes on as q.
LEMMA Changed ==
  ASSUME LoanInv, LoanBudget, NEW w \in Workers, mishaps = 0 => Turn(w), NEW q,
         req' = [req EXCEPT ![w] = q], mishaps' = mishaps,
         mishaps = 0 => Worth' /\ Alone(q)'
  PROVE  LoanBudget'
<1>1. req'[w] = q /\ \A v \in Workers \ {w} : req'[v] = req[v]
  BY DEF LoanInv, Shape
<1>2. ASSUME mishaps = 0 PROVE Worth' /\ Turn(w)' /\ Alone(req[w])'
  <2>1. Turn(w)'
    BY <1>1, <1>2 DEF Turn
  <2>2. Worth' /\ Alone(q)'
    BY <1>2
  <2>3. req'[w] = q
    BY <1>1
  <2>4. Alone(req[w])'
    <3>1. Total(Still(req[w]))' = Total(Still(q))' /\ Coming(req[w])' = Coming(q)'
      BY <2>3 DEF Still, Coming, Total
    <3>2. Budget(req[w])'
      BY <2>2, <2>3, <3>1 DEF Alone, Budget
    <3>3. Untouched(req[w])'
      BY <2>2, <2>3 DEF Alone, Untouched
    <3>4. Writes(req[w])'
      BY <2>2, <2>3 DEF Alone, Writes
    <3>5. Prices(req[w])'
      BY <2>2, <2>3 DEF Alone, Prices
    <3> QED BY <2>2, <2>3, <3>2, <3>3, <3>4, <3>5 DEF Alone
  <2> QED BY <2>1, <2>2, <2>4
<1> QED BY <1>2 DEF LoanBudget

LEMMA SameBooks ==
  ASSUME UNCHANGED <<loan, row, ledger>>, NEW q
  PROVE  /\ Alone(q) => Alone(q)'
         /\ Worth => Worth'
<1>1. Planned' = Planned /\ Repaid' = Repaid
  BY DEF Planned, Repaid
<1>2. Total(Still(q))' = Total(Still(q)) /\ Coming(q)' = Coming(q)
  BY <1>1 DEF Total, Still, Coming
<1> QED
  BY <1>1, <1>2 DEF Alone, Budget, Untouched, Writes, Prices, Worth

LEMMA Quietly ==
  ASSUME LoanInv, LoanBudget, NEW w \in Workers, mishaps = 0 => Turn(w), NEW q,
         req' = [req EXCEPT ![w] = q], UNCHANGED <<loan, row, ledger, mishaps>>,
         mishaps = 0 => Alone(q)
  PROVE  LoanBudget'
<1>1. mishaps = 0 => Worth' /\ Alone(q)'
  BY SameBooks DEF LoanBudget
<1> QED BY <1>1, Changed

\* What a request holds, in sums.
LEMMA InSums ==
  ASSUME LoanAssumption, TypeOK, NEW q, Typed(q)
  PROVE  /\ Repaid \in Int /\ Principal \in Nat /\ loan.external \in Nat
         /\ Total(Planned) \in Int /\ Total(Planned) >= 0
         /\ Total(Still(q)) \in Int /\ Total(Still(q)) >= 0
         /\ Coming(q) \in Int /\ Coming(q) >= 0
<1>1. Planned \in SUBSET Seqs /\ Still(q) \in SUBSET Seqs
  BY DEF Planned, Still
<1>2. totalMinor(q.rows) \in Int /\ totalMinor(q.rows) >= 0
  <2>1. CASE q.rows = <<>>
    BY <2>1, TotalOfNone
  <2>2. CASE q.rows # <<>>
    <3>1. q.rows \in Seq(RowType)
      BY DEF Typed
    <3>2. PICK h, t, a : /\ a = totalMinor(q.rows) /\ h = Head(q.rows).amount
                         /\ t = totalMinor(Tail(q.rows))
      OBVIOUS
    <3>3. a \in Int /\ h \in Nat /\ t \in Int /\ t >= 0 /\ a = h + t
      BY <2>2, <3>1, <3>2, TotalOfRows
    <3> QED BY <3>2, <3>3
  <2> QED BY <2>1, <2>2
<1>3. Coming(q) \in Int /\ Coming(q) >= 0
  BY <1>2 DEF Coming
<1>4. Total(Planned) \in Int /\ Total(Planned) >= 0 /\ Total(Still(q)) \in Int /\ Total(Still(q)) >= 0
  BY <1>1, TotalFacts
<1>5. Repaid \in Int /\ Principal \in Nat
  BY RepaidType, Calendar
<1>6. loan.external \in Nat
  BY DEF TypeOK
<1> QED BY <1>3, <1>4, <1>5, <1>6

\* A request that holds no rows and marks nothing.
LEMMA Reading ==
  ASSUME LoanAssumption, TypeOK, NEW r, NEW q, Alone(r), Typed(r),
         r.step \notin {"mark", "withdraw"},
         loan.status = "approved" => ~ (r.op = "disburse" /\ r.step \in {"write", "update"}),
         q.step \notin {"mark", "withdraw", "write"},
         q.step # "idle" /\ q.op # "pass" => q.v = loan.v,
         q.paid = 0 \/ (q.op = "settle" /\ Repaid + q.paid <= Principal),
         q.op \in {"settle", "exit"} => q.rows = <<>>,
         Prices(q)
  PROVE  Alone(q)
<1>1. Still(q) = Planned /\ Still(r) = Planned /\ Coming(q) = 0
  BY DEF Still, Coming
<1>2. /\ Repaid \in Int /\ Principal \in Nat /\ Total(Planned) \in Int /\ Total(Planned) >= 0
      /\ Coming(r) \in Int /\ Coming(r) >= 0
  BY InSums
<1>3. Budget(q)
  BY <1>1, <1>2 DEF Alone, Budget
<1>4. Untouched(q)
  BY DEF Alone, Untouched
<1>5. Writes(q)
  BY DEF Writes
<1> QED BY <1>3, <1>4, <1>5 DEF Alone

\* What is known of the one request before it takes a step.
Here(w) == LoanInv /\ LoanData /\ LoanBudget /\ (mishaps = 0 => Turn(w))

Known(r) ==
  /\ TypeOK /\ Worth /\ Recorded
  /\ Typed(r) /\ Sound(r) /\ Alone(r) /\ r = [f \in Fields |-> r[f]]

LEMMA KnownOne == ASSUME NEW w \in Workers, Here(w), mishaps = 0 PROVE Known(req[w])
<1>1. PICK v \in Workers : Turn(v) /\ Alone(req[v])
  BY DEF Here, LoanBudget
<1>2. req[w] = req[v]
  BY <1>1 DEF Here, Turn
<1>3. PICK r : r = req[v]
  OBVIOUS
<1>4. Alone(r) /\ r = req[w]
  BY <1>1, <1>2, <1>3
<1>5. Known(r)
  BY <1>4 DEF Here, LoanInv, Shape, LoanData, LoanBudget, Known
<1> QED BY <1>4, <1>5

\* A request under way is the one.
LEMMA InTurn ==
  ASSUME LoanInv, LoanData, LoanBudget, NEW w \in Workers, req[w].step # "idle"
  PROVE  Here(w)
<1>1. ASSUME mishaps = 0 PROVE Turn(w)
  <2>1. PICK v \in Workers : Turn(v)
    BY <1>1 DEF LoanBudget
  <2>2. req[w] # Idle
    BY DEF Idle
  <2> QED BY <2>1, <2>2 DEF Turn
<1> QED BY <1>1 DEF Here

LEMMA ServesOne == ASSUME NEW w \in Workers, Serve(w) PROVE req[w].step # "idle"
BY DEF Serve, ReadMonths, PlanDisburse, PlanReschedule, PlanAccelerate, PlanSettle, PlanExit, Plan,
       Refuse, Withdraw, WriteRow, ReadBalance, Update, Stale, PricePass, WriteSlip, RecordEntry,
       MarkDeducted, settleIfCleared

LEMMA Stays ==
  ASSUME LoanAssumption, NEW w \in Workers, Here(w), NEW r, r = req[w], NEW q,
         req' = [req EXCEPT ![w] = q], UNCHANGED <<loan, row, ledger, mishaps>>,
         r.step \notin {"mark", "withdraw"},
         mishaps = 0 => ~ (r.op = "disburse" /\ r.step \in {"write", "update"} /\ loan.status = "approved"),
         q.step \notin {"mark", "withdraw", "write"},
         mishaps = 0 /\ Known(r) =>
           /\ q.step # "idle" /\ q.op # "pass" => q.v = loan.v
           /\ q.paid = 0 \/ (q.op = "settle" /\ Repaid + q.paid <= Principal)
           /\ q.op \in {"settle", "exit"} => q.rows = <<>>
           /\ Prices(q)
  PROVE  LoanBudget'
<1>1. ASSUME mishaps = 0 PROVE Alone(q)
  <2>1. Known(r)
    BY <1>1, KnownOne
  <2>2. TypeOK /\ Alone(r) /\ Typed(r)
    BY <2>1 DEF Known
  <2>3. /\ q.step # "idle" /\ q.op # "pass" => q.v = loan.v
        /\ q.paid = 0 \/ (q.op = "settle" /\ Repaid + q.paid <= Principal)
        /\ q.op \in {"settle", "exit"} => q.rows = <<>>
        /\ Prices(q)
    BY <1>1, <2>1
  <2>4. loan.status = "approved" => ~ (r.op = "disburse" /\ r.step \in {"write", "update"})
    BY <1>1
  <2> QED BY <2>2, <2>3, <2>4, Reading
<1> QED BY <1>1, Quietly DEF Here

LEMMA EndStays ==
  ASSUME LoanAssumption, NEW w \in Workers, Here(w), req' = [req EXCEPT ![w] = Idle],
         UNCHANGED <<loan, row, ledger, mishaps>>, req[w].step \notin {"mark", "withdraw"},
         mishaps = 0 => ~ /\ req[w].op = "disburse" /\ req[w].step \in {"write", "update"}
                          /\ loan.status = "approved"
  PROVE  LoanBudget'
<1>1. PICK q : q = Idle
  OBVIOUS
<1>2. /\ q.step = "idle" /\ q.op = "none" /\ q.paid = 0
  BY <1>1 DEF Idle
<1>3. Prices(q)
  BY <1>2 DEF Prices
<1> QED BY <1>1, <1>2, <1>3, Stays

LEMMA BeginStays ==
  ASSUME LoanAssumption, NEW w \in Workers, Here(w), Start(w), UNCHANGED mishaps
  PROVE  LoanBudget'
<1>1. PICK op, step :
        /\ step \in {"plan", "months", "update"} /\ op # "pass"
        /\ \E from : Begin(w, op, from, step)
  BY DEF Start, StartDisburse, StartCancel, StartReschedule, StartAccelerate, StartSettle, StartExit
<1>2. PICK q : q = [Idle EXCEPT !.step = step, !.op = op, !.v = loan.v, !.was = loan.status]
  OBVIOUS
<1>3. /\ req[w].step = "idle" /\ req' = [req EXCEPT ![w] = q]
      /\ UNCHANGED <<loan, row, ledger, mishaps>>
  BY <1>1, <1>2 DEF Begin
<1>4. q.step = step /\ q.op = op /\ q.v = loan.v /\ q.paid = 0 /\ q.rows = <<>>
  BY <1>2 DEF Idle
<1>5. Prices(q)
  BY <1>1, <1>4 DEF Prices
<1> QED BY <1>1, <1>3, <1>4, <1>5, Stays

LEMMA MonthsStay ==
  ASSUME LoanAssumption, NEW w \in Workers, Here(w), ReadMonths(w)
  PROVE  LoanBudget'
<1>1. PICK r : r = req[w]
  OBVIOUS
<1>2. PICK q : q = [r EXCEPT !.step = "plan", !.closed = Period!frozenPeriods]
  OBVIOUS
<1>3. /\ r.step = "months" /\ req' = [req EXCEPT ![w] = q] /\ UNCHANGED <<loan, row, ledger, mishaps>>
  BY <1>1, <1>2 DEF ReadMonths
<1>4. ASSUME mishaps = 0, Known(r)
      PROVE  /\ q.step = "plan" /\ q.op = r.op /\ q.op # "pass" /\ q.v = r.v /\ q.v = loan.v
             /\ q.paid = r.paid /\ q.rows = r.rows
             /\ q.paid = 0 \/ (q.op = "settle" /\ Repaid + q.paid <= Principal)
             /\ q.op \in {"settle", "exit"} => q.rows = <<>>
             /\ Prices(q)
  <2>1. r = [f \in Fields |-> r[f]]
    BY <1>4 DEF Known
  <2>2. q.step = "plan" /\ q.op = r.op /\ q.v = r.v /\ q.paid = r.paid /\ q.rows = r.rows
    BY <1>2, <2>1 DEF Fields
  <2>3. r.op # "pass"
    BY <1>3, <1>4 DEF Known, Sound
  <2> QED BY <1>3, <1>4, <2>2, <2>3 DEF Known, Alone, Prices
<1>5. q.step = "plan"
  <2>1. r = [f \in Fields |-> r[f]]
    BY <1>1 DEF Here, LoanInv, Shape
  <2> QED BY <1>2, <2>1 DEF Fields
<1> QED BY <1>1, <1>3, <1>4, <1>5, Stays

LEMMA RefusedStays ==
  ASSUME LoanAssumption, NEW w \in Workers, Here(w), Refuse(w)
  PROVE  LoanBudget'
<1>1. /\ req[w].step = "plan" /\ req' = [req EXCEPT ![w] = Idle]
      /\ UNCHANGED <<loan, row, ledger, mishaps>>
  BY DEF Refuse
<1> QED BY <1>1, EndStays

\* Nobody else has moved the loan.
LEMMA StaleStays ==
  ASSUME LoanAssumption, NEW w \in Workers, Here(w), Stale(w)
  PROVE  LoanBudget'
<1>1. /\ req[w].step = "update" /\ loan.v # req[w].v /\ req' = [req EXCEPT ![w] = Idle]
      /\ UNCHANGED <<loan, row, ledger, mishaps>>
  BY DEF Stale, Fresh
<1>2. mishaps = 0 => req[w].op = "pass"
  <2>1. mishaps = 0 => Known(req[w])
    BY KnownOne
  <2> QED BY <1>1, <2>1 DEF Known, Alone
<1> QED BY <1>1, <1>2, EndStays

LEMMA BalanceStays ==
  ASSUME LoanAssumption, NEW w \in Workers, Here(w), ReadBalance(w)
  PROVE  LoanBudget'
<1>1. PICK r : r = req[w]
  OBVIOUS
<1>2. CASE remainingMinor <= 0
  <2>1. /\ req[w].step = "balance" /\ req' = [req EXCEPT ![w] = Idle]
        /\ UNCHANGED <<loan, row, ledger, mishaps>>
    BY <1>2 DEF ReadBalance
  <2> QED BY <2>1, EndStays
<1>3. CASE ~ (remainingMinor <= 0)
  <2>1. PICK q : q = [r EXCEPT !.step = "update"]
    OBVIOUS
  <2>2. r = [f \in Fields |-> r[f]]
    BY <1>1 DEF Here, LoanInv, Shape
  <2>3. /\ r.step = "balance" /\ req' = [req EXCEPT ![w] = q] /\ UNCHANGED <<loan, row, ledger, mishaps>>
    BY <1>1, <1>3, <2>1 DEF ReadBalance
  <2>4. /\ q.step = "update" /\ q.op = r.op /\ q.v = r.v /\ q.paid = r.paid /\ q.rows = r.rows
    BY <2>1, <2>2 DEF Fields
  <2>5. ASSUME Known(r)
        PROVE  /\ q.op # "pass" /\ q.v = loan.v
               /\ q.paid = 0 \/ (q.op = "settle" /\ Repaid + q.paid <= Principal)
               /\ q.op \in {"settle", "exit"} => q.rows = <<>>
               /\ Prices(q)
    <3>1. r.op # "pass"
      BY <2>3, <2>5 DEF Known, Sound
    <3> QED BY <2>3, <2>4, <2>5, <3>1 DEF Known, Alone, Prices
  <2> QED BY <1>1, <2>3, <2>4, <2>5, Stays
<1> QED BY <1>2, <1>3

LEMMA PassBeginStays ==
  ASSUME LoanAssumption, NEW w \in Workers, Here(w), NEW p \in Periods, StartPass(w, p),
         UNCHANGED mishaps
  PROVE  LoanBudget'
<1>1. PICK q : q = [Idle EXCEPT !.step = "price", !.op = "pass", !.period = p, !.no = runNo[p]]
  OBVIOUS
<1>2. /\ req[w].step = "idle" /\ req' = [req EXCEPT ![w] = q]
      /\ UNCHANGED <<loan, row, ledger, mishaps>>
  BY <1>1 DEF StartPass
<1>3. q.step = "price" /\ q.op = "pass" /\ q.paid = 0
  BY <1>1 DEF Idle
<1>4. Prices(q)
  BY <1>3 DEF Prices
<1> QED BY <1>2, <1>3, <1>4, Stays

\* A pass takes what is planned: what is deducted has its entry already.
LEMMA PricesStay ==
  ASSUME LoanAssumption, NEW w \in Workers, Here(w), PricePass(w)
  PROVE  LoanBudget'
<1>1. PICK r : r = req[w]
  OBVIOUS
<1>2. PICK q : q = [r EXCEPT !.step = "slip", !.lines = Due(r.period)]
  OBVIOUS
<1>3. r = [f \in Fields |-> r[f]]
  BY <1>1 DEF Here, LoanInv, Shape
<1>4. /\ r.step = "price" /\ req' = [req EXCEPT ![w] = q] /\ UNCHANGED <<loan, row, ledger, mishaps>>
  BY <1>1, <1>2 DEF PricePass
<1>5. q.step = "slip" /\ q.op = r.op /\ q.paid = r.paid /\ q.period = r.period /\ q.lines = Due(r.period)
  BY <1>2, <1>3 DEF Fields
<1>6. ASSUME Known(r) PROVE q.op = "pass" /\ q.paid = 0 /\ Prices(q)
  <2>1. r.op = "pass" /\ r.paid = 0
    BY <1>4, <1>6 DEF Known, Sound, Alone
  <2>2. ASSUME ledger[r.period] = NoEntry, NEW line \in Due(r.period)
        PROVE  /\ loan.status = "active"
               /\ \E s \in Planned : line = [seq |-> s, amount |-> row[s].amount]
    <3>1. PICK s \in Seqs : /\ line = [seq |-> s, amount |-> row[s].amount]
                            /\ row[s].period = r.period
                            /\ \/ row[s].status = "planned" /\ loan.status = "active"
                               \/ row[s].status = "deducted"
      BY <2>2 DEF Due
    <3>2. row[s].status # "deducted"
      <4>1. ASSUME row[s].status = "deducted" PROVE FALSE
        <5>1. ledger[r.period] = [seq |-> s, amount |-> row[s].amount]
          BY <1>6, <3>1, <4>1 DEF Known, Recorded
        <5>2. s # 0
          BY DEF Seqs
        <5> QED BY <2>2, <5>1, <5>2 DEF NoEntry
      <4> QED BY <4>1
    <3>3. s \in Planned
      BY <3>1, <3>2 DEF Planned
    <3> QED BY <3>1, <3>2, <3>3
  <2>3. Prices(q)
    BY <1>5, <2>2 DEF Prices
  <2> QED BY <1>5, <2>1, <2>3
<1>7. r.op = "pass"
  BY <1>1, <1>4 DEF Here, LoanInv, Sound
<1> QED BY <1>1, <1>4, <1>5, <1>6, <1>7, Stays

\* A pass that turns to its next line.
LEMMA NextLineStays ==
  ASSUME LoanAssumption, NEW w \in Workers, Here(w), NEW r, r = [f \in Fields |-> r[f]],
         r.op = "pass", req[w].op = "pass", req[w].step \notin {"mark", "withdraw"},
         req' = [req EXCEPT ![w] = NextLine(r)], UNCHANGED <<loan, row, ledger, mishaps>>,
         Known(req[w]) => /\ r.paid = 0
                          /\ \/ ledger[r.period] # NoEntry
                             \/ req[w].step = "slip" /\ r = req[w]
  PROVE  LoanBudget'
<1>1. CASE r.lines = {}
  BY <1>1, EndStays DEF NextLine
<1>2. CASE r.lines # {}
  <2>1. PICK q : q = [r EXCEPT !.step = "record"]
    OBVIOUS
  <2>2. req' = [req EXCEPT ![w] = q]
    BY <1>2, <2>1 DEF NextLine
  <2>3. /\ q.step = "record" /\ q.op = "pass" /\ q.period = r.period /\ q.lines = r.lines
        /\ q.paid = r.paid
    BY <2>1 DEF Fields
  <2>4. ASSUME Known(req[w]) PROVE q.paid = 0 /\ Prices(q)
    <3>1. r.paid = 0
      BY <2>4
    <3>2. CASE ledger[r.period] # NoEntry
      BY <2>3, <3>1, <3>2 DEF Prices
    <3>3. CASE req[w].step = "slip" /\ r = req[w]
      <4>1. Prices(r)
        BY <2>4, <3>3 DEF Known, Alone
      <4>2. Prices(q)
        BY <2>3, <3>3, <4>1 DEF Prices
      <4> QED BY <2>3, <3>1, <4>2
    <3> QED BY <2>4, <3>2, <3>3
  <2> QED BY <2>2, <2>3, <2>4, Stays
<1> QED BY <1>1, <1>2

LEMMA SlipStays ==
  ASSUME LoanAssumption, NEW w \in Workers, Here(w), WriteSlip(w)
  PROVE  LoanBudget'
<1>1. PICK r : r = req[w]
  OBVIOUS
<1>2. /\ r = [f \in Fields |-> r[f]] /\ r.step = "slip" /\ r.op = "pass"
      /\ UNCHANGED <<loan, row, ledger, mishaps>>
  BY <1>1 DEF Here, LoanInv, Shape, Sound, WriteSlip
<1>3. req' = [req EXCEPT ![w] = Idle] \/ req' = [req EXCEPT ![w] = NextLine(r)]
  BY <1>1 DEF WriteSlip
<1>4. CASE req' = [req EXCEPT ![w] = Idle]
  BY <1>1, <1>2, <1>4, EndStays
<1>5. CASE req' = [req EXCEPT ![w] = NextLine(r)]
  <2>1. Known(req[w]) => r.paid = 0
    BY <1>1, <1>2 DEF Known, Alone
  <2> QED BY <1>1, <1>2, <1>5, <2>1, NextLineStays
<1> QED BY <1>3, <1>4, <1>5

LEMMA ClearedStays ==
  ASSUME LoanAssumption, NEW w \in Workers, Here(w), settleIfCleared(w)
  PROVE  LoanBudget'
<1>1. PICK r : r = req[w]
  OBVIOUS
<1>2. /\ r = [f \in Fields |-> r[f]] /\ r.step = "cleared" /\ r.op = "pass"
      /\ UNCHANGED <<loan, row, ledger, mishaps>>
  BY <1>1 DEF Here, LoanInv, Shape, Sound, settleIfCleared
<1>3. Known(r) => r.paid = 0 /\ ledger[r.period] # NoEntry
  BY <1>2 DEF Known, Alone, Prices
<1>4. CASE ~ (loan.status = "active" /\ remainingMinor <= 0)
  <2>1. req' = [req EXCEPT ![w] = NextLine(r)]
    BY <1>1, <1>4 DEF settleIfCleared
  <2> QED BY <1>1, <1>2, <1>3, <2>1, NextLineStays
<1>5. CASE loan.status = "active" /\ remainingMinor <= 0
  <2>1. PICK q : q = [r EXCEPT !.step = "update", !.v = loan.v]
    OBVIOUS
  <2>2. req' = [req EXCEPT ![w] = q]
    BY <1>1, <1>5, <2>1 DEF settleIfCleared
  <2>3. q.step = "update" /\ q.op = "pass" /\ q.period = r.period /\ q.paid = r.paid
    BY <1>2, <2>1 DEF Fields
  <2>4. Known(r) => Prices(q)
    BY <1>3, <2>3 DEF Prices
  <2> QED BY <1>1, <1>2, <1>3, <2>2, <2>3, <2>4, Stays
<1> QED BY <1>4, <1>5

-----------------------------------------------------------------------------
\* What a plan must respect to go on: the rows it will write are worth
\* something and cost no more than what it withdraws.
Respects(r, step, cancel, rows) ==
  /\ \A i \in DOMAIN rows : rows[i].amount >= 1
  /\ cancel \subseteq Planned
  /\ r.op \in {"settle", "exit"} => rows = <<>>
  /\ step = "write" => cancel = {}
  /\ loan.status \in {"approved", "active"} =>
       Repaid + Total(Planned \ cancel) + totalMinor(rows) <= Principal
  /\ r.op = "disburse" =>
       /\ \A i, j \in DOMAIN rows : rows[i].period = rows[j].period => i = j
       /\ \A i \in DOMAIN rows, t \in Planned : row[t].period # rows[i].period

LEMMA PlanStays ==
  ASSUME LoanAssumption, NEW w \in Workers, Here(w), NEW step \in {"withdraw", "write"},
         NEW cancel, NEW rows, req[w].step = "plan", req[w].op # "settle",
         Proceed(w, step, cancel, rows),
         mishaps = 0 /\ Known(req[w]) => Respects(req[w], step, cancel, rows)
  PROVE  LoanBudget'
<1>1. PICK r : r = req[w]
  OBVIOUS
<1>2. r = [f \in Fields |-> r[f]]
  BY <1>1 DEF Here, LoanInv, Shape
<1>3. PICK q : q = [r EXCEPT !.step = step, !.cancel = cancel, !.rows = rows, !.closed = {}]
  OBVIOUS
<1>4. req' = [req EXCEPT ![w] = q] /\ UNCHANGED <<loan, row, ledger, mishaps>>
  BY <1>1, <1>3 DEF Proceed
<1>5. /\ q.step = step /\ q.op = r.op /\ q.v = r.v /\ q.paid = r.paid
      /\ q.cancel = cancel /\ q.rows = rows
  BY <1>2, <1>3 DEF Fields
<1>6. ASSUME mishaps = 0 PROVE Alone(q)
  <2>1. Known(r)
    BY <1>1, <1>6, KnownOne
  <2>2. Respects(r, step, cancel, rows)
    BY <1>1, <1>6, <2>1
  <2>3. r.op # "pass" /\ r.step = "plan" /\ r.op # "settle"
    BY <1>1, <2>1 DEF Known, Sound
  <2>4. r.v = loan.v /\ r.paid = 0 /\ Budget(r) /\ Untouched(r)
    BY <2>1, <2>3 DEF Known, Alone
  <2>5. Still(q) = Planned \ cancel /\ Coming(q) = totalMinor(rows)
    BY <1>5, <2>2 DEF Still, Coming, Respects
  <2>6. Budget(q)
    <3>1. CASE loan.status \in {"approved", "active"}
      BY <2>2, <2>4, <2>5, <3>1 DEF Budget, Respects
    <3>2. CASE loan.status \notin {"approved", "active"}
      BY <2>4, <3>2 DEF Budget
    <3> QED BY <3>1, <3>2
  <2>7. Untouched(q)
    BY <2>3, <2>4 DEF Untouched
  <2>8. Writes(q)
    BY <1>5, <2>2 DEF Writes, Respects
  <2>9. Prices(q)
    BY <1>5, <2>3 DEF Prices
  <2>10. q.op \in {"settle", "exit"} => q.rows = <<>>
    BY <1>5, <2>2 DEF Respects
  <2> QED BY <1>5, <2>3, <2>4, <2>6, <2>7, <2>8, <2>9, <2>10 DEF Alone
<1> QED BY <1>4, <1>6, Quietly DEF Here

LEMMA ExitStays ==
  ASSUME LoanAssumption, NEW w \in Workers, Here(w), PlanExit(w)
  PROVE  LoanBudget'
<1>1. PICK last \in Periods :
        /\ Plan(w, "exit")
        /\ Proceed(w, "withdraw", {s \in Planned : Before(last, row[s].period)}, <<>>)
  BY DEF PlanExit
<1>2. PICK r, cancel, rows : /\ r = req[w] /\ rows = <<>>
                             /\ cancel = {s \in Planned : Before(last, row[s].period)}
  OBVIOUS
<1>3. r.step = "plan" /\ r.op = "exit"
  BY <1>1, <1>2 DEF Plan
<1>4. ASSUME mishaps = 0, Known(r) PROVE Respects(r, "withdraw", cancel, rows)
  <2>1. cancel \subseteq Planned /\ DOMAIN rows = {} /\ Planned \in SUBSET Seqs
    BY <1>2 DEF Planned
  <2>2. TypeOK /\ Typed(r) /\ Budget(r)
    BY <1>4 DEF Known, Alone
  <2>3. totalMinor(rows) = 0
    BY <1>2, TotalOfNone
  <2>4. Still(r) = Planned /\ Coming(r) = 0
    BY <1>3 DEF Still, Coming
  <2>5. /\ Total(Planned \ cancel) \in Int /\ Total(Planned) \in Int
        /\ Total(Planned \ cancel) <= Total(Planned)
    BY <2>1, <2>2, TotalFacts
  <2>6. Repaid \in Int /\ Principal \in Nat
    BY <2>2, InSums
  <2>7. loan.status \in {"approved", "active"} =>
          Repaid + Total(Planned \ cancel) + totalMinor(rows) <= Principal
    BY <2>2, <2>3, <2>4, <2>5, <2>6 DEF Budget
  <2> QED BY <1>2, <1>3, <2>1, <2>7 DEF Respects
<1>5. Proceed(w, "withdraw", cancel, rows)
  BY <1>1, <1>2
<1> QED BY <1>2, <1>3, <1>4, <1>5, PlanStays

\* The first schedule is the principal, and nothing is there yet.
LEMMA DisburseStays ==
  ASSUME LoanAssumption, NEW w \in Workers, Here(w), PlanDisburse(w)
  PROVE  LoanBudget'
<1>1. PICK r, rows, cancel : /\ r = req[w] /\ cancel = {}
                             /\ rows = generateSchedule(Principal, Installments, FirstPeriod)
  OBVIOUS
<1>2. Proceed(w, "write", cancel, rows) /\ r.step = "plan" /\ r.op = "disburse"
  BY <1>1 DEF PlanDisburse, Plan
<1>3. PICK base : base = Principal \div Installments
  OBVIOUS
<1>4. /\ Splits(rows, Principal, Installments, FirstPeriod, base)
      /\ totalMinor(rows) = Principal /\ Principal \in Nat /\ Installments \in Nat
  BY <1>1, <1>3, ScheduleRows, ScheduleAddsUp, Calendar DEF LoanAssumption
<1>5. /\ rows = [i \in 1..Installments |-> rows[i]]
      /\ \A i \in 1..Installments : /\ rows[i].amount >= 1
                                    /\ rows[i].period = periodsFrom(FirstPeriod, Installments)[i]
  BY <1>4 DEF Splits
<1>6. ASSUME NEW i \in 1..Installments, NEW j \in 1..Installments, rows[i].period = rows[j].period
      PROVE  i = j
  <2>1. PICK p, k, l : p = FirstPeriod /\ k = rows[i].period /\ l = rows[j].period
    OBVIOUS
  <2>2. p \in Nat \X (1..12)
    BY <2>1 DEF LoanAssumption
  <2>3. /\ k \in Nat \X (1..12) /\ 12 * k[1] + k[2] = 12 * p[1] + p[2] + i - 1
        /\ 12 * l[1] + l[2] = 12 * p[1] + p[2] + j - 1
    <3>1. PICK n : n = Installments
      OBVIOUS
    <3>2. n \in Nat /\ i \in 1..n /\ j \in 1..n
      BY <1>4, <3>1
    <3>3. k = periodsFrom(p, n)[i] /\ l = periodsFrom(p, n)[j]
      BY <1>5, <2>1, <3>1
    <3>4. k \in Nat \X (1..12) /\ 12 * k[1] + k[2] = 12 * p[1] + p[2] + i - 1
      BY <2>2, <3>2, <3>3, MonthsConsecutive
    <3>5. 12 * l[1] + l[2] = 12 * p[1] + p[2] + j - 1
      BY <2>2, <3>2, <3>3, MonthsConsecutive
    <3> QED BY <3>4, <3>5
  <2>4. k[1] \in Nat /\ k[2] \in Nat /\ p[1] \in Nat /\ p[2] \in Nat
    BY <2>2, <2>3
  <2> QED BY <1>6, <2>1, <2>3, <2>4
<1>7. ASSUME mishaps = 0, Known(r) PROVE Respects(r, "write", cancel, rows)
  <2>1. loan.status = "approved"
    BY <1>2, <1>7 DEF Known, Sound, Alone, Current, Accepts
  <2>2. TypeOK /\ Untouched(r)
    BY <1>7 DEF Known, Alone
  <2>3. (\A p \in Periods : ledger[p] = NoEntry) /\ \A s \in Seqs : row[s].status = "none"
    BY <1>2, <2>1, <2>2 DEF Untouched
  <2>4. Planned = {} /\ Planned \ cancel = {}
    BY <2>3 DEF Planned
  <2>5. Repaid = 0
    <3>1. PICK f : f = [p \in Periods |-> ledger[p].amount]
      OBVIOUS
    <3>2. \A p \in Periods : f[p] = 0
      BY <2>3, <3>1 DEF NoEntry
    <3>3. IsFiniteSet(Periods)
      BY Calendar
    <3>4. SumFunctionOnSet(f, Periods) = 0
      BY <3>2, <3>3, SumZero
    <3> QED BY <3>1, <3>4 DEF Repaid
  <2>6. Total({}) = 0
    BY SumEmpty DEF Total
  <2>7. Repaid + Total(Planned \ cancel) + totalMinor(rows) <= Principal
    BY <1>4, <2>4, <2>5, <2>6
  <2>8. DOMAIN rows = 1..Installments
    BY <1>5
  <2>9. /\ \A i \in DOMAIN rows : rows[i].amount >= 1
        /\ \A i, j \in DOMAIN rows : rows[i].period = rows[j].period => i = j
    BY <1>5, <1>6, <2>8
  <2> QED BY <1>1, <1>2, <2>4, <2>7, <2>9 DEF Respects
<1> QED BY <1>1, <1>2, <1>7, PlanStays

\* What is split again is what is withdrawn.
LEMMA RescheduleStays ==
  ASSUME LoanAssumption, NEW w \in Workers, Here(w), PlanReschedule(w)
  PROVE  LoanBudget'
<1>1. PICK S, amount, count, first, rows : Rescheduled(w, S, amount, count, first, rows)
  BY ReschedulePlan DEF Here
<1>2. PICK r, new : r = req[w] /\ new = Renumbered(rows)
  OBVIOUS
<1>3. /\ r.step = "plan" /\ r.op = "reschedule" /\ Proceed(w, "withdraw", S, new)
      /\ S \in SUBSET Planned /\ amount = Total(S) /\ amount \in Nat /\ count \in Nat
  BY <1>1, <1>2 DEF Rescheduled
<1>4. totalMinor(rows) = amount
  BY <1>1, ScheduleAddsUp DEF Rescheduled
<1>5. Alike(new, rows, count)
  <2>1. PICK X : X = Nat
    OBVIOUS
  <2>2. /\ rows = [i \in 1..count |-> rows[i]]
        /\ \A i \in 1..count : rows[i] \in [seq : X, period : Periods, amount : Nat]
    BY <1>1, <2>1 DEF Rescheduled
  <2> QED BY <1>2, <1>3, <2>2, TotalRenumbered
<1>6. \A i \in DOMAIN new : new[i].amount >= 1
  BY <1>1, <1>5 DEF Rescheduled, Alike
<1>7. ASSUME mishaps = 0, Known(r) PROVE Respects(r, "withdraw", S, new)
  <2>1. TypeOK /\ Typed(r) /\ Budget(r)
    BY <1>7 DEF Known, Alone
  <2>2. Planned \in SUBSET Seqs
    BY DEF Planned
  <2>3. /\ Total(Planned) = Total(S) + Total(Planned \ S)
        /\ Total(S) \in Int /\ Total(Planned \ S) \in Int
    <3>1. Planned \ S \in SUBSET Planned
      OBVIOUS
    <3> QED BY <1>3, <2>1, <2>2, <3>1, TotalFacts
  <2>4. Still(r) = Planned /\ Coming(r) = 0
    BY <1>3 DEF Still, Coming
  <2>5. Repaid \in Int /\ Principal \in Nat
    BY <2>1, InSums
  <2>6. loan.status \in {"approved", "active"} =>
          Repaid + Total(Planned \ S) + totalMinor(new) <= Principal
    BY <1>3, <1>4, <1>5, <2>1, <2>3, <2>4, <2>5 DEF Budget, Alike
  <2> QED BY <1>3, <1>6, <2>6 DEF Respects
<1> QED BY <1>2, <1>3, <1>7, PlanStays

\* settleExternally takes what is still owed, and it is still owed.
LEMMA SettleStays ==
  ASSUME LoanAssumption, NEW w \in Workers, Here(w), PlanSettle(w)
  PROVE  LoanBudget'
<1>1. PICK r : r = req[w]
  OBVIOUS
<1>2. PICK q : q = [r EXCEPT !.step = "withdraw", !.paid = remainingMinor]
  OBVIOUS
<1>3. r = [f \in Fields |-> r[f]]
  BY <1>1 DEF Here, LoanInv, Shape
<1>4. /\ r.step = "plan" /\ r.op = "settle" /\ req' = [req EXCEPT ![w] = q]
      /\ UNCHANGED <<loan, row, ledger, mishaps>>
  BY <1>1, <1>2 DEF PlanSettle, Plan
<1>5. /\ q.step = "withdraw" /\ q.op = "settle" /\ q.v = r.v /\ q.paid = remainingMinor
      /\ q.rows = r.rows /\ q.cancel = r.cancel
  BY <1>2, <1>3, <1>4 DEF Fields
<1>6. ASSUME mishaps = 0 PROVE Alone(q)
  <2>1. Known(r)
    BY <1>1, <1>6, KnownOne
  <2>2. TypeOK /\ Typed(r) /\ Budget(r) /\ Untouched(r) /\ r.v = loan.v /\ r.rows = <<>>
    BY <1>4, <2>1 DEF Known, Alone
  <2>3. loan.status = "active"
    BY <1>4, <2>1, <2>2 DEF Known, Sound, Current, Accepts
  <2>4. Repaid \in Int /\ Principal \in Nat
    BY <2>2, InSums
  <2>5. Repaid + q.paid <= Principal
    BY <1>5, <2>4 DEF remainingMinor
  <2>6. Coming(q) = 0 /\ Coming(r) = 0 /\ Still(r) = Planned
    BY <1>4, <1>5, <2>2, TotalOfNone DEF Coming, Still
  <2>7. /\ Total(Still(q)) \in Int /\ Total(Planned) \in Int
        /\ Total(Still(q)) <= Total(Planned)
    <3>1. Planned \in SUBSET Seqs /\ Still(q) \in SUBSET Planned
      BY DEF Planned, Still
    <3> QED BY <2>2, <3>1, TotalFacts
  <2>8. Budget(q)
    BY <2>2, <2>3, <2>4, <2>6, <2>7 DEF Budget
  <2>9. Untouched(q)
    BY <2>3 DEF Untouched
  <2>10. Writes(q)
    <3>1. DOMAIN q.rows = {}
      BY <1>5, <2>2
    <3> QED BY <1>5, <3>1 DEF Writes
  <2>11. Prices(q)
    BY <1>5 DEF Prices
  <2> QED BY <1>5, <2>2, <2>5, <2>8, <2>9, <2>10, <2>11 DEF Alone
<1> QED BY <1>1, <1>4, <1>6, Quietly DEF Here

\* What an acceleration leaves is worth something.
LEMMA AccelerateWorth ==
  ASSUME NEW R, NEW later, Instalments(R, later), NEW target \in R,
         NEW extra \in Nat, CanAbsorb(later, extra), NEW r, r = accelerateTail(target, later, extra)
  PROVE  \A i \in DOMAIN r : r[i].amount >= 1
<1>1. /\ Payable(R) /\ later \in Seq(R) /\ target.amount \in Nat
      /\ DOMAIN later = 1..Len(later) /\ Len(later) \in Nat /\ extra >= 1
  BY InstalmentFacts DEF Instalments, Payable, CanAbsorb
<1>2. MovesExactly(target, later, extra)
  BY AccelerateMoves
<1>3. PICK kept, t : kept = Kept(later, extra) /\ t = [target EXCEPT !.amount = target.amount + extra]
  OBVIOUS
<1>4. r = <<t>> \o kept
  BY <1>2, <1>3 DEF MovesExactly
<1>5. PICK k : k = Keepers(later, extra)
  OBVIOUS
<1>6. k \in Nat /\ k <= Len(later)
  BY <1>1, <1>5, KeepersFirst
<1>7. kept = [i \in 1..k |-> [later[i] EXCEPT !.amount = Keeping(later, extra, i)]]
  BY <1>3, <1>5 DEF Kept, Keepers
<1>8. ASSUME NEW i \in 1..k PROVE kept[i] \in R /\ kept[i].amount >= 1
  <2>1. i \in 1..Len(later)
    BY <1>1, <1>6
  <2>2. extra < Owed(later, i)
    BY <1>5, <2>1, KeepersFirst
  <2>3. Keeping(later, extra, i) \in Int /\ Keeping(later, extra, i) > 0
    BY <2>1, <2>2, KeepingOwed
  <2>4. later[i] \in R
    BY <2>1, InstalmentFacts
  <2>5. PICK m \in Nat : m = Keeping(later, extra, i) /\ m >= 1
    BY <2>3
  <2>6. kept[i] = [later[i] EXCEPT !.amount = m]
    BY <1>7, <2>5
  <2> QED BY <1>1, <2>4, <2>5, <2>6 DEF Payable
<1>9. t \in R /\ t.amount >= 1
  <2>1. PICK m \in Nat : m = target.amount + extra /\ m >= 1
    BY <1>1
  <2>2. t = [target EXCEPT !.amount = m]
    BY <1>3, <2>1
  <2> QED BY <1>1, <2>1, <2>2 DEF Payable
<1>10. kept \in Seq(R) /\ Len(kept) = k
  <2>1. kept \in [1..k -> R]
    BY <1>7, <1>8
  <2> QED BY <1>6, <2>1
<1>11. Leads(r, t, kept)
  BY <1>4, <1>10, Prepended
<1>12. ASSUME NEW i \in 1..(k + 1) PROVE r[i].amount >= 1
  <2>1. CASE i = 1
    BY <1>9, <1>11, <2>1 DEF Leads
  <2>2. CASE i # 1
    <3>1. PICK j \in 1..k : i = j + 1
      <4>1. i - 1 \in 1..k /\ i = (i - 1) + 1
        BY <1>6, <2>2
      <4> QED BY <4>1
    <3>2. r[i] = kept[j]
      BY <1>10, <1>11, <3>1 DEF Leads
    <3> QED BY <1>8, <3>2
  <2> QED BY <2>1, <2>2
<1>13. DOMAIN r = 1..(k + 1)
  BY <1>10, <1>11 DEF Leads
<1> QED BY <1>12, <1>13

\* Instalments in the order of plannedForLoan are worth what they are worth.
LEMMA TotalInOrder ==
  ASSUME LoanAssumption, TypeOK, NEW later \in SUBSET Seqs, NEW k \in Nat,
         NEW order \in [1..k -> later], InOrder(order),
         NEW list \in Seq(RowType), DOMAIN list = 1..k,
         \A i \in 1..k : list[i].amount = row[order[i]].amount
  PROVE  totalMinor(list) \in Int /\ totalMinor(list) <= Total(later)
<1>1. PICK f, a : f = [s \in Seqs |-> row[s].amount] /\ a = Amounts(list)
  OBVIOUS
<1>2. \A s \in Seqs : f[s] = row[s].amount /\ f[s] \in Int
  BY <1>1 DEF TypeOK
<1>3. \A i \in 1..k : a[i] = f[order[i]] /\ a[i] \in Int /\ order[i] \in later /\ order[i] \in Seqs
  BY <1>1, <1>2 DEF Amounts
<1>4. PICK T : T = [m \in 0..k |-> {order[i] : i \in 1..m}]
  OBVIOUS
<1>5. ASSUME NEW m \in 0..k PROVE T[m] \in SUBSET later /\ IsFiniteSet(T[m])
  <2>1. T[m] = {order[i] : i \in 1..m} /\ \A i \in 1..m : i \in 1..k
    BY <1>4
  <2>2. T[m] \in SUBSET later
    BY <1>3, <2>1
  <2>3. IsFiniteSet(Seqs) /\ T[m] \in SUBSET Seqs
    BY <2>2, Calendar
  <2> QED BY <2>2, <2>3, FS_Subset
<1> DEFINE Good == {m \in Nat : m <= k => SumFunctionOnSet(a, 1..m) = SumFunctionOnSet(f, T[m])}
<1>6. 0 \in Good
  <2>1. 1..0 = {} /\ T[0] = {}
    BY <1>4
  <2> QED BY <2>1, SumEmpty
<1>7. ASSUME NEW m \in Good PROVE m + 1 \in Good
  <2> SUFFICES ASSUME m + 1 <= k
               PROVE  SumFunctionOnSet(a, 1..(m + 1)) = SumFunctionOnSet(f, T[m + 1])
    OBVIOUS
  <2>1. m \in 0..k /\ m + 1 \in 1..k /\ m \in Nat
    OBVIOUS
  <2>2. SumFunctionOnSet(a, 1..m) = SumFunctionOnSet(f, T[m])
    BY <2>1
  <2>3. 1..(m + 1) = (1..m) \cup {m + 1} /\ m + 1 \notin 1..m
    BY <2>1, IntervalGrows
  <2>4. PICK x : x = order[m + 1]
    OBVIOUS
  <2>5. T[m + 1] = T[m] \cup {x}
    <3>1. m + 1 \in 0..k
      BY <2>1
    <3>2. T[m] = {order[i] : i \in 1..m} /\ T[m + 1] = {order[i] : i \in 1..(m + 1)}
      BY <1>4, <2>1, <3>1
    <3> QED BY <2>3, <2>4, <3>2
  <2>6. x \notin T[m]
    <3> SUFFICES ASSUME NEW i \in 1..m, x = order[i] PROVE FALSE
      BY <1>4, <2>1
    <3>1. i \in 1..k /\ i < m + 1
      BY <2>1
    <3>2. order[i] < order[m + 1]
      BY <2>1, <3>1 DEF InOrder
    <3>3. order[i] \in Nat /\ order[m + 1] \in Nat
      BY <1>3, <2>1, <3>1, Calendar
    <3> QED BY <2>4, <3>2, <3>3
  <2>7. SumFunctionOnSet(a, (1..m) \cup {m + 1}) = a[m + 1] + SumFunctionOnSet(a, 1..m)
    <3>1. PICK n : n = m + 1
      OBVIOUS
    <3>2. (\A i \in 1..m : a[i] \in Int) /\ n \notin 1..m /\ a[n] \in Int
      BY <1>3, <2>1, <2>3, <3>1
    <3>4. IsFiniteSet(1..m)
      BY <2>1, FS_Interval
    <3>3. SumFunctionOnSet(a, (1..m) \cup {n}) = a[n] + SumFunctionOnSet(a, 1..m)
      BY <3>2, <3>4, SumAdd
    <3> QED BY <3>1, <3>3
  <2>8. SumFunctionOnSet(f, T[m] \cup {x}) = f[x] + SumFunctionOnSet(f, T[m])
    <3>1. IsFiniteSet(T[m]) /\ (\A s \in T[m] : f[s] \in Int) /\ f[x] \in Int
      BY <1>2, <1>3, <1>5, <2>1, <2>4
    <3> QED BY <2>6, <3>1, SumAdd
  <2>9. a[m + 1] = f[x]
    BY <1>3, <2>1, <2>4
  <2> QED BY <2>2, <2>3, <2>5, <2>7, <2>8, <2>9
<1>8. Good = Nat
  <2>1. Good \in SUBSET Nat
    OBVIOUS
  <2> HIDE DEF Good
  <2> QED BY <1>6, <1>7, <2>1, NaturalInduction
<1>9. SumFunctionOnSet(a, 1..k) = SumFunctionOnSet(f, T[k])
  BY <1>8
<1>10. totalMinor(list) = SumFunctionOnSet(a, 1..k)
  <2>1. \A x \in RowType : x.amount \in Int
    BY DEF RowType
  <2> QED BY <1>1, <2>1, TotalIsSum
<1>11. k \in 0..k
  OBVIOUS
<1>12. Total(T[k]) \in Int /\ Total(T[k]) <= Total(later)
  BY <1>5, <1>11, TotalFacts
<1>13. Total(T[k]) = SumFunctionOnSet(f, T[k])
  BY <1>1 DEF Total
<1> QED BY <1>9, <1>10, <1>12, <1>13

\* The periods of the model are months.
LEMMA PeriodsInCalendar ==
  ASSUME LoanAssumption, NEW p \in Periods
  PROVE  p \in Nat \X (1..12)
<1>1. Horizon \in Nat /\ FirstPeriod \in Nat \X (1..12)
  BY Calendar DEF LoanAssumption
<1>2. DOMAIN PeriodSeq = 1..Horizon
  BY <1>1, PeriodsAreMonths DEF PeriodSeq, Months
<1>3. PICK i \in 1..Horizon : p = PeriodSeq[i]
  BY <1>2 DEF Periods, ToSet
<1>4. PICK n, first : n = Horizon /\ first = FirstPeriod
  OBVIOUS
<1>5. periodsFrom(first, n)[i] \in Nat \X (1..12)
  BY <1>1, <1>4, MonthsConsecutive
<1> QED BY <1>3, <1>4, <1>5 DEF PeriodSeq

\* The extra comes out of the rows that are withdrawn.
LEMMA AccelerateStays ==
  ASSUME LoanAssumption, NEW w \in Workers, Here(w), PlanAccelerate(w)
  PROVE  LoanBudget'
<1>1. PICK s, later, order, extra, target, list, rows :
        Accelerated(w, s, later, order, extra, target, list, rows)
  BY AcceleratePlan
<1>2. PICK r, new, gone, k : /\ r = req[w] /\ new = Renumbered(rows) /\ gone = {s} \cup later
                             /\ k = Cardinality(later)
  OBVIOUS
<1>3. /\ r.step = "plan" /\ r.op = "accelerate" /\ Proceed(w, "withdraw", gone, new)
      /\ CanAbsorb(list, extra) /\ Fits(rows) /\ InOrder(order)
      /\ rows = accelerateTail(target, list, extra)
  BY <1>1, <1>2 DEF Accelerated
<1>4. /\ k \in Nat /\ order \in [1..k -> later] /\ later \in SUBSET Planned
      /\ s \in Planned /\ Planned \in SUBSET Seqs /\ extra \in Nat
  BY <1>1, <1>2, AcceleratedRows DEF Here
<1>5. /\ target \in RowType /\ target.amount = row[s].amount
      /\ list \in Seq(RowType) /\ DOMAIN list = 1..k
      /\ \A i \in 1..k : order[i] \in Planned /\ list[i].amount = row[order[i]].amount
  BY <1>1, <1>2, AcceleratedRows DEF Here
<1>6. ASSUME mishaps = 0, Known(r) PROVE Respects(r, "withdraw", gone, new)
  <2>1. TypeOK /\ Typed(r) /\ Budget(r) /\ Worth
    BY <1>6 DEF Known, Alone
  <2>2. \A i \in 1..k : list[i].amount >= 1
    BY <1>4, <1>5, <2>1 DEF Worth, Planned
  <2>3. Instalments(RowType, list)
    BY <1>5, <2>2, RowsPayable DEF Instalments
  <2>4. MovesExactly(target, list, extra) /\ \A i \in DOMAIN rows : rows[i].amount >= 1
    <3>1. MovesExactly(target, list, extra)
      BY <1>3, <1>4, <1>5, <2>3, AccelerateMoves
    <3>2. \A i \in DOMAIN rows : rows[i].amount >= 1
      BY <1>3, <1>4, <1>5, <2>3, AccelerateWorth
    <3> QED BY <3>1, <3>2
  <2>5. totalMinor(rows) = totalMinor(list) + row[s].amount
    BY <1>3, <1>5, <2>4 DEF MovesExactly
  <2>6. totalMinor(list) \in Int /\ totalMinor(list) <= Total(later)
    <3>1. later \in SUBSET Seqs
      BY <1>4
    <3> QED BY <1>3, <1>4, <1>5, <2>1, <3>1, TotalInOrder
  <2>7. PICK n : n = Len(rows)
    OBVIOUS
  <2>8. /\ n \in Nat /\ rows = [i \in 1..n |-> rows[i]]
        /\ \A i \in 1..n : rows[i] \in [seq : Seqs, period : Periods, amount : Nat]
    <3>1. rows \in Seq(RowType)
      BY <1>3, <1>4, <1>5, RowsPayable, AccelerateRows
    <3>2. n \in Nat /\ rows = [i \in 1..n |-> rows[i]] /\ \A i \in 1..n : rows[i] \in RowType
      BY <2>7, <3>1
    <3> QED BY <3>2 DEF RowType
  <2>9. Alike(new, rows, n)
    BY <1>2, <2>8, TotalRenumbered
  <2>10. \A i \in DOMAIN new : new[i].amount >= 1
    BY <2>4, <2>8, <2>9 DEF Alike
  <2>11. s \notin later /\ row[s].amount \in Nat
    <3>1. ~ Before(row[s].period, row[s].period)
      <4>1. row[s].period \in Nat \X (1..12)
        <5>1. row[s].period \in Periods
          BY <1>4, <2>1 DEF TypeOK
        <5> QED BY <5>1, PeriodsInCalendar
      <4> QED BY <4>1 DEF Before
    <3> QED BY <1>1, <1>4, <2>1, <3>1 DEF Accelerated, TypeOK
  <2>12. /\ Total(later) \in Int /\ Total(gone) = row[s].amount + Total(later)
         /\ Total(gone) \in Int /\ Total(Planned \ gone) \in Int
         /\ Total(Planned) = Total(gone) + Total(Planned \ gone)
    <3>1. gone \in SUBSET Planned /\ gone \ {s} = later /\ s \in gone /\ gone \in SUBSET Seqs
      BY <1>2, <1>4, <2>11
    <3>2. Total(gone) = row[s].amount + Total(gone \ {s})
      BY <2>1, <3>1, TotalFacts
    <3>3. /\ Total(gone) \in Int /\ Total(Planned) = Total(gone) + Total(Planned \ gone)
      BY <1>4, <2>1, <3>1, TotalFacts
    <3>4. Total(Planned \ gone) \in Int
      BY <1>4, <2>1, TotalFacts
    <3>5. Total(later) \in Int
      BY <1>4, <2>1, TotalFacts
    <3> QED BY <3>1, <3>2, <3>3, <3>4, <3>5
  <2>13. Still(r) = Planned /\ Coming(r) = 0
    BY <1>3 DEF Still, Coming
  <2>14. Repaid \in Int /\ Principal \in Nat
    BY <2>1, InSums
  <2>15. loan.status \in {"approved", "active"} =>
           Repaid + Total(Planned \ gone) + totalMinor(new) <= Principal
    <3> SUFFICES ASSUME loan.status \in {"approved", "active"}
                 PROVE  Repaid + Total(Planned \ gone) + totalMinor(new) <= Principal
      OBVIOUS
    <3>1. Repaid + Total(Planned) <= Principal
      BY <2>1, <2>12, <2>13, <2>14 DEF Budget
    <3>2. totalMinor(new) = totalMinor(list) + row[s].amount
      BY <2>5, <2>9 DEF Alike
    <3> QED BY <2>6, <2>11, <2>12, <2>14, <3>1, <3>2
  <2>16. gone \subseteq Planned
    BY <1>2, <1>4
  <2> QED BY <1>3, <2>10, <2>15, <2>16 DEF Respects
<1> QED BY <1>2, <1>3, <1>6, PlanStays

-----------------------------------------------------------------------------
\* Steps that write.
LEMMA Wrote ==
  ASSUME NEW w \in Workers, Here(w), NEW r, r = req[w], NEW q, req' = [req EXCEPT ![w] = q],
         UNCHANGED mishaps, mishaps = 0 /\ Known(r) => Worth' /\ Alone(q)'
  PROVE  LoanBudget'
<1>1. mishaps = 0 => Worth' /\ Alone(q)'
  BY KnownOne
<1> QED BY <1>1, Changed DEF Here

LEMMA WithdrawStays ==
  ASSUME LoanAssumption, NEW w \in Workers, Here(w), LoanData', Withdraw(w)
  PROVE  LoanBudget'
<1>1. PICK r : r = req[w]
  OBVIOUS
<1>2. PICK gone : gone = IF r.op = "settle" THEN Planned ELSE r.cancel
  OBVIOUS
<1>3. PICK q : q = [r EXCEPT !.step = AfterWithdraw(r), !.cancel = {}]
  OBVIOUS
<1>4. r = [f \in Fields |-> r[f]]
  BY <1>1 DEF Here, LoanInv, Shape
<1>5. /\ r.step = "withdraw" /\ req' = [req EXCEPT ![w] = q]
      /\ row' = [s \in Seqs |-> IF s \in gone THEN [row[s] EXCEPT !.status = "cancelled"] ELSE row[s]]
      /\ UNCHANGED <<loan, ledger, mishaps>>
  BY <1>1, <1>2, <1>3 DEF Withdraw
<1>6. /\ q.step = AfterWithdraw(r) /\ q.op = r.op /\ q.v = r.v /\ q.paid = r.paid
      /\ q.rows = r.rows
  BY <1>3, <1>4 DEF Fields
<1>7. ASSUME mishaps = 0, Known(r) PROVE Worth' /\ Alone(q)'
  <2>1. /\ TypeOK /\ TypeOK' /\ Typed(r) /\ Alone(r) /\ Worth /\ r.op # "pass"
        /\ Planned \in SUBSET Seqs
    BY <1>5, <1>7 DEF Known, Sound, Here, LoanData, Planned
  <2>2. gone \in SUBSET Planned
    BY <1>2, <1>5, <2>1 DEF Alone, Writes
  <2>3. ASSUME NEW s \in Seqs
        PROVE  /\ row'[s].amount = row[s].amount /\ row'[s].period = row[s].period
               /\ row'[s].status = IF s \in gone THEN "cancelled" ELSE row[s].status
    BY <1>5, <2>1 DEF TypeOK
  <2>4. Planned' = Planned \ gone
    BY <2>2, <2>3 DEF Planned
  <2>5. \A s \in gone : row[s].status = "planned"
    BY <2>2 DEF Planned
  <2>6. Worth'
    BY <2>1, <2>3, <2>5 DEF Worth
  <2>7. q.step \in {"update", "balance", "write"}
    BY <1>6 DEF AfterWithdraw
  <2>8. q.step = "write" => r.op \in {"reschedule", "accelerate"}
    <3>1. r.op = "exit" => r.was \in {"approved", "active"}
      BY <1>5, <1>7 DEF Known, Sound, Accepts
    <3>2. r.op \in {"settle", "exit", "reschedule", "accelerate"}
      BY <1>5, <2>1 DEF Typed
    <3> QED BY <1>6, <3>1, <3>2 DEF AfterWithdraw
  <2>9. Repaid' = Repaid
    BY <1>5 DEF Repaid
  <2>10. Still(q)' = Planned'
    BY <2>7 DEF Still
  <2>11. Total(Still(q))' = Total(Planned \ gone)
    <3>1. PICK S : S = Planned \ gone
      OBVIOUS
    <3>2. S \in SUBSET Seqs /\ \A s \in S : row'[s].amount = row[s].amount
      BY <2>1, <2>3, <3>1
    <3>3. SumFunctionOnSet([s \in Seqs |-> row'[s].amount], S) = Total(S)
      BY <2>1, <3>2, TotalKept
    <3> QED BY <2>4, <2>10, <3>1, <3>3 DEF Total
  <2>12. /\ Total(Planned \ gone) \in Int /\ Total(Still(r)) \in Int
         /\ Total(Planned \ gone) <= Total(Still(r))
    <3>1. Still(r) = Planned \ r.cancel
      BY <1>5 DEF Still
    <3>2. Still(r) \in SUBSET Seqs /\ Planned \ gone \in SUBSET Still(r)
      BY <1>2, <2>1, <3>1
    <3> QED BY <2>1, <3>2, TotalFacts
  <2>13. /\ Coming(q)' \in Int /\ Coming(r) \in Int /\ Coming(q)' <= Coming(r)
    <3>1. Coming(r) = totalMinor(r.rows) /\ Coming(r) \in Int /\ Coming(r) >= 0
      BY <1>5, <2>1, InSums DEF Coming
    <3>2. Coming(q)' = IF q.step = "write" THEN totalMinor(r.rows) ELSE 0
      BY <1>6, <2>7 DEF Coming
    <3> QED BY <3>1, <3>2
  <2>14. Repaid \in Int /\ Principal \in Nat
    BY <2>1, InSums
  <2>15. Budget(q)'
    <3>1. CASE loan.status \in {"approved", "active"}
      <4>1. loan.external = 0 /\ Repaid + Total(Still(r)) + Coming(r) <= Principal
        BY <2>1, <3>1 DEF Alone, Budget
      <4>2. Repaid + Total(Planned \ gone) + Coming(q)' <= Principal
        BY <2>12, <2>13, <2>14, <4>1
      <4> QED BY <1>5, <2>9, <2>11, <3>1, <4>1, <4>2 DEF Budget
    <3>2. CASE loan.status \notin {"approved", "active"}
      BY <1>5, <2>1, <2>9, <3>2 DEF Alone, Budget
    <3> QED BY <3>1, <3>2
  <2>16. Untouched(q)'
    <3> SUFFICES ASSUME loan.status = "approved"
                 PROVE  (\A p \in Periods : ledger'[p] = NoEntry) /\ \A s \in Seqs : row'[s].status = "none"
      BY <1>5 DEF Untouched
    <3>1. (\A p \in Periods : ledger[p] = NoEntry) /\ \A s \in Seqs : row[s].status = "none"
      BY <1>5, <2>1 DEF Alone, Untouched
    <3> QED BY <1>5, <2>3, <2>5, <3>1
  <2>17. Writes(q)'
    <3>1. \A i \in DOMAIN q.rows : q.rows[i].amount >= 1
      BY <1>5, <1>6, <2>1 DEF Alone, Writes
    <3> QED BY <1>6, <2>7, <2>8, <3>1 DEF Writes
  <2>18. Prices(q)'
    BY <1>6, <2>1 DEF Prices
  <2>19. /\ q.v = loan'.v /\ q.op # "pass"
         /\ q.paid = 0 \/ (q.op = "settle" /\ Repaid' + q.paid <= Principal)
         /\ q.op \in {"settle", "exit"} => q.rows = <<>>
    BY <1>5, <1>6, <2>1, <2>9 DEF Alone
  <2> QED BY <2>6, <2>15, <2>16, <2>17, <2>18, <2>19 DEF Alone
<1> QED BY <1>1, <1>5, <1>7, Wrote

\* The rows that are left to write after the first.
Rest(r, q) ==
  /\ Head(r.rows) = r.rows[1] /\ Head(r.rows) \in RowType /\ Head(r.rows).amount >= 1
  /\ q.step \in {"write", "update"}
  /\ Coming(q) \in Int /\ Coming(r) \in Int /\ Coming(q) + Head(r.rows).amount <= Coming(r)
  /\ q.step = "write" =>
       \A j \in DOMAIN q.rows : j + 1 \in DOMAIN r.rows /\ q.rows[j] = r.rows[j + 1]
  /\ 1 \in DOMAIN r.rows

LEMMA RestOfRows ==
  ASSUME LoanAssumption, TypeOK, NEW r, Known(r), r.step = "write",
         NEW q, q.op = r.op, q.rows = Tail(r.rows),
         q.step = IF Len(r.rows) = 1 THEN "update" ELSE "write"
  PROVE  Rest(r, q)
<1>1. r.rows \in Seq(RowType) /\ r.rows # <<>>
  BY DEF Known, Typed
<1>2. PICK n : n = Len(r.rows)
  OBVIOUS
<1>3. n \in Nat /\ n >= 1 /\ DOMAIN r.rows = 1..n /\ \A i \in 1..n : r.rows[i] \in RowType
  BY <1>1, <1>2
<1>4. Head(r.rows) = r.rows[1] /\ Head(r.rows) \in RowType /\ 1 \in DOMAIN r.rows
  BY <1>1, <1>3
<1>5. Head(r.rows).amount >= 1
  BY <1>4 DEF Known, Alone, Writes
<1>6. \A j \in DOMAIN q.rows : j + 1 \in DOMAIN r.rows /\ q.rows[j] = r.rows[j + 1]
  BY <1>1, <1>2, <1>3
<1>7. PICK a, b, h : a = totalMinor(r.rows) /\ b = totalMinor(Tail(r.rows)) /\ h = Head(r.rows).amount
  OBVIOUS
<1>8. a \in Int /\ b \in Int /\ b >= 0 /\ h \in Nat /\ a = h + b
  BY <1>1, <1>7, TotalOfRows
<1>9. Coming(r) = a /\ Coming(q) = IF q.step = "write" THEN b ELSE 0
  BY <1>7 DEF Coming
<1>10. Coming(q) \in Int /\ Coming(r) \in Int /\ Coming(q) + h <= Coming(r)
  BY <1>8, <1>9
<1> QED BY <1>4, <1>5, <1>6, <1>7, <1>10 DEF Rest

\* A row of its own month for the first schedule; for the others at worst a
\* duplicate key.
LEMMA WriteRowStays ==
  ASSUME LoanAssumption, NEW w \in Workers, Here(w), LoanData', WriteRow(w)
  PROVE  LoanBudget'
<1>1. PICK r, h : r = req[w] /\ h = Head(r.rows)
  OBVIOUS
<1>2. PICK q : q = [r EXCEPT !.rows = Tail(r.rows),
                             !.step = IF Len(r.rows) = 1 THEN "update" ELSE r.step]
  OBVIOUS
<1>3. r = [f \in Fields |-> r[f]]
  BY <1>1 DEF Here, LoanInv, Shape
<1>4. r.step = "write" /\ UNCHANGED <<loan, ledger, mishaps>>
  BY <1>1 DEF WriteRow
<1>5. /\ q.step = IF Len(r.rows) = 1 THEN "update" ELSE "write"
      /\ q.op = r.op /\ q.v = r.v /\ q.paid = r.paid /\ q.rows = Tail(r.rows)
  BY <1>2, <1>3, <1>4 DEF Fields
<1>6. PICK missing, clash \in BOOLEAN :
        /\ missing <=> row[h.seq].status = "none"
        /\ clash <=> \E t \in Planned : row[t].period = h.period
  OBVIOUS
<1>7. CASE missing /\ clash
  <2>1. req' = [req EXCEPT ![w] = Idle] /\ UNCHANGED row
    BY <1>1, <1>6, <1>7 DEF WriteRow
  <2>2. ASSUME mishaps = 0 PROVE r.op # "disburse"
    <3>1. Known(r)
      BY <1>1, <2>2, KnownOne
    <3>2. TypeOK /\ Writes(r)
      BY <3>1 DEF Known, Alone
    <3>3. PICK z : /\ z.op = r.op /\ z.rows = Tail(r.rows)
                   /\ z.step = IF Len(r.rows) = 1 THEN "update" ELSE "write"
      BY <1>5
    <3>4. h = r.rows[1] /\ 1 \in DOMAIN r.rows
      BY <1>1, <1>4, <3>1, <3>2, <3>3, RestOfRows DEF Rest
    <3> QED BY <1>4, <1>6, <1>7, <3>2, <3>4 DEF Writes
  <2> QED BY <1>1, <1>4, <2>1, <2>2, EndStays
<1>8. CASE ~ (missing /\ clash)
  <2>1. /\ row' = IF missing THEN [row EXCEPT ![h.seq] = [status |-> "planned",
                                      period |-> h.period, amount |-> h.amount]]
                   ELSE row
        /\ req' = [req EXCEPT ![w] = q]
    BY <1>1, <1>2, <1>6, <1>8 DEF WriteRow
  <2>2. ASSUME mishaps = 0, Known(r) PROVE Worth' /\ Alone(q)'
    <3>1. /\ TypeOK /\ TypeOK' /\ Typed(r) /\ Alone(r) /\ Worth /\ r.op # "pass"
          /\ Planned \in SUBSET Seqs
      BY <1>4, <2>2 DEF Known, Sound, Here, LoanData, Planned
    <3>2. /\ h = r.rows[1] /\ h \in RowType /\ h.amount >= 1
          /\ q.step \in {"write", "update"}
          /\ Coming(q) \in Int /\ Coming(r) \in Int /\ Coming(q) + h.amount <= Coming(r)
          /\ q.step = "write" =>
               \A j \in DOMAIN q.rows : j + 1 \in DOMAIN r.rows /\ q.rows[j] = r.rows[j + 1]
          /\ 1 \in DOMAIN r.rows
      <4>1. Rest(r, q)
        BY <1>4, <1>5, <2>2, <3>1, RestOfRows
      <4> QED BY <1>1, <4>1 DEF Rest
    <3>3. h.seq \in Seqs /\ h.amount \in Nat
      BY <3>2 DEF RowType
    <3>4. ASSUME NEW s \in Seqs
          PROVE  IF missing /\ s = h.seq
                   THEN row'[s].status = "planned" /\ row'[s].period = h.period /\ row'[s].amount = h.amount
                   ELSE row'[s] = row[s]
      BY <2>1, <3>1, <3>3 DEF TypeOK
    <3>5. Worth'
      BY <3>1, <3>2, <3>4 DEF Worth
    <3>6. Planned' = IF missing THEN Planned \cup {h.seq} ELSE Planned
      BY <1>6, <3>3, <3>4 DEF Planned
    <3>7. missing => h.seq \notin Planned
      BY <1>6 DEF Planned
    <3>8. Still(q)' = Planned' /\ Still(r) = Planned /\ Coming(q)' = Coming(q) /\ Repaid' = Repaid
      BY <1>4, <3>2 DEF Still, Coming, Repaid
    <3>9. /\ Total(Planned) \in Int /\ Total(Planned)' \in Int
          /\ Total(Planned)' <= Total(Planned) + h.amount
      <4>1. PICK S : S = Planned
        OBVIOUS
      <4>2. S \in SUBSET Seqs /\ Total(S) \in Int
        BY <3>1, <4>1, TotalFacts
      <4>3. CASE missing
        <5>1. PICK x \in Seqs : x = h.seq /\ x \notin S
          BY <3>3, <3>7, <4>1, <4>3
        <5>2. \A s \in S : row'[s].amount = row[s].amount
          BY <3>4, <4>2, <5>1
        <5>3. SumFunctionOnSet([s \in Seqs |-> row'[s].amount], S \cup {x}) = row'[x].amount + Total(S)
          BY <3>1, <4>2, <5>1, <5>2, TotalMore
        <5>4. row'[x].amount = h.amount /\ Planned' = S \cup {x}
          BY <3>4, <3>6, <4>1, <4>3, <5>1
        <5>5. Total(Planned)' = h.amount + Total(S)
          BY <5>3, <5>4 DEF Total
        <5> QED BY <3>3, <4>1, <4>2, <5>5
      <4>4. CASE ~ missing
        <5>1. \A s \in S : row'[s].amount = row[s].amount
          BY <3>4, <4>2, <4>4
        <5>2. SumFunctionOnSet([s \in Seqs |-> row'[s].amount], S) = Total(S)
          BY <3>1, <4>2, <5>1, TotalKept
        <5>3. Total(Planned)' = Total(S)
          BY <3>6, <4>1, <4>4, <5>2 DEF Total
        <5> QED BY <3>3, <4>1, <4>2, <5>3
      <4> QED BY <4>3, <4>4
    <3>10. Repaid \in Int /\ Principal \in Nat
      BY <3>1, InSums
    <3>11. Budget(q)'
      <4>1. CASE loan.status \in {"approved", "active"}
        <5>1. loan.external = 0 /\ Repaid + Total(Planned) + Coming(r) <= Principal
          BY <3>1, <3>8, <4>1 DEF Alone, Budget
        <5>2. Repaid + Total(Planned)' + Coming(q) <= Principal
          BY <3>2, <3>3, <3>9, <3>10, <5>1
        <5>3. Total(Still(q))' = Total(Planned)'
          BY <3>8 DEF Total
        <5> QED BY <1>4, <3>8, <4>1, <5>1, <5>2, <5>3 DEF Budget
      <4>2. CASE loan.status \notin {"approved", "active"}
        BY <1>4, <3>1, <3>8, <4>2 DEF Alone, Budget
      <4> QED BY <4>1, <4>2
    <3>12. Untouched(q)'
      <4> SUFFICES ASSUME loan.status = "approved"
                   PROVE  (\A p \in Periods : ledger'[p] = NoEntry) /\ q.op = "disburse"
        BY <1>4, <3>2 DEF Untouched
      <4>1. \A p \in Periods : ledger[p] = NoEntry
        BY <3>1 DEF Alone, Untouched
      <4>2. r.was = "approved" /\ r.was \in Accepts(r.op)
        BY <1>4, <2>2, <3>1 DEF Known, Sound, Alone, Current
      <4>3. r.op \in {"disburse", "reschedule", "accelerate"}
        BY <1>4, <3>1 DEF Typed
      <4>4. r.op = "disburse"
        BY <4>2, <4>3 DEF Accepts
      <4> QED BY <1>4, <1>5, <4>1, <4>4
    <3>13. Writes(q)'
      <4>1. CASE q.step = "update"
        BY <4>1 DEF Writes
      <4>2. CASE q.step = "write"
        <5>1. \A j \in DOMAIN q.rows : q.rows[j].amount >= 1
          BY <1>4, <3>1, <3>2, <4>2 DEF Alone, Writes
        <5>2. ASSUME r.op = "disburse"
              PROVE  /\ \A i, j \in DOMAIN q.rows : q.rows[i].period = q.rows[j].period => i = j
                     /\ \A i \in DOMAIN q.rows, t \in Planned' : row'[t].period # q.rows[i].period
          <6>1. /\ \A i, j \in DOMAIN r.rows : r.rows[i].period = r.rows[j].period => i = j
                /\ \A i \in DOMAIN r.rows, t \in Planned : row[t].period # r.rows[i].period
            BY <1>4, <3>1, <5>2 DEF Alone, Writes
          <6>2. \A j \in DOMAIN q.rows : j \in Nat /\ j >= 1
            <7>1. q.rows \in Seq(RowType)
              BY <1>5, <3>1, <3>2 DEF Typed
            <7> QED BY <7>1
          <6>3. \A i, j \in DOMAIN q.rows : q.rows[i].period = q.rows[j].period => i = j
            <7> SUFFICES ASSUME NEW i \in DOMAIN q.rows, NEW j \in DOMAIN q.rows,
                                q.rows[i].period = q.rows[j].period
                         PROVE  i = j
              OBVIOUS
            <7>1. i + 1 = j + 1
              BY <3>2, <4>2, <6>1
            <7> QED BY <6>2, <7>1
          <6>4. ASSUME NEW i \in DOMAIN q.rows, NEW t \in Planned'
                PROVE  row'[t].period # q.rows[i].period
            <7>1. /\ i + 1 \in DOMAIN r.rows /\ q.rows[i] = r.rows[i + 1] /\ i + 1 # 1
                  /\ t \in Seqs
              BY <3>1, <3>2, <3>3, <3>6, <4>2, <6>2
            <7>2. CASE missing /\ t = h.seq
              <8>1. row'[t].period = r.rows[1].period
                BY <3>2, <3>4, <7>1, <7>2
              <8> QED BY <3>2, <6>1, <7>1, <8>1
            <7>3. CASE ~ (missing /\ t = h.seq)
              <8>1. row'[t] = row[t] /\ t \in Planned
                BY <3>4, <3>6, <7>1, <7>3
              <8> QED BY <6>1, <7>1, <8>1
            <7> QED BY <7>2, <7>3
          <6> QED BY <6>3, <6>4
        <5> QED BY <1>5, <4>2, <5>1, <5>2 DEF Writes
      <4> QED BY <3>2, <4>1, <4>2
    <3>14. Prices(q)'
      BY <1>5, <3>1 DEF Prices
    <3>15. /\ q.v = loan'.v /\ q.op # "pass"
           /\ q.paid = 0 \/ (q.op = "settle" /\ Repaid' + q.paid <= Principal)
           /\ q.op \notin {"settle", "exit"}
      BY <1>4, <1>5, <3>1, <3>8 DEF Alone, Typed
    <3> QED BY <3>5, <3>11, <3>12, <3>13, <3>14, <3>15 DEF Alone
  <2> QED BY <1>1, <1>4, <2>1, <2>2, Wrote
<1> QED BY <1>7, <1>8

\* The status a request writes is the one its reading allows.
LEMMA UpdateStays ==
  ASSUME LoanAssumption, NEW w \in Workers, Here(w), LoanData', Update(w)
  PROVE  LoanBudget'
<1>1. PICK r : r = req[w]
  OBVIOUS
<1>2. PICK q : q = IF r.op = "pass" THEN NextLine(r) ELSE Idle
  OBVIOUS
<1>3. r = [f \in Fields |-> r[f]]
  BY <1>1 DEF Here, LoanInv, Shape
<1>4. /\ r.step = "update" /\ loan.v = r.v /\ req' = [req EXCEPT ![w] = q]
      /\ loan' = [status |-> Outcome(r), v |-> loan.v + 1, external |-> loan.external + r.paid]
      /\ UNCHANGED <<row, ledger, mishaps>>
  BY <1>1, <1>2 DEF Update, Fresh
<1>5. /\ q.step \in {"idle", "record"}
      /\ q.op \in {"none", "pass"} /\ (q.step # "idle" => q.op = "pass" /\ r.op = "pass")
      /\ q.paid = 0 \/ q.paid = r.paid
      /\ q.step = "record" => q.period = r.period
  <2>1. CASE q = Idle
    BY <2>1 DEF Idle
  <2>2. CASE r.op = "pass" /\ q = [r EXCEPT !.step = "record"]
    BY <1>3, <2>2 DEF Fields
  <2> QED BY <1>2, <2>1, <2>2 DEF NextLine
<1>6. ASSUME mishaps = 0, Known(r) PROVE Worth' /\ Alone(q)'
  <2>1. /\ TypeOK /\ TypeOK' /\ Typed(r) /\ Alone(r) /\ Worth /\ Sound(r)
    BY <1>6 DEF Known, Here, LoanData
  <2>2. Worth'
    BY <1>4, <2>1 DEF Worth
  <2>3. Repaid' = Repaid /\ Planned' = Planned
    BY <1>4 DEF Repaid, Planned
  <2>4. Still(q)' = Planned /\ Still(r) = Planned /\ Coming(q)' = 0 /\ Coming(r) = 0
    BY <1>4, <1>5, <2>3 DEF Still, Coming
  <2>5. Total(Still(q))' = Total(Planned)
    BY <1>4, <2>4 DEF Total
  <2>6. /\ Repaid \in Int /\ Principal \in Nat /\ Total(Planned) \in Int /\ Total(Planned) >= 0
        /\ r.paid \in Nat
    BY <2>1, InSums DEF Typed
  <2>7. loan'.status = Outcome(r) /\ loan'.external = loan.external + r.paid
    BY <1>4
  <2>8. r.op # "settle" => r.paid = 0
    BY <2>1 DEF Alone
  <2>9. CASE r.op = "pass"
    <3>1. loan.status = "active" /\ loan'.status = "settled"
      BY <1>4, <2>1, <2>7, <2>9 DEF Sound, Current, Outcome
    <3>2. loan.external = 0 /\ Repaid + Total(Planned) <= Principal
      BY <2>1, <2>4, <2>6, <3>1 DEF Alone, Budget
    <3>3. Budget(q)'
      BY <2>3, <2>6, <2>7, <2>8, <2>9, <3>1, <3>2 DEF Budget
    <3>4. ledger[r.period] # NoEntry
      BY <1>4, <2>1, <2>9 DEF Alone, Prices
    <3>5. Prices(q)'
      BY <1>4, <1>5, <3>4 DEF Prices
    <3>6. Untouched(q)' /\ Writes(q)'
      BY <1>5, <3>1 DEF Untouched, Writes
    <3> QED BY <1>5, <2>2, <2>8, <2>9, <3>3, <3>5, <3>6 DEF Alone
  <2>10. CASE r.op # "pass"
    <3>1. q = Idle /\ q.step = "idle" /\ q.op = "none" /\ q.paid = 0
      BY <1>2, <2>10 DEF Idle
    <3>2. loan.status = r.was /\ r.was \in Accepts(r.op)
      BY <1>4, <2>1, <2>10 DEF Sound, Current
    <3>3. loan.status \in {"approved", "active"}
      BY <3>2 DEF Accepts
    <3>4. loan.external = 0 /\ Repaid + Total(Planned) <= Principal
      BY <2>1, <2>4, <2>6, <3>3 DEF Alone, Budget
    <3>5. loan'.status # "approved"
      BY <2>7, <3>2 DEF Accepts, Outcome
    <3>6. loan'.status = "active" => r.op # "settle"
      BY <2>7 DEF Outcome
    <3>7. Repaid + r.paid <= Principal
      BY <2>1, <2>6, <3>4 DEF Alone
    <3>8. Budget(q)'
      BY <2>3, <2>4, <2>5, <2>6, <2>7, <2>8, <3>4, <3>5, <3>6, <3>7 DEF Budget
    <3>9. Untouched(q)' /\ Writes(q)' /\ Prices(q)'
      BY <3>1, <3>5 DEF Untouched, Writes, Prices
    <3> QED BY <2>2, <3>1, <3>8, <3>9 DEF Alone
  <2> QED BY <2>9, <2>10
<1> QED BY <1>1, <1>4, <1>6, Wrote

\* The instalment a ledger row takes is still planned.
LEMMA EntryStays ==
  ASSUME LoanAssumption, NEW w \in Workers, Here(w), LoanData', RecordEntry(w)
  PROVE  LoanBudget'
<1>1. PICK r : r = req[w]
  OBVIOUS
<1>2. /\ r = [f \in Fields |-> r[f]] /\ r.step = "record" /\ r.op = "pass" /\ r.period \in Periods
      /\ UNCHANGED <<loan, row, mishaps>>
  BY <1>1 DEF Here, LoanInv, Shape, Sound, RecordEntry
<1>3. PICK line \in r.lines :
        LET inserted == ledger[r.period] = NoEntry
            rest == [r EXCEPT !.lines = r.lines \ {line}]
        IN  /\ ledger' = IF inserted THEN [ledger EXCEPT ![r.period] = line] ELSE ledger
            /\ req' = [req EXCEPT ![w] =
                         IF inserted THEN [rest EXCEPT !.step = "mark", !.entry = line]
                         ELSE NextLine(rest)]
  BY <1>1 DEF RecordEntry
<1>4. PICK rest : rest = [r EXCEPT !.lines = r.lines \ {line}]
  OBVIOUS
<1>5. /\ rest = [f \in Fields |-> rest[f]] /\ rest.op = "pass" /\ rest.paid = r.paid
      /\ rest.period = r.period
  BY <1>2, <1>4 DEF Fields
<1>6. CASE ledger[r.period] # NoEntry
  <2>1. ledger' = ledger /\ req' = [req EXCEPT ![w] = NextLine(rest)]
    BY <1>3, <1>4, <1>6
  <2>2. Known(r) => rest.paid = 0
    BY <1>2, <1>5 DEF Known, Alone
  <2> QED BY <1>1, <1>2, <1>5, <1>6, <2>1, <2>2, NextLineStays
<1>7. CASE ledger[r.period] = NoEntry
  <2>1. PICK q : q = [rest EXCEPT !.step = "mark", !.entry = line]
    OBVIOUS
  <2>2. ledger' = [ledger EXCEPT ![r.period] = line] /\ req' = [req EXCEPT ![w] = q]
    BY <1>3, <1>4, <1>7, <2>1
  <2>3. /\ q.step = "mark" /\ q.entry = line /\ q.op = "pass" /\ q.period = r.period
        /\ q.paid = r.paid
    BY <1>5, <2>1 DEF Fields
  <2>4. ASSUME mishaps = 0, Known(r) PROVE Worth' /\ Alone(q)'
    <3>1. /\ TypeOK /\ TypeOK' /\ Typed(r) /\ Alone(r) /\ Worth
          /\ Planned \in SUBSET Seqs
      BY <2>4 DEF Known, Here, LoanData, Planned
    <3>2. PICK s \in Planned : line = [seq |-> s, amount |-> row[s].amount] /\ loan.status = "active"
      BY <1>2, <1>7, <3>1 DEF Alone, Prices
    <3>3. row[s].amount \in Nat /\ s \in Seqs
      BY <3>1, <3>2 DEF TypeOK
    <3>4. Worth'
      BY <1>2, <3>1 DEF Worth
    <3>5. Repaid' = Repaid + row[s].amount
      <4>1. PICK f, g : /\ f = [p \in Periods |-> ledger[p].amount]
                        /\ g = [p \in Periods |-> ledger'[p].amount]
        OBVIOUS
      <4>2. \A p \in Periods : f[p] \in Int /\ g[p] \in Int
        BY <3>1, <4>1 DEF TypeOK, Entries
      <4>3. \A p \in Periods : p # r.period => g[p] = f[p]
        BY <2>2, <3>1, <4>1 DEF TypeOK
      <4>4. f[r.period] = 0
        BY <1>2, <1>7, <4>1 DEF NoEntry
      <4>5. g[r.period] = row[s].amount
        <5>1. ledger'[r.period] = line
          BY <1>2, <2>2, <3>1 DEF TypeOK
        <5> QED BY <1>2, <3>2, <4>1, <5>1
      <4>6. SumFunctionOnSet(g, Periods) = SumFunctionOnSet(f, Periods) + g[r.period] - f[r.period]
        <5>1. IsFiniteSet(Periods)
          BY Calendar
        <5>2. PICK x \in Periods : x = r.period
          BY <1>2
        <5>3. \A p \in Periods : p # x => g[p] = f[p]
          BY <4>3, <5>2
        <5>4. SumFunctionOnSet(g, Periods) = SumFunctionOnSet(f, Periods) + g[x] - f[x]
          BY <4>2, <5>1, <5>3, SumChange
        <5> QED BY <5>2, <5>4
      <4>7. SumFunctionOnSet(f, Periods) \in Int
        BY <4>2, Calendar, SumType
      <4> QED BY <3>3, <4>1, <4>4, <4>5, <4>6, <4>7 DEF Repaid
    <3>6. Still(q)' = Planned \ {s} /\ Still(r) = Planned /\ Coming(q)' = 0 /\ Coming(r) = 0
      BY <1>2, <2>3, <3>2 DEF Still, Coming, Planned
    <3>7. Total(Still(q))' = Total(Planned \ {s})
      BY <1>2, <3>6 DEF Total
    <3>8. /\ Total(Planned) = row[s].amount + Total(Planned \ {s})
          /\ Total(Planned \ {s}) \in Int
      <4>1. Planned \ {s} \in SUBSET Planned
        OBVIOUS
      <4> QED BY <3>1, <3>2, <4>1, TotalFacts
    <3>9. Repaid \in Int /\ Principal \in Nat
      BY <3>1, InSums
    <3>10. Budget(q)'
      <4>1. loan.external = 0 /\ Repaid + Total(Planned) <= Principal
        BY <3>1, <3>2, <3>3, <3>6, <3>8, <3>9 DEF Alone, Budget
      <4>2. Repaid' + Total(Planned \ {s}) <= Principal
        BY <3>3, <3>5, <3>8, <3>9, <4>1
      <4>3. Repaid' \in Int
        BY <3>3, <3>5, <3>9
      <4> QED BY <1>2, <3>2, <3>6, <3>7, <3>8, <4>1, <4>2, <4>3 DEF Budget
    <3>11. Untouched(q)' /\ Writes(q)'
      BY <1>2, <2>3, <3>2 DEF Untouched, Writes
    <3>12. Prices(q)'
      <4>1. ledger'[r.period] = line
        BY <1>2, <2>2, <3>1 DEF TypeOK
      <4>2. line # NoEntry
        BY <3>2, <3>3 DEF NoEntry, Seqs
      <4> QED BY <2>3, <4>1, <4>2 DEF Prices
    <3>13. q.paid = 0
      BY <1>2, <2>3, <3>1 DEF Alone
    <3> QED BY <2>3, <3>4, <3>10, <3>11, <3>12, <3>13 DEF Alone
  <2> QED BY <1>1, <1>2, <2>2, <2>4, Wrote
<1> QED BY <1>6, <1>7

\* What is marked was already left out.
LEMMA MarkStays ==
  ASSUME LoanAssumption, NEW w \in Workers, Here(w), LoanData', MarkDeducted(w)
  PROVE  LoanBudget'
<1>1. PICK r : r = req[w]
  OBVIOUS
<1>2. PICK x : x = r.entry.seq
  OBVIOUS
<1>3. PICK q : q = [r EXCEPT !.step = "cleared", !.entry = NoEntry]
  OBVIOUS
<1>4. /\ r = [f \in Fields |-> r[f]] /\ r.step = "mark" /\ r.op = "pass"
      /\ row' = [row EXCEPT ![x].status = IF @ = "planned" THEN "deducted" ELSE @]
      /\ req' = [req EXCEPT ![w] = q] /\ UNCHANGED <<loan, ledger, mishaps>>
  BY <1>1, <1>2, <1>3 DEF Here, LoanInv, Shape, Sound, MarkDeducted
<1>5. /\ q.step = "cleared" /\ q.op = "pass" /\ q.period = r.period /\ q.paid = r.paid
  BY <1>3, <1>4 DEF Fields
<1>6. ASSUME mishaps = 0, Known(r) PROVE Worth' /\ Alone(q)'
  <2>1. /\ TypeOK /\ TypeOK' /\ Typed(r) /\ Alone(r) /\ Worth /\ Planned \in SUBSET Seqs
    BY <1>6 DEF Known, Here, LoanData, Planned
  <2>2. ASSUME NEW s \in Seqs
        PROVE  /\ row'[s].amount = row[s].amount
               /\ row'[s].status = IF s = x /\ row[s].status = "planned" THEN "deducted" ELSE row[s].status
    BY <1>4, <2>1 DEF TypeOK
  <2>3. Worth'
    BY <2>1, <2>2 DEF Worth
  <2>4. Repaid' = Repaid
    BY <1>4 DEF Repaid
  <2>5. Planned' = Planned \ {x}
    BY <2>2 DEF Planned
  <2>6. Still(q)' = Planned \ {x} /\ Still(r) = Planned \ {x} /\ Coming(q)' = 0 /\ Coming(r) = 0
    BY <1>2, <1>4, <1>5, <2>5 DEF Still, Coming
  <2>7. Total(Still(q))' = Total(Still(r))
    <3>1. PICK S : S = Planned \ {x}
      OBVIOUS
    <3>2. S \in SUBSET Seqs /\ \A s \in S : row'[s].amount = row[s].amount
      BY <2>1, <2>2, <3>1
    <3>3. SumFunctionOnSet([s \in Seqs |-> row'[s].amount], S) = Total(S)
      BY <2>1, <3>2, TotalKept
    <3> QED BY <2>6, <3>1, <3>3 DEF Total
  <2>8. Budget(q)'
    BY <1>4, <2>1, <2>4, <2>6, <2>7 DEF Alone, Budget
  <2>9. Untouched(q)'
    <3> SUFFICES ASSUME loan.status = "approved"
                 PROVE  (\A p \in Periods : ledger'[p] = NoEntry) /\ \A s \in Seqs : row'[s].status = "none"
      BY <1>4 DEF Untouched
    <3>1. (\A p \in Periods : ledger[p] = NoEntry) /\ \A s \in Seqs : row[s].status = "none"
      BY <1>4, <2>1 DEF Alone, Untouched
    <3> QED BY <1>4, <2>2, <3>1
  <2>10. Writes(q)' /\ Prices(q)'
    BY <1>4, <1>5, <2>1 DEF Alone, Writes, Prices
  <2>11. q.paid = 0
    BY <1>4, <1>5, <2>1 DEF Alone
  <2> QED BY <1>5, <2>3, <2>8, <2>9, <2>10, <2>11 DEF Alone
<1> QED BY <1>1, <1>4, <1>6, Wrote

LEMMA MishapStays ==
  ASSUME LoanBudget, mishaps' = mishaps + 1
  PROVE  LoanBudget'
BY DEF LoanBudget

LEMMA RunsStay ==
  ASSUME LoanBudget, UNCHANGED <<loan, row, ledger, req, mishaps>>
  PROVE  LoanBudget'
<1>1. ASSUME mishaps = 0 PROVE Worth' /\ \E w \in Workers : Turn(w)' /\ Alone(req[w])'
  <2>1. PICK w \in Workers : Turn(w) /\ Alone(req[w])
    BY <1>1 DEF LoanBudget
  <2>2. PICK r : r = req[w]
    OBVIOUS
  <2>3. Alone(r)' /\ r = req'[w]
    BY <2>1, <2>2, SameBooks
  <2>4. Alone(req[w])'
    BY <2>3 DEF Alone, Budget, Still, Coming, Untouched, Writes, Prices
  <2> QED BY <1>1, <2>1, <2>4 DEF Turn, LoanBudget, Worth
<1> QED BY <1>1 DEF LoanBudget

LEMMA BudgetInitially == ASSUME Workers # {} PROVE Init => LoanBudget
<1> SUFFICES ASSUME Init PROVE LoanBudget
  OBVIOUS
<1>1. /\ loan = [status |-> "approved", v |-> 0, external |-> 0]
      /\ row = [s \in Seqs |-> NoRow] /\ ledger = [p \in Periods |-> NoEntry]
      /\ req = [w \in Workers |-> Idle] /\ mishaps = 0
  BY DEF Init
<1>2. \A s \in Seqs : row[s].status = "none"
  BY <1>1 DEF NoRow
<1>3. Worth
  BY <1>2 DEF Worth
<1>4. PICK q : q = Idle
  OBVIOUS
<1>5. q.step = "idle" /\ q.op = "none" /\ q.paid = 0 /\ q.rows = <<>>
  BY <1>4 DEF Idle
<1>6. Planned = {} /\ Still(q) = {} /\ Coming(q) = 0
  BY <1>2, <1>5 DEF Planned, Still, Coming
<1>7. Total(Still(q)) = 0
  BY <1>6, SumEmpty DEF Total
<1>8. Repaid = 0
  <2>1. PICK f : f = [p \in Periods |-> ledger[p].amount]
    OBVIOUS
  <2>2. \A p \in Periods : f[p] = 0
    BY <1>1, <2>1 DEF NoEntry
  <2>3. IsFiniteSet(Periods)
    BY Calendar, LoanAssumption
  <2>4. SumFunctionOnSet(f, Periods) = 0
    BY <2>2, <2>3, SumZero
  <2> QED BY <2>1, <2>4 DEF Repaid
<1>9. Budget(q)
  <2>1. Principal \in Nat
    BY Calendar, LoanAssumption
  <2> QED BY <1>1, <1>6, <1>7, <1>8, <2>1 DEF Budget
<1>10. Untouched(q) /\ Writes(q) /\ Prices(q)
  BY <1>1, <1>2, <1>5 DEF Untouched, Writes, Prices
<1>11. Alone(q)
  BY <1>5, <1>9, <1>10 DEF Alone
<1> QED BY <1>1, <1>3, <1>4, <1>11 DEF LoanBudget, Turn

\* A request begins with nobody else being served, or that is a mishap.
LEMMA BeginsInTurn ==
  ASSUME LoanInv, LoanData, LoanBudget, NEW w \in Workers,
         Start(w) \/ \E p \in Periods : StartPass(w, p)
  PROVE  (Here(w) /\ UNCHANGED mishaps) \/ mishaps' = mishaps + 1
<1>1. Beside(w)
  BY DEF Start, StartDisburse, StartCancel, StartReschedule, StartAccelerate, StartSettle, StartExit,
         Begin, StartPass
<1> QED BY <1>1 DEF Beside, Turn, Here

LEMMA BudgetNext ==
  LoanAssumption /\ LoanInv /\ LoanData /\ LoanBudget /\ [Next]_vars => LoanBudget'
<1> SUFFICES ASSUME LoanAssumption, LoanInv, LoanData, LoanBudget, [Next]_vars PROVE LoanBudget'
  OBVIOUS
<1>0. LoanData'
  BY DataNext
<1>1. ASSUME NEW w \in Workers, Serve(w) PROVE LoanBudget'
  <2>0. Here(w)
    BY <1>1, ServesOne, InTurn
  <2>1. CASE ReadMonths(w)
    BY <2>0, <2>1, MonthsStay
  <2>2. CASE PlanDisburse(w)
    BY <2>0, <2>2, DisburseStays
  <2>3. CASE PlanReschedule(w)
    BY <2>0, <2>3, RescheduleStays
  <2>4. CASE PlanAccelerate(w)
    BY <2>0, <2>4, AccelerateStays
  <2>5. CASE PlanSettle(w)
    BY <2>0, <2>5, SettleStays
  <2>6. CASE PlanExit(w)
    BY <2>0, <2>6, ExitStays
  <2>7. CASE Refuse(w)
    BY <2>0, <2>7, RefusedStays
  <2>8. CASE Withdraw(w)
    BY <2>0, <1>0, <2>8, WithdrawStays
  <2>9. CASE WriteRow(w)
    BY <2>0, <1>0, <2>9, WriteRowStays
  <2>10. CASE ReadBalance(w)
    BY <2>0, <2>10, BalanceStays
  <2>11. CASE Update(w)
    BY <2>0, <1>0, <2>11, UpdateStays
  <2>12. CASE Stale(w)
    BY <2>0, <2>12, StaleStays
  <2>13. CASE PricePass(w)
    BY <2>0, <2>13, PricesStay
  <2>14. CASE WriteSlip(w)
    BY <2>0, <2>14, SlipStays
  <2>15. CASE RecordEntry(w)
    BY <2>0, <1>0, <2>15, EntryStays
  <2>16. CASE MarkDeducted(w)
    BY <2>0, <1>0, <2>16, MarkStays
  <2>17. CASE settleIfCleared(w)
    BY <2>0, <2>17, ClearedStays
  <2> QED BY <1>1, <2>1, <2>2, <2>3, <2>4, <2>5, <2>6, <2>7, <2>8, <2>9, <2>10, <2>11, <2>12,
         <2>13, <2>14, <2>15, <2>16, <2>17 DEF Serve
<1>2. ASSUME NEW p \in Periods, OpenRun(p) \/ MoveRun(p) PROVE LoanBudget'
  <2>1. UNCHANGED <<loan, row, ledger, req, mishaps>>
    BY <1>2 DEF OpenRun, MoveRun
  <2> QED BY <2>1, RunsStay
<1>3. ASSUME NEW w \in Workers, Start(w) PROVE LoanBudget'
  BY <1>3, BeginStays, BeginsInTurn, MishapStays
<1>4. ASSUME NEW w \in Workers, Crash(w) PROVE LoanBudget'
  BY <1>4, MishapStays DEF Crash
<1>5. ASSUME NEW w \in Workers, NEW p \in Periods, StartPass(w, p) PROVE LoanBudget'
  BY <1>5, PassBeginStays, BeginsInTurn, MishapStays
<1>6. CASE UNCHANGED vars
  BY <1>6, RunsStay DEF vars
<1> QED BY <1>1, <1>2, <1>3, <1>4, <1>5, <1>6 DEF Next

-----------------------------------------------------------------------------
\* The ledger row of a month is marked on its instalment, or about to be.
Marked(q) ==
  \A p \in Periods : ledger[p] # NoEntry =>
    \E s \in Seqs :
      /\ ledger[p] = [seq |-> s, amount |-> row[s].amount] /\ row[s].period = p
      /\ \/ row[s].status = "deducted"
         \/ row[s].status = "planned" /\ q.step = "mark" /\ q.entry.seq = s

\* A pass has seen the ledger row of its month.
Sees(q) ==
  q.op = "pass" /\ q.step = "slip" /\ ledger[q.period] # NoEntry =>
    ledger[q.period] \in q.lines

Taking(q, x) ==
  /\ q.op = "pass" /\ q.step = "record" /\ ledger[q.period] = NoEntry
  /\ x.period = q.period /\ x.lines = q.lines

\* The only line of a slip is in the ledger, or about to be.
Covered(q) ==
  \A x \in slips : OneLine(x) => \A line \in x.lines :
    /\ line # NoEntry
    /\ line = ledger[x.period] \/ Taking(q, x)

Booked(q) == Marked(q) /\ Sees(q) /\ Covered(q)

OneSlipARun == \A x, y \in slips : x.period = y.period /\ x.no = y.no => x = y

SlipBook ==
  OneSlipARun /\ (mishaps = 0 => \E w \in Workers : Turn(w) /\ Booked(req[w]))

Meanwhile(w) == Here(w) /\ SlipBook

-----------------------------------------------------------------------------
LEMMA BookChanged ==
  ASSUME NEW w \in Workers, Meanwhile(w), NEW q, req' = [req EXCEPT ![w] = q],
         OneSlipARun', UNCHANGED mishaps, mishaps = 0 => Booked(q)'
  PROVE  SlipBook'
<1>1. req'[w] = q /\ \A v \in Workers \ {w} : req'[v] = req[v]
  BY DEF Meanwhile, Here, LoanInv, Shape
<1>2. ASSUME mishaps = 0 PROVE Turn(w)' /\ Booked(req[w])'
  <2>1. Turn(w)'
    BY <1>1, <1>2 DEF Turn, Meanwhile, Here
  <2>2. Booked(q)'
    BY <1>2
  <2>3. Booked(req[w])'
    BY <1>1, <2>2 DEF Booked, Marked, Sees, Covered, Taking
  <2> QED BY <2>1, <2>3
<1> QED BY <1>2 DEF SlipBook

LEMMA BookedOne == ASSUME NEW w \in Workers, Meanwhile(w), mishaps = 0 PROVE Booked(req[w])
<1>1. PICK v \in Workers : Turn(v) /\ Booked(req[v])
  BY DEF Meanwhile, SlipBook
<1>2. req[w] = req[v]
  BY <1>1 DEF Meanwhile, Here, Turn
<1> QED BY <1>1, <1>2

\* A step that neither reads nor writes what a payslip takes.
LEMMA BookStays ==
  ASSUME NEW w \in Workers, Meanwhile(w), NEW q, req' = [req EXCEPT ![w] = q],
         UNCHANGED <<ledger, slips, mishaps>>,
         req[w].step \notin {"mark", "record"}, q.step # "slip",
         mishaps = 0 => \A s \in Seqs : row[s].status = "deducted" => row'[s] = row[s]
  PROVE  SlipBook'
<1>1. PICK r : r = req[w]
  OBVIOUS
<1>2. OneSlipARun'
  BY DEF Meanwhile, SlipBook, OneSlipARun
<1>3. ASSUME mishaps = 0 PROVE Booked(q)'
  <2>1. Booked(r)
    BY <1>1, <1>3, BookedOne
  <2>2. r.step \notin {"mark", "record"}
    BY <1>1
  <2>3. Marked(q)'
    <3> SUFFICES ASSUME NEW p \in Periods, ledger[p] # NoEntry
                 PROVE  \E s \in Seqs : /\ ledger[p] = [seq |-> s, amount |-> row'[s].amount]
                                        /\ row'[s].period = p
                                        /\ row'[s].status = "deducted"
      BY DEF Marked
    <3>1. PICK s \in Seqs : /\ ledger[p] = [seq |-> s, amount |-> row[s].amount]
                            /\ row[s].period = p /\ row[s].status = "deducted"
      BY <2>1, <2>2 DEF Booked, Marked
    <3> QED BY <1>3, <3>1
  <2>4. Sees(q)'
    BY DEF Sees
  <2>5. Covered(q)'
    BY <2>1, <2>2 DEF Booked, Covered, Taking
  <2> QED BY <2>3, <2>4, <2>5 DEF Booked
<1> QED BY <1>2, <1>3, BookChanged

\* A pass prices what is deducted as well as what is planned.
LEMMA PriceBooks ==
  ASSUME NEW w \in Workers, Meanwhile(w), PricePass(w)
  PROVE  SlipBook'
<1>1. PICK r : r = req[w]
  OBVIOUS
<1>2. PICK q : q = [r EXCEPT !.step = "slip", !.lines = Due(r.period)]
  OBVIOUS
<1>3. r = [f \in Fields |-> r[f]] /\ Sound(r)
  BY <1>1 DEF Meanwhile, Here, LoanInv, Shape
<1>4. /\ r.step = "price" /\ req' = [req EXCEPT ![w] = q]
      /\ UNCHANGED <<loan, row, ledger, slips, mishaps>>
  BY <1>1, <1>2 DEF PricePass
<1>5. q.step = "slip" /\ q.period = r.period /\ q.lines = Due(r.period) /\ r.period \in Periods
  BY <1>2, <1>3, <1>4 DEF Fields, Sound
<1>6. OneSlipARun'
  BY <1>4 DEF Meanwhile, SlipBook, OneSlipARun
<1>7. ASSUME mishaps = 0 PROVE Booked(q)'
  <2>1. Booked(r)
    BY <1>1, <1>7, BookedOne
  <2>2. Marked(q)'
    BY <1>4, <2>1 DEF Booked, Marked
  <2>3. ASSUME ledger[r.period] # NoEntry PROVE ledger[r.period] \in Due(r.period)
    <3>1. PICK s \in Seqs : /\ ledger[r.period] = [seq |-> s, amount |-> row[s].amount]
                            /\ row[s].period = r.period /\ row[s].status = "deducted"
      BY <1>4, <1>5, <2>1, <2>3 DEF Booked, Marked
    <3> QED BY <3>1 DEF Due
  <2>4. Sees(q)'
    BY <1>4, <1>5, <2>3 DEF Sees
  <2>5. Covered(q)'
    BY <1>4, <2>1 DEF Booked, Covered, Taking
  <2> QED BY <2>2, <2>4, <2>5 DEF Booked
<1> QED BY <1>4, <1>6, <1>7, BookChanged

\* The line of a new slip is the ledger row of the month, if it has one.
LEMMA SlipBooks ==
  ASSUME NEW w \in Workers, Meanwhile(w), WriteSlip(w)
  PROVE  SlipBook'
<1> DEFINE exists == \E x \in slips : x.period = req[w].period /\ x.no = req[w].no
<1>1. PICK r : r = req[w]
  OBVIOUS
<1>2. /\ r = [f \in Fields |-> r[f]] /\ r.step = "slip" /\ r.op = "pass" /\ r.period \in Periods
      /\ Sound(r) /\ UNCHANGED <<loan, row, ledger, mishaps>>
  BY <1>1 DEF Meanwhile, Here, LoanInv, Shape, Sound, WriteSlip
<1>3. CASE exists
  <2>1. UNCHANGED slips /\ req' = [req EXCEPT ![w] = Idle]
    BY <1>3 DEF WriteSlip
  <2>2. PICK q : q = Idle
    OBVIOUS
  <2>3. q.step = "idle"
    BY <2>2 DEF Idle
  <2> QED BY <1>1, <1>2, <2>1, <2>2, <2>3, BookStays
<1>4. CASE ~ exists
  <2>1. PICK y : y = [period |-> r.period, no |-> r.no, lines |-> r.lines]
    OBVIOUS
  <2>2. PICK q : q = NextLine(r)
    OBVIOUS
  <2>3. slips' = slips \cup {y} /\ req' = [req EXCEPT ![w] = q]
    BY <1>1, <1>4, <2>1, <2>2 DEF WriteSlip
  <2>4. y.period = r.period /\ y.no = r.no /\ y.lines = r.lines
    BY <2>1
  <2>5. OneSlipARun'
    BY <1>1, <1>4, <2>3, <2>4 DEF Meanwhile, SlipBook, OneSlipARun
  <2>6. /\ q.step # "slip"
        /\ r.lines # {} => q.step = "record" /\ q.op = "pass" /\ q.period = r.period
                           /\ q.lines = r.lines
    <3>1. CASE r.lines = {}
      BY <2>2, <3>1 DEF NextLine, Idle
    <3>2. CASE r.lines # {}
      <4>1. q = [r EXCEPT !.step = "record"]
        BY <2>2, <3>2 DEF NextLine
      <4> QED BY <1>2, <4>1 DEF Fields
    <3> QED BY <3>1, <3>2
  <2>7. ASSUME mishaps = 0 PROVE Booked(q)'
    <3>1. Booked(r)
      BY <1>1, <2>7, BookedOne
    <3>2. Marked(q)'
      BY <1>2, <3>1 DEF Booked, Marked
    <3>3. Sees(q)'
      BY <2>6 DEF Sees
    <3>4. ASSUME NEW line \in r.lines PROVE line # NoEntry
      <4>1. PICK s \in Seqs : line = [seq |-> s, amount |-> row[s].amount]
        BY <1>2 DEF Sound, Names
      <4> QED BY <4>1 DEF NoEntry, Seqs
    <3>5. ASSUME OneLine(y), NEW line \in y.lines
          PROVE  line = ledger[y.period] \/ (Taking(q, y))'
      <4>1. line \in r.lines
        BY <2>4
      <4>2. CASE ledger[r.period] = NoEntry
        BY <1>2, <2>4, <2>6, <4>1, <4>2 DEF Taking
      <4>3. CASE ledger[r.period] # NoEntry
        <5>1. ledger[r.period] \in y.lines
          BY <1>2, <2>4, <3>1, <4>3 DEF Booked, Sees
        <5> QED BY <2>4, <3>5, <5>1 DEF OneLine
      <4> QED BY <4>2, <4>3
    <3>6. Covered(q)'
      <4> SUFFICES ASSUME NEW x \in slips', OneLine(x), NEW line \in x.lines
                   PROVE  line # NoEntry /\ (line = ledger'[x.period] \/ (Taking(q, x))')
        BY DEF Covered, OneLine
      <4>1. CASE x \in slips
        BY <1>2, <3>1, <4>1 DEF Booked, Covered, Taking
      <4>2. CASE x = y
        <5>1. line \in y.lines /\ OneLine(y)
          BY <4>2
        <5>2. line = ledger[y.period] \/ (Taking(q, y))'
          BY <3>5, <5>1
        <5> QED BY <1>2, <2>4, <3>4, <4>2, <5>1, <5>2
      <4> QED BY <2>3, <4>1, <4>2
    <3> QED BY <3>2, <3>3, <3>6 DEF Booked
  <2> QED BY <1>2, <2>3, <2>5, <2>7, BookChanged
<1> QED BY <1>3, <1>4

\* The line recorded first is the ledger row from then on.
LEMMA EntryBooks ==
  ASSUME LoanAssumption, NEW w \in Workers, Meanwhile(w), RecordEntry(w)
  PROVE  SlipBook'
<1>1. PICK r : r = req[w]
  OBVIOUS
<1>2. /\ r = [f \in Fields |-> r[f]] /\ r.step = "record" /\ r.op = "pass" /\ r.period \in Periods
      /\ Sound(r) /\ UNCHANGED <<loan, row, slips, mishaps>>
      /\ ledger = [p \in Periods |-> ledger[p]]
  BY <1>1 DEF Meanwhile, Here, LoanInv, Shape, Sound, RecordEntry
<1>3. PICK line \in r.lines :
        LET inserted == ledger[r.period] = NoEntry
            rest == [r EXCEPT !.lines = r.lines \ {line}]
        IN  /\ ledger' = IF inserted THEN [ledger EXCEPT ![r.period] = line] ELSE ledger
            /\ req' = [req EXCEPT ![w] =
                         IF inserted THEN [rest EXCEPT !.step = "mark", !.entry = line]
                         ELSE NextLine(rest)]
  BY <1>1 DEF RecordEntry
<1>4. PICK rest : rest = [r EXCEPT !.lines = r.lines \ {line}]
  OBVIOUS
<1>5. rest = [f \in Fields |-> rest[f]]
  BY <1>2, <1>4 DEF Fields
<1>6. OneSlipARun'
  BY <1>2 DEF Meanwhile, SlipBook, OneSlipARun
<1>7. PICK s \in Seqs : line = [seq |-> s, amount |-> row[s].amount] /\ row[s].period = r.period
  BY <1>2 DEF Sound, Names
<1>8. line # NoEntry
  BY <1>7 DEF NoEntry, Seqs
<1>9. CASE ledger[r.period] # NoEntry
  <2>1. PICK q : q = NextLine(rest)
    OBVIOUS
  <2>2. ledger' = ledger /\ req' = [req EXCEPT ![w] = q]
    BY <1>3, <1>4, <1>9, <2>1
  <2>3. q.step \in {"idle", "record"}
    <3>1. q = Idle \/ q = [rest EXCEPT !.step = "record"]
      BY <2>1 DEF NextLine
    <3> QED BY <1>5, <3>1 DEF Idle, Fields
  <2>4. ASSUME mishaps = 0 PROVE Booked(q)'
    <3>1. Booked(r)
      BY <1>1, <2>4, BookedOne
    <3>2. Marked(q)'
      BY <1>2, <2>2, <3>1 DEF Booked, Marked
    <3>3. Sees(q)'
      BY <2>3 DEF Sees
    <3>4. Covered(q)'
      BY <1>2, <1>9, <2>2, <3>1 DEF Booked, Covered, Taking
    <3> QED BY <3>2, <3>3, <3>4 DEF Booked
  <2> QED BY <1>2, <1>6, <2>2, <2>4, BookChanged
<1>10. CASE ledger[r.period] = NoEntry
  <2>1. PICK q : q = [rest EXCEPT !.step = "mark", !.entry = line]
    OBVIOUS
  <2>2. ledger' = [ledger EXCEPT ![r.period] = line] /\ req' = [req EXCEPT ![w] = q]
    BY <1>3, <1>4, <1>10, <2>1
  <2>3. q.step = "mark" /\ q.entry = line
    BY <1>5, <2>1 DEF Fields
  <2>4. /\ ledger'[r.period] = line
        /\ \A p \in Periods : p # r.period => ledger'[p] = ledger[p]
    BY <1>2, <2>2
  <2>5. ASSUME mishaps = 0 PROVE Booked(q)'
    <3>1. Booked(r)
      BY <1>1, <2>5, BookedOne
    <3>2. row[s].status = "planned"
      <4>1. Known(r)
        BY <1>1, <2>5, KnownOne DEF Meanwhile
      <4>2. PICK t \in Planned : line = [seq |-> t, amount |-> row[t].amount]
        BY <1>2, <1>10, <4>1 DEF Known, Alone, Prices
      <4>3. t = s
        BY <1>7, <4>2
      <4> QED BY <4>2, <4>3 DEF Planned
    <3>3. Marked(q)'
      <4> SUFFICES ASSUME NEW p \in Periods, ledger'[p] # NoEntry
                   PROVE  \E t \in Seqs :
                            /\ ledger'[p] = [seq |-> t, amount |-> row[t].amount] /\ row[t].period = p
                            /\ \/ row[t].status = "deducted"
                               \/ row[t].status = "planned" /\ q.step = "mark" /\ q.entry.seq = t
        BY <1>2 DEF Marked
      <4>1. CASE p = r.period
        <5>1. ledger'[p] = [seq |-> s, amount |-> row[s].amount] /\ q.entry.seq = s
          BY <1>7, <2>3, <2>4, <4>1
        <5> QED BY <1>7, <2>3, <3>2, <4>1, <5>1
      <4>2. CASE p # r.period
        <5>1. ledger'[p] = ledger[p] /\ ledger[p] # NoEntry
          BY <2>4, <4>2
        <5>2. PICK t \in Seqs : /\ ledger[p] = [seq |-> t, amount |-> row[t].amount]
                                /\ row[t].period = p /\ row[t].status = "deducted"
          BY <1>2, <3>1, <5>1 DEF Booked, Marked
        <5> QED BY <5>1, <5>2
      <4> QED BY <4>1, <4>2
    <3>4. Sees(q)'
      BY <2>3 DEF Sees
    <3>5. Covered(q)'
      <4> SUFFICES ASSUME NEW x \in slips, OneLine(x), NEW l \in x.lines
                   PROVE  l # NoEntry /\ l = ledger'[x.period]
        BY <1>2 DEF Covered, OneLine
      <4>1. /\ l # NoEntry /\ x.period \in Periods
            /\ l = ledger[x.period] \/ Taking(r, x)
        BY <3>1 DEF Booked, Covered, Meanwhile, Here, LoanData, TypeOK
      <4>2. CASE l = ledger[x.period]
        <5>1. x.period # r.period
          BY <1>10, <4>1, <4>2
        <5> QED BY <2>4, <4>1, <4>2, <5>1
      <4>3. CASE Taking(r, x)
        <5>1. line \in x.lines /\ x.period = r.period
          BY <1>3, <4>3 DEF Taking
        <5>2. l = line
          BY <5>1 DEF OneLine
        <5> QED BY <2>4, <4>1, <5>1, <5>2
      <4> QED BY <4>1, <4>2, <4>3
    <3> QED BY <3>3, <3>4, <3>5 DEF Booked
  <2> QED BY <1>2, <1>6, <2>2, <2>5, BookChanged
<1> QED BY <1>9, <1>10

LEMMA MarkBooks ==
  ASSUME NEW w \in Workers, Meanwhile(w), LoanData', MarkDeducted(w)
  PROVE  SlipBook'
<1>1. PICK r : r = req[w]
  OBVIOUS
<1>2. PICK z : z = r.entry.seq
  OBVIOUS
<1>3. PICK q : q = [r EXCEPT !.step = "cleared", !.entry = NoEntry]
  OBVIOUS
<1>4. /\ r = [f \in Fields |-> r[f]] /\ r.step = "mark"
      /\ row' = [row EXCEPT ![z].status = IF @ = "planned" THEN "deducted" ELSE @]
      /\ req' = [req EXCEPT ![w] = q] /\ UNCHANGED <<loan, ledger, slips, mishaps>>
  BY <1>1, <1>2, <1>3 DEF Meanwhile, Here, LoanInv, Shape, MarkDeducted
<1>5. q.step = "cleared"
  BY <1>3, <1>4 DEF Fields
<1>6. OneSlipARun'
  BY <1>4 DEF Meanwhile, SlipBook, OneSlipARun
<1>7. ASSUME NEW s \in Seqs
      PROVE  /\ row'[s].amount = row[s].amount /\ row'[s].period = row[s].period
             /\ row'[s].status = IF s = z /\ row[s].status = "planned" THEN "deducted" ELSE row[s].status
  BY <1>4 DEF Meanwhile, Here, LoanData, TypeOK
<1>8. ASSUME mishaps = 0 PROVE Booked(q)'
  <2>1. Booked(r)
    BY <1>1, <1>8, BookedOne
  <2>2. Marked(q)'
    <3> SUFFICES ASSUME NEW p \in Periods, ledger[p] # NoEntry
                 PROVE  \E s \in Seqs : /\ ledger[p] = [seq |-> s, amount |-> row'[s].amount]
                                        /\ row'[s].period = p
                                        /\ row'[s].status = "deducted"
      BY <1>4 DEF Marked
    <3>1. PICK s \in Seqs :
            /\ ledger[p] = [seq |-> s, amount |-> row[s].amount] /\ row[s].period = p
            /\ row[s].status = "deducted" \/ (row[s].status = "planned" /\ z = s)
      BY <1>2, <2>1 DEF Booked, Marked
    <3> QED BY <1>7, <3>1
  <2>3. Sees(q)'
    BY <1>5 DEF Sees
  <2>4. Covered(q)'
    BY <1>4, <2>1 DEF Booked, Covered, Taking
  <2> QED BY <2>2, <2>3, <2>4 DEF Booked
<1> QED BY <1>4, <1>6, <1>8, BookChanged

\* What is withdrawn is planned.
LEMMA WithdrawBooks ==
  ASSUME LoanAssumption, NEW w \in Workers, Meanwhile(w), Withdraw(w)
  PROVE  SlipBook'
<1>1. PICK r : r = req[w]
  OBVIOUS
<1>2. PICK gone : gone = IF r.op = "settle" THEN Planned ELSE r.cancel
  OBVIOUS
<1>3. PICK q : q = [r EXCEPT !.step = AfterWithdraw(r), !.cancel = {}]
  OBVIOUS
<1>4. r = [f \in Fields |-> r[f]]
  BY <1>1 DEF Meanwhile, Here, LoanInv, Shape
<1>5. /\ r.step = "withdraw" /\ req' = [req EXCEPT ![w] = q]
      /\ row' = [s \in Seqs |-> IF s \in gone THEN [row[s] EXCEPT !.status = "cancelled"] ELSE row[s]]
      /\ UNCHANGED <<loan, ledger, slips, mishaps>>
  BY <1>1, <1>2, <1>3 DEF Withdraw
<1>6. q.step # "slip"
  <2>1. q.step = AfterWithdraw(r)
    BY <1>3, <1>4 DEF Fields
  <2>2. AfterWithdraw(r) \in {"update", "balance", "write"}
    BY DEF AfterWithdraw
  <2> QED BY <2>1, <2>2
<1>7. ASSUME mishaps = 0 PROVE \A s \in Seqs : row[s].status = "deducted" => row'[s] = row[s]
  <2>1. Known(r)
    BY <1>1, <1>7, KnownOne DEF Meanwhile
  <2>2. gone \subseteq Planned
    BY <1>2, <1>5, <2>1 DEF Known, Alone, Writes
  <2> QED BY <1>5, <2>2 DEF Planned
<1> QED BY <1>1, <1>5, <1>6, <1>7, BookStays

\* What is written was not there.
LEMMA WriteRowBooks ==
  ASSUME NEW w \in Workers, Meanwhile(w), WriteRow(w)
  PROVE  SlipBook'
<1>1. PICK r, h : r = req[w] /\ h = Head(r.rows)
  OBVIOUS
<1>2. PICK q : q = [r EXCEPT !.rows = Tail(r.rows),
                             !.step = IF Len(r.rows) = 1 THEN "update" ELSE r.step]
  OBVIOUS
<1>3. r = [f \in Fields |-> r[f]] /\ r.step = "write" /\ UNCHANGED <<loan, ledger, slips, mishaps>>
  BY <1>1 DEF Meanwhile, Here, LoanInv, Shape, WriteRow
<1>4. q.step \in {"update", "write"}
  BY <1>2, <1>3 DEF Fields
<1>5. PICK e : e = [status |-> "planned", period |-> h.period, amount |-> h.amount]
  OBVIOUS
<1>6. \/ req' = [req EXCEPT ![w] = Idle] /\ row' = row
      \/ /\ req' = [req EXCEPT ![w] = q]
         /\ row' = row \/ (row[h.seq].status = "none" /\ row' = [row EXCEPT ![h.seq] = e])
  BY <1>1, <1>2, <1>5 DEF WriteRow
<1>7. \A s \in Seqs : row[s].status = "deducted" => row'[s] = row[s]
  BY <1>6 DEF Meanwhile, Here, LoanData, TypeOK
<1>8. PICK i : i = Idle
  OBVIOUS
<1>9. i.step = "idle"
  BY <1>8 DEF Idle
<1> QED BY <1>1, <1>3, <1>4, <1>6, <1>7, <1>8, <1>9, BookStays

\* A pass over a month that has its ledger row turns to its next line.
LEMMA LineBooks ==
  ASSUME NEW w \in Workers, Meanwhile(w), Update(w) \/ settleIfCleared(w)
  PROVE  SlipBook'
<1>1. PICK r : r = req[w]
  OBVIOUS
<1>2. /\ r = [f \in Fields |-> r[f]] /\ r.step \in {"update", "cleared"}
      /\ UNCHANGED <<row, ledger, slips, mishaps>>
  BY <1>1 DEF Meanwhile, Here, LoanInv, Shape, Update, settleIfCleared
<1>3. PICK q : q = req'[w]
  OBVIOUS
<1>4. req = [v \in Workers |-> req[v]]
  BY DEF Meanwhile, Here, LoanInv, Shape
<1>5. /\ req' = [req EXCEPT ![w] = q]
      /\ q \in {Idle, [r EXCEPT !.step = "record"], [r EXCEPT !.step = "update", !.v = loan.v]}
  <2>1. PICK c : /\ req' = [req EXCEPT ![w] = c]
                 /\ c \in {Idle, [r EXCEPT !.step = "record"], [r EXCEPT !.step = "update", !.v = loan.v]}
    <3>1. CASE Update(w)
      BY <1>1, <3>1 DEF Update, NextLine
    <3>2. CASE settleIfCleared(w)
      BY <1>1, <3>2 DEF settleIfCleared, NextLine
    <3> QED BY <3>1, <3>2
  <2>2. c = q
    BY <1>3, <1>4, <2>1
  <2> QED BY <2>1, <2>2
<1>6. q.step # "slip"
  <2>1. CASE q = Idle
    BY <2>1 DEF Idle
  <2>2. CASE q = [r EXCEPT !.step = "record"]
    BY <1>2, <2>2 DEF Fields
  <2>3. CASE q = [r EXCEPT !.step = "update", !.v = loan.v]
    BY <1>2, <2>3 DEF Fields
  <2> QED BY <1>5, <2>1, <2>2, <2>3
<1> QED BY <1>1, <1>2, <1>5, <1>6, BookStays

\* Everything else only reads, or ends.
LEMMA OtherBooks ==
  ASSUME NEW w \in Workers, Meanwhile(w),
         \/ Start(w) /\ UNCHANGED mishaps
         \/ \E p \in Periods : StartPass(w, p) /\ UNCHANGED mishaps
         \/ ReadMonths(w) \/ PlanDisburse(w) \/ PlanReschedule(w) \/ PlanAccelerate(w)
         \/ PlanSettle(w) \/ PlanExit(w) \/ Refuse(w) \/ ReadBalance(w) \/ Stale(w)
  PROVE  SlipBook'
<1>1. PICK r : r = req[w]
  OBVIOUS
<1>2. r = [f \in Fields |-> r[f]]
  BY <1>1 DEF Meanwhile, Here, LoanInv, Shape
<1>3. \E q : /\ req' = [req EXCEPT ![w] = q] /\ q.step # "slip"
             /\ r.step \in {"idle", "months", "plan", "balance", "update"}
             /\ UNCHANGED <<row, ledger, slips, mishaps>>
  <2>1. CASE Start(w) /\ UNCHANGED mishaps
    <3>1. PICK op, step, from : step \in {"plan", "months", "update"} /\ Begin(w, op, from, step)
      BY <2>1 DEF Start, StartDisburse, StartCancel, StartReschedule, StartAccelerate, StartSettle,
                  StartExit
    <3>2. PICK q : q = [Idle EXCEPT !.step = step, !.op = op, !.v = loan.v, !.was = loan.status]
      OBVIOUS
    <3>3. q.step = step
      BY <3>2 DEF Idle
    <3> QED BY <1>1, <2>1, <3>1, <3>2, <3>3 DEF Begin
  <2>2. ASSUME NEW p \in Periods, StartPass(w, p), UNCHANGED mishaps
        PROVE  \E q : /\ req' = [req EXCEPT ![w] = q] /\ q.step # "slip" /\ r.step = "idle"
                      /\ UNCHANGED <<row, ledger, slips, mishaps>>
    <3>1. PICK q : q = [Idle EXCEPT !.step = "price", !.op = "pass", !.period = p, !.no = runNo[p]]
      OBVIOUS
    <3>2. q.step = "price"
      BY <3>1 DEF Idle
    <3> QED BY <1>1, <2>2, <3>1, <3>2 DEF StartPass
  <2>3. CASE ReadMonths(w)
    <3>1. PICK q : q = [r EXCEPT !.step = "plan", !.closed = Period!frozenPeriods]
      OBVIOUS
    <3>2. q.step = "plan"
      BY <1>2, <3>1 DEF Fields
    <3> QED BY <1>1, <2>3, <3>1, <3>2 DEF ReadMonths
  <2>4. ASSUME NEW step, step # "slip", NEW cancel, NEW rows, Proceed(w, step, cancel, rows), r.step = "plan"
        PROVE  \E q : /\ req' = [req EXCEPT ![w] = q] /\ q.step # "slip"
                      /\ UNCHANGED <<row, ledger, slips, mishaps>>
    <3>1. PICK q : q = [r EXCEPT !.step = step, !.cancel = cancel, !.rows = rows, !.closed = {}]
      OBVIOUS
    <3>2. q.step = step
      BY <1>2, <3>1 DEF Fields
    <3> QED BY <1>1, <2>4, <3>1, <3>2 DEF Proceed
  <2>5. CASE PlanDisburse(w)
    BY <1>1, <2>4, <2>5 DEF PlanDisburse, Plan
  <2>6. CASE PlanReschedule(w)
    BY <1>1, <2>4, <2>6 DEF PlanReschedule, Plan
  <2>7. CASE PlanAccelerate(w)
    BY <1>1, <2>4, <2>7 DEF PlanAccelerate, Plan
  <2>8. CASE PlanExit(w)
    BY <1>1, <2>4, <2>8 DEF PlanExit, Plan
  <2>9. CASE PlanSettle(w)
    <3>1. PICK q : q = [r EXCEPT !.step = "withdraw", !.paid = remainingMinor]
      OBVIOUS
    <3>2. q.step = "withdraw"
      BY <1>2, <3>1 DEF Fields
    <3> QED BY <1>1, <2>9, <3>1, <3>2 DEF PlanSettle, Plan
  <2>10. CASE Refuse(w) \/ Stale(w)
    <3>1. PICK q : q = Idle
      OBVIOUS
    <3>2. q.step = "idle"
      BY <3>1 DEF Idle
    <3> QED BY <1>1, <2>10, <3>1, <3>2 DEF Refuse, Stale
  <2>11. CASE ReadBalance(w)
    <3>1. PICK q : q = IF remainingMinor <= 0 THEN Idle ELSE [r EXCEPT !.step = "update"]
      OBVIOUS
    <3>2. q.step \in {"idle", "update"}
      BY <1>2, <3>1 DEF Idle, Fields
    <3> QED BY <1>1, <2>11, <3>1, <3>2 DEF ReadBalance
  <2> QED BY <2>1, <2>2, <2>3, <2>5, <2>6, <2>7, <2>8, <2>9, <2>10, <2>11
<1>4. PICK q : /\ req' = [req EXCEPT ![w] = q] /\ q.step # "slip"
               /\ r.step \in {"idle", "months", "plan", "balance", "update"}
               /\ UNCHANGED <<row, ledger, slips, mishaps>>
  BY <1>3
<1> QED BY <1>1, <1>4, BookStays

LEMMA RunsKeepBook ==
  ASSUME SlipBook, UNCHANGED <<row, ledger, slips, req, mishaps>>
  PROVE  SlipBook'
BY DEF SlipBook, OneSlipARun, Turn, Booked, Marked, Sees, Covered, Taking

LEMMA BookInitially == ASSUME Workers # {} PROVE Init => SlipBook
<1> SUFFICES ASSUME Init PROVE SlipBook
  OBVIOUS
<1>1. /\ ledger = [p \in Periods |-> NoEntry] /\ slips = {} /\ req = [w \in Workers |-> Idle]
  BY DEF Init
<1>2. PICK q : q = Idle
  OBVIOUS
<1>3. q.step = "idle"
  BY <1>2 DEF Idle
<1>4. Booked(q)
  BY <1>1, <1>3 DEF Booked, Marked, Sees, Covered
<1> QED BY <1>1, <1>2, <1>4 DEF SlipBook, OneSlipARun, Turn

LEMMA MishapKeepsBook ==
  ASSUME LoanBudget, SlipBook, mishaps' = mishaps + 1, UNCHANGED slips
  PROVE  SlipBook'
BY DEF LoanBudget, SlipBook, OneSlipARun

LEMMA BookNext ==
  LoanAssumption /\ LoanInv /\ LoanData /\ LoanBudget /\ SlipBook /\ [Next]_vars
    => SlipBook'
<1> SUFFICES ASSUME LoanAssumption, LoanInv, LoanData, LoanBudget, SlipBook, [Next]_vars
             PROVE  SlipBook'
  OBVIOUS
<1>0. LoanData'
  BY DataNext
<1>1. ASSUME NEW w \in Workers, Serve(w) PROVE SlipBook'
  <2>0. Meanwhile(w)
    BY <1>1, ServesOne, InTurn DEF Meanwhile
  <2>1. CASE PricePass(w)
    BY <2>0, <2>1, PriceBooks
  <2>2. CASE WriteSlip(w)
    BY <2>0, <2>2, SlipBooks
  <2>3. CASE RecordEntry(w)
    BY <2>0, <2>3, EntryBooks
  <2>4. CASE MarkDeducted(w)
    BY <2>0, <1>0, <2>4, MarkBooks
  <2>5. CASE Withdraw(w)
    BY <2>0, <2>5, WithdrawBooks
  <2>6. CASE WriteRow(w)
    BY <2>0, <2>6, WriteRowBooks
  <2>7. CASE Update(w) \/ settleIfCleared(w)
    BY <2>0, <2>7, LineBooks
  <2> QED BY <1>1, <2>0, <2>1, <2>2, <2>3, <2>4, <2>5, <2>6, <2>7, OtherBooks DEF Serve
<1>2. ASSUME NEW p \in Periods, OpenRun(p) \/ MoveRun(p) PROVE SlipBook'
  <2>1. UNCHANGED <<row, ledger, slips, req, mishaps>>
    BY <1>2 DEF OpenRun, MoveRun
  <2> QED BY <2>1, RunsKeepBook
<1>3. ASSUME NEW w \in Workers, Start(w) PROVE SlipBook'
  <2>1. CASE mishaps' = mishaps + 1
    BY <1>3, <2>1, MishapKeepsBook DEF Start, StartDisburse, StartCancel, StartReschedule,
       StartAccelerate, StartSettle, StartExit, Begin
  <2> QED BY <1>3, <2>1, BeginsInTurn, OtherBooks DEF Meanwhile
<1>4. ASSUME NEW w \in Workers, Crash(w) PROVE SlipBook'
  BY <1>4, MishapKeepsBook DEF Crash
<1>5. ASSUME NEW w \in Workers, NEW p \in Periods, StartPass(w, p) PROVE SlipBook'
  <2>1. CASE mishaps' = mishaps + 1
    BY <1>5, <2>1, MishapKeepsBook DEF StartPass
  <2> QED BY <1>5, <2>1, BeginsInTurn, OtherBooks DEF Meanwhile
<1>6. CASE UNCHANGED vars
  BY <1>6, RunsKeepBook DEF vars
<1> QED BY <1>1, <1>2, <1>3, <1>4, <1>5, <1>6 DEF Next

-----------------------------------------------------------------------------
\* What the standing slip of a month took, if it has one line at most.
LEMMA TakenInMonth ==
  ASSUME OneSlipARun, NEW p \in Periods, NEW most \in Nat,
         \A x \in slips : x.period = p /\ Stands(x) =>
           OneLine(x) /\ \A line \in x.lines : line.amount \in Nat /\ line.amount <= most
  PROVE  TakenIn(p) \in Nat /\ TakenIn(p) <= most
<1>1. PICK L : L = TakenLines(p)
  OBVIOUS
<1>2. PICK f : f = [line \in L |-> line.amount]
  OBVIOUS
<1>3. TakenIn(p) = SumFunctionOnSet(f, L)
  BY <1>1, <1>2 DEF TakenIn
<1>4. ASSUME NEW line \in L
      PROVE  \E x \in slips : x.period = p /\ Stands(x) /\ line \in x.lines
  BY <1>1 DEF TakenLines
<1>5. CASE L = {}
  <2>1. TakenIn(p) = 0
    BY <1>3, <1>5, SumEmpty
  <2> QED BY <2>1
<1>6. CASE L # {}
  <2>1. PICK line : line \in L
    BY <1>6
  <2>2. ASSUME NEW other \in L PROVE other = line
    <3>1. PICK x \in slips : x.period = p /\ Stands(x) /\ line \in x.lines
      BY <1>4, <2>1
    <3>2. PICK y \in slips : y.period = p /\ Stands(y) /\ other \in y.lines
      BY <1>4
    <3>3. x = y
      BY <3>1, <3>2 DEF OneSlipARun, Stands
    <3> QED BY <3>1, <3>2, <3>3 DEF OneLine
  <2>3. L = {line}
    BY <2>1, <2>2
  <2>4. line.amount \in Nat /\ line.amount <= most /\ f[line] = line.amount
    BY <1>2, <1>4, <2>1
  <2>5. SumFunctionOnSet(f, {line}) = f[line]
    <3>1. f[line] \in Int
      BY <2>4
    <3> QED BY <3>1, SumOfSingleton, Zenon
  <2> QED BY <1>3, <2>3, <2>4, <2>5
<1> QED BY <1>5, <1>6

\* What the standing slips took is in the ledger, but for one instalment that
\* is still planned.
LEMMA TakenAtMost ==
  ASSUME LoanAssumption, TypeOK, OneSlipARun, NEW q, Covered(q), Prices(q),
         q.op = "pass" => q.period \in Periods,
         \A x \in slips : Stands(x) => OneLine(x)
  PROVE  /\ TakenByPayroll \in Int
         /\ \/ TakenByPayroll <= Repaid
            \/ /\ loan.status = "active" /\ q.step = "record"
               /\ TakenByPayroll <= Repaid + Total(Planned)
<1>1. PICK f, g : /\ f = [p \in Periods |-> TakenIn(p)]
                  /\ g = [p \in Periods |-> ledger[p].amount]
  OBVIOUS
<1>2. /\ TakenByPayroll = SumFunctionOnSet(f, Periods) /\ Repaid = SumFunctionOnSet(g, Periods)
      /\ IsFiniteSet(Periods)
  BY <1>1, Calendar DEF TakenByPayroll, Repaid
<1>3. \A p \in Periods : ledger[p] \in Entries /\ ledger[p].amount \in Nat /\ g[p] = ledger[p].amount
  BY <1>1 DEF TypeOK, Entries
<1>4. CASE \A x \in slips : Stands(x) => ~ (x.lines # {} /\ Taking(q, x))
  <2>1. ASSUME NEW p \in Periods PROVE f[p] \in Int /\ g[p] \in Int /\ f[p] <= g[p]
    <3>1. PICK most \in Nat : most = ledger[p].amount
      BY <1>3
    <3>2. \A x \in slips : x.period = p /\ Stands(x) =>
            OneLine(x) /\ \A line \in x.lines : line.amount \in Nat /\ line.amount <= most
      BY <1>4, <3>1 DEF Covered
    <3>3. TakenIn(p) \in Nat /\ TakenIn(p) <= most
      BY <3>2, TakenInMonth
    <3> QED BY <1>1, <1>3, <3>1, <3>3
  <2>2. SumFunctionOnSet(f, Periods) <= SumFunctionOnSet(g, Periods)
    BY <1>2, <2>1, SumMonotone
  <2>3. SumFunctionOnSet(f, Periods) \in Int
    BY <1>2, <2>1, SumType
  <2> QED BY <1>2, <2>2, <2>3
<1>5. CASE \E x \in slips : Stands(x) /\ x.lines # {} /\ Taking(q, x)
  <2>1. PICK y \in slips : Stands(y) /\ y.lines # {} /\ Taking(q, y)
    BY <1>5
  <2>2. PICK l \in y.lines : TRUE
    BY <2>1
  <2>3. /\ q.op = "pass" /\ q.step = "record" /\ ledger[q.period] = NoEntry /\ y.period = q.period
        /\ y.lines = q.lines /\ l \in q.lines /\ q.period \in Periods
    BY <2>1, <2>2 DEF Taking
  <2>4. PICK s \in Planned : l = [seq |-> s, amount |-> row[s].amount] /\ loan.status = "active"
    BY <2>3 DEF Prices
  <2>5. PICK a : a = row[s].amount
    OBVIOUS
  <2>6. s \in Seqs /\ a \in Nat /\ l.amount = a
    BY <2>4, <2>5 DEF Planned, TypeOK
  <2>7. PICK P \in Periods : P = q.period
    BY <2>3
  <2>8. PICK h : h = [g EXCEPT ![P] = a]
    OBVIOUS
  <2>9. g[P] = 0 /\ h[P] = a /\ \A p \in Periods : p # P => h[p] = g[p]
    BY <1>1, <2>3, <2>7, <2>8 DEF NoEntry
  <2>10. \A p \in Periods : g[p] \in Int /\ h[p] \in Int /\ h[p] \in Nat
    BY <1>3, <2>6, <2>9
  <2>11. ASSUME NEW p \in Periods PROVE f[p] \in Int /\ h[p] \in Int /\ f[p] <= h[p]
    <3>1. PICK most \in Nat : most = h[p]
      BY <2>10
    <3>2. ASSUME NEW x \in slips, x.period = p, Stands(x), NEW line \in x.lines
          PROVE  line.amount \in Nat /\ line.amount <= most
      <4>1. OneLine(x) /\ line # NoEntry /\ (line = ledger[x.period] \/ Taking(q, x))
        BY <3>2 DEF Covered
      <4>2. CASE p = P
        <5>1. x = y
          BY <2>1, <2>3, <2>7, <3>2, <4>2 DEF OneSlipARun, Stands
        <5>2. line = l
          BY <2>2, <4>1, <5>1 DEF OneLine
        <5> QED BY <2>6, <2>9, <3>1, <4>2, <5>2
      <4>3. CASE p # P
        <5>1. line = ledger[p]
          BY <2>7, <3>2, <4>1, <4>3 DEF Taking
        <5> QED BY <1>3, <2>9, <3>1, <4>3, <5>1
      <4> QED BY <4>2, <4>3
    <3>3. TakenIn(p) \in Nat /\ TakenIn(p) <= most
      BY <3>2, TakenInMonth
    <3> QED BY <1>1, <2>10, <3>1, <3>3
  <2>12. SumFunctionOnSet(f, Periods) <= SumFunctionOnSet(h, Periods)
    BY <1>2, <2>11, SumMonotone
  <2>13. SumFunctionOnSet(h, Periods) = SumFunctionOnSet(g, Periods) + h[P] - g[P]
    <3>1. \A p \in Periods : g[p] \in Int /\ h[p] \in Int
      BY <2>10
    <3>2. \A p \in Periods : p # P => h[p] = g[p]
      BY <2>9
    <3>3. IsFiniteSet(Periods)
      BY <1>2
    <3> QED BY <3>1, <3>2, <3>3, SumChange
  <2>14. SumFunctionOnSet(f, Periods) \in Int /\ SumFunctionOnSet(g, Periods) \in Int
    <3>1. (\A p \in Periods : f[p] \in Int) /\ (\A p \in Periods : g[p] \in Int)
      BY <2>10, <2>11
    <3>2. SumFunctionOnSet(f, Periods) \in Int
      BY <1>2, <3>1, SumType, Zenon
    <3>3. SumFunctionOnSet(g, Periods) \in Int
      BY <1>2, <3>1, SumType, Zenon
    <3> QED BY <3>2, <3>3
  <2>15. TakenByPayroll <= Repaid + a
    BY <1>2, <2>6, <2>9, <2>12, <2>13, <2>14
  <2>16. a <= Total(Planned) /\ Total(Planned) \in Int
    <3>1. Planned \in SUBSET Seqs /\ Planned \ {s} \in SUBSET Planned
      BY DEF Planned
    <3>2. /\ Total(Planned) = row[s].amount + Total(Planned \ {s})
          /\ Total(Planned \ {s}) \in Int /\ Total(Planned \ {s}) >= 0
      BY <3>1, TotalFacts
    <3> QED BY <2>5, <2>6, <3>2
  <2> QED BY <1>2, <2>3, <2>4, <2>6, <2>14, <2>15, <2>16
<1> QED BY <1>4, <1>5

\* Nobody is made to repay more than the loan while requests are served one
\* at a time and none has died: what is repaid, what is planned and what the
\* request is about to plan never come to more than the principal, through
\* reschedules, accelerations, settlements and passes repeated over any runs
\* (LoanBudget).  The payslips that stand, if none has two lines of the loan,
\* took what the ledger says and at most one instalment that is still planned
\* (SlipBook), so they never took more either.
THEOREM OneRequestNeverOverRepays ==
  ASSUME Workers # {}
  PROVE  Spec => []NeverOverRepaid
<1>1. Spec => []LoanBudget
  BY LoanAssumption, BudgetInitially, BudgetNext, LoanInvariant, LoanDataInvariant, PTL DEF Spec
<1>2. Spec => []SlipBook
  BY <1>1, LoanAssumption, BookInitially, BookNext, LoanInvariant, LoanDataInvariant, PTL DEF Spec
<1>3. LoanBudget /\ LoanData /\ LoanInv /\ SlipBook => NeverOverRepaid
  <2> SUFFICES ASSUME LoanBudget, LoanData, LoanInv, SlipBook, mishaps = 0
               PROVE  /\ Repaid + loan.external <= Principal
                      /\ (\A x \in slips : Stands(x) => OneLine(x)) =>
                           TakenByPayroll + loan.external <= Principal
    BY DEF NeverOverRepaid
  <2>1. PICK only \in Workers : Turn(only)
    BY DEF LoanBudget
  <2>2. PICK q : q = req[only]
    OBVIOUS
  <2>3. Meanwhile(only)
    BY <2>1 DEF Meanwhile, Here
  <2>4. Known(q) /\ Booked(q) /\ OneSlipARun
    <3>1. Known(req[only])
      BY <2>3, KnownOne DEF Meanwhile
    <3>2. Booked(req[only])
      BY <2>3, BookedOne
    <3> QED BY <2>2, <3>1, <3>2 DEF SlipBook
  <2>5. TypeOK /\ Typed(q) /\ Sound(q) /\ Alone(q) /\ Covered(q)
    BY <2>4 DEF Known, Booked
  <2>6. /\ Repaid \in Int /\ Principal \in Nat /\ loan.external \in Nat
        /\ Total(Planned) \in Int /\ Total(Planned) >= 0
        /\ Total(Still(q)) \in Int /\ Total(Still(q)) >= 0
        /\ Coming(q) \in Int /\ Coming(q) >= 0
    BY <2>5, LoanAssumption, InSums
  <2>7. Budget(q) /\ Prices(q) /\ (q.op = "pass" => q.period \in Periods)
    BY <2>5 DEF Alone, Sound
  <2>8. Repaid + loan.external <= Principal
    BY <2>6, <2>7 DEF Budget
  <2>9. ASSUME \A x \in slips : Stands(x) => OneLine(x)
        PROVE  TakenByPayroll + loan.external <= Principal
    <3>1. /\ TakenByPayroll \in Int
          /\ \/ TakenByPayroll <= Repaid
             \/ /\ loan.status = "active" /\ q.step = "record"
                /\ TakenByPayroll <= Repaid + Total(Planned)
      BY <2>4, <2>5, <2>7, <2>9, LoanAssumption, TakenAtMost
    <3>2. CASE TakenByPayroll <= Repaid
      BY <2>6, <2>8, <3>1, <3>2
    <3>3. CASE /\ loan.status = "active" /\ q.step = "record"
               /\ TakenByPayroll <= Repaid + Total(Planned)
      <4>1. Still(q) = Planned
        BY <3>3 DEF Still
      <4>2. loan.external = 0 /\ Repaid + Total(Planned) + Coming(q) <= Principal
        BY <2>7, <3>3, <4>1 DEF Budget
      <4> QED BY <2>6, <3>1, <3>3, <4>2
    <3> QED BY <3>1, <3>2, <3>3
  <2> QED BY <2>8, <2>9
<1> QED BY <1>1, <1>2, <1>3, LoanInvariant, LoanDataInvariant, PTL
=============================================================================
