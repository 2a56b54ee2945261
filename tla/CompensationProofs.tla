------------------------- MODULE CompensationProofs -------------------------
(***************************************************************************)
(* Proofs about the arithmetic of Compensation for every month, employment *)
(* and assignment: the samples MCPayrollRun evaluates are some of them.    *)
(*                                                                         *)
(* Days are counted as sets: DaysOf is the cardinality of a set of days,   *)
(* and what a sum over spans or rows adds up to is the cardinality of a    *)
(* union (FoldTheorems).                                                   *)
(***************************************************************************)
EXTENDS MCPayrollRun, FoldTheorems

\* An interval of days; an assignment or a consumption is one too.
IsSpan(s) == s.from \in Int /\ s.to \in Int

DaySet(s) == s.from..s.to

LEMMA MinOfTwo ==
  ASSUME NEW a \in Int, NEW b \in Int
  PROVE  Min({a, b}) = IF a <= b THEN a ELSE b
BY DEF Min

LEMMA MaxOfTwo ==
  ASSUME NEW a \in Int, NEW b \in Int
  PROVE  Max({a, b}) = IF a >= b THEN a ELSE b
BY DEF Max

\* intersect keeps the days of both.
LEMMA OverlapDays ==
  ASSUME NEW a, IsSpan(a), NEW b, IsSpan(b)
  PROVE  /\ IsSpan(Overlap(a, b))
         /\ DaySet(Overlap(a, b)) = DaySet(a) \cap DaySet(b)
<1>1. /\ Overlap(a, b).from = (IF a.from >= b.from THEN a.from ELSE b.from)
      /\ Overlap(a, b).to = (IF a.to <= b.to THEN a.to ELSE b.to)
  BY MinOfTwo, MaxOfTwo DEF Overlap, IsSpan
<1> QED BY <1>1 DEF IsSpan, DaySet

\* calendarDaysInclusive counts the days.
LEMMA DaysAreCounted ==
  ASSUME NEW s, IsSpan(s)
  PROVE  /\ IsFiniteSet(DaySet(s))
         /\ DaysOf(s) = Cardinality(DaySet(s))
         /\ DaysOf(s) \in Nat
<1>1. s.from \in Int /\ s.to \in Int
  BY DEF IsSpan
<1>2. /\ IsFiniteSet(s.from..s.to)
      /\ Cardinality(s.from..s.to) = IF s.from > s.to THEN 0 ELSE s.to - s.from + 1
  BY <1>1, FS_Interval
<1> QED BY <1>1, <1>2 DEF DaySet, DaysOf

-----------------------------------------------------------------------------
(***************************************************************************)
(* Days in force.                                                          *)
(***************************************************************************)
\* A history of employment.
IsEmployment(spans) == IsFiniteSet(DOMAIN spans) /\ \A i \in DOMAIN spans : IsSpan(spans[i])

\* The days of span i inside the window.
Inside(spans, window) == [i \in DOMAIN spans |-> DaySet(spans[i]) \cap DaySet(window)]

\* daysWithin adds up the days of the spans.
LEMMA WithinIsSum ==
  ASSUME NEW spans, IsEmployment(spans), NEW window, IsSpan(window),
         NEW f, f = [i \in DOMAIN spans |-> DaysOf(Overlap(spans[i], window))]
  PROVE  /\ daysWithin(window, spans) = SumFunctionOnSet(f, DOMAIN spans)
         /\ \A i \in DOMAIN spans : /\ IsFiniteSet(Inside(spans, window)[i])
                                    /\ f[i] = Cardinality(Inside(spans, window)[i])
                                    /\ f[i] \in Nat
<1> DEFINE D == DOMAIN spans
           Unfolds(h) == h = [s \in SUBSET D |-> IF s = {} THEN 0
                     ELSE DaysOf(Overlap(spans[CHOOSE x \in s : TRUE], window))
                            + h[s \ {CHOOSE x \in s : TRUE}]]
           iter == CHOOSE h : Unfolds(h)
<1>1. daysWithin(window, spans) = iter[D]
  BY DEF daysWithin, MapThenSumSet, MapThenFoldSet
<1>2. \A i \in D : /\ IsFiniteSet(Inside(spans, window)[i])
                   /\ f[i] = Cardinality(Inside(spans, window)[i])
                   /\ f[i] \in Nat
  BY OverlapDays, DaysAreCounted DEF IsEmployment, Inside
<1>3. IsFiniteSet(D) /\ \A i \in D : f[i] \in Int
  BY <1>2 DEF IsEmployment
<1>4. PICK g : AddsUp(g, f, D)
  BY <1>3, SumUnfolds
<1>5. \A h : AddsUp(h, f, D) <=> Unfolds(h)
  <2>1. \A s \in SUBSET D : s # {} =>
          f[CHOOSE x \in s : TRUE] = DaysOf(Overlap(spans[CHOOSE x \in s : TRUE], window))
    OBVIOUS
  <2> SUFFICES ASSUME NEW h
               PROVE  [s \in SUBSET D |-> IF s = {} THEN 0
                         ELSE f[CHOOSE x \in s : TRUE] + h[s \ {CHOOSE x \in s : TRUE}]]
                      = [s \in SUBSET D |-> IF s = {} THEN 0
                          ELSE DaysOf(Overlap(spans[CHOOSE x \in s : TRUE], window))
                                 + h[s \ {CHOOSE x \in s : TRUE}]]
    BY DEF AddsUp
  <2> HIDE DEF D
  <2> QED BY <2>1
<1>6. AddsUp(iter, f, D)
  <2> HIDE DEF Unfolds
  <2> QED BY <1>4, <1>5
<1> HIDE DEF iter
<1> QED BY <1>1, <1>2, <1>3, <1>6, SumUnfolds

\* daysInForce adds them up for the part of the assignment in the period.
LEMMA ForceIsWithin ==
  ASSUME NEW a, IsSpan(a), NEW window, IsSpan(window), NEW spans, IsEmployment(spans)
  PROVE  daysInForce(a, window, spans) = daysWithin(Overlap(a, window), spans)
<1> DEFINE slice == Overlap(a, window)
           f == [i \in DOMAIN spans |-> DaysOf(Overlap(spans[i], slice))]
<1>1. IsSpan(slice)
  BY OverlapDays
<1>2. CASE DaysOf(slice) = 0
  <2>1. DaySet(slice) = {}
    BY <1>1, <1>2 DEF DaysOf, DaySet, IsSpan
  <2>2. \A i \in DOMAIN spans : Inside(spans, slice)[i] = {}
    BY <2>1 DEF Inside
  <2>3. \A i \in DOMAIN spans : f[i] = 0
    <3>1. \A i \in DOMAIN spans : f[i] = Cardinality(Inside(spans, slice)[i])
      <4> HIDE DEF slice
      <4> QED BY <1>1, WithinIsSum
    <3> QED BY <2>2, <3>1, FS_EmptySet
  <2>4. SumFunctionOnSet(f, DOMAIN spans) = 0
    <3> HIDE DEF f
    <3> QED BY <2>3, SumZero DEF IsEmployment
  <2>5. daysWithin(slice, spans) = 0
    <3> HIDE DEF slice
    <3> QED BY <1>1, <2>4, WithinIsSum
  <2> QED BY <1>2, <2>5 DEF daysInForce
<1>3. CASE DaysOf(slice) # 0
  BY <1>3 DEF daysInForce
<1> QED BY <1>2, <1>3

\* The days of the window on which the employee was employed.
Employed(spans, window) ==
  {d \in DaySet(window) : \E i \in DOMAIN spans : Covers(spans[i], d)}

LEMMA EmployedIsUnion ==
  ASSUME NEW spans, IsEmployment(spans), NEW window, IsSpan(window)
  PROVE  /\ Employed(spans, window) = UNION {Inside(spans, window)[i] : i \in DOMAIN spans}
         /\ IsFiniteSet(Employed(spans, window))
<1>1. \A i \in DOMAIN spans : \A d \in Int : Covers(spans[i], d) <=> d \in DaySet(spans[i])
  BY DEF IsEmployment, IsSpan, Covers, DaySet
<1>2. DaySet(window) \subseteq Int /\ IsFiniteSet(DaySet(window))
  BY DaysAreCounted DEF DaySet
<1>3. \A i \in DOMAIN spans : \A d \in DaySet(window) :
         Covers(spans[i], d) <=> d \in Inside(spans, window)[i]
  BY <1>1, <1>2 DEF Inside
<1>4. \A i \in DOMAIN spans : Inside(spans, window)[i] \subseteq DaySet(window)
  BY DEF Inside
<1>5. IsFiniteSet(Employed(spans, window))
  BY <1>2, FS_Subset DEF Employed
<1> QED BY <1>3, <1>4, <1>5 DEF Employed

\* Spans of employment that never overlap.
Disjoint(spans) ==
  \A i, j \in DOMAIN spans : i # j => DaySet(spans[i]) \cap DaySet(spans[j]) = {}

\* Over spans that never overlap, the days in force are the days employed.
LEMMA DisjointForce ==
  ASSUME NEW spans, IsEmployment(spans), Disjoint(spans), NEW window, IsSpan(window)
  PROVE  daysWithin(window, spans) = Cardinality(Employed(spans, window))
<1> DEFINE D == DOMAIN spans
           f == [i \in D |-> DaysOf(Overlap(spans[i], window))]
           in == Inside(spans, window)
           Days(T) == UNION {in[i] : i \in T}
           Good == {T \in SUBSET D : IsFiniteSet(Days(T)) /\ SumFunctionOnSet(f, T) = Cardinality(Days(T))}
<1>1. /\ daysWithin(window, spans) = SumFunctionOnSet(f, D)
      /\ \A i \in D : IsFiniteSet(in[i]) /\ f[i] = Cardinality(in[i]) /\ f[i] \in Nat
  <2> HIDE DEF in
  <2> QED BY WithinIsSum DEF in
<1>2. \A i, j \in D : i # j => in[i] \cap in[j] = {}
  BY DEF Inside, Disjoint
<1>3. IsFiniteSet(D)
  BY DEF IsEmployment
<1> HIDE DEF f, in
<1>4. {} \in Good
  <2>1. Days({}) = {}
    OBVIOUS
  <2> QED BY <2>1, SumEmpty, FS_EmptySet
<1>5. ASSUME NEW T \in Good, NEW x \in D \ T PROVE T \cup {x} \in Good
  <2>1. IsFiniteSet(T) /\ T \in SUBSET D
    BY <1>3, FS_Subset
  <2>2. Days(T \cup {x}) = Days(T) \cup in[x]
    OBVIOUS
  <2>3. Days(T) \cap in[x] = {}
    BY <1>2, <2>1
  <2>4. IsFiniteSet(Days(T)) /\ IsFiniteSet(in[x])
    BY <1>1
  <2> HIDE DEF Days
  <2>5. /\ IsFiniteSet(Days(T \cup {x}))
        /\ Cardinality(Days(T \cup {x})) = Cardinality(Days(T)) + Cardinality(in[x])
    <3>1. /\ IsFiniteSet(Days(T) \cup in[x])
          /\ Cardinality(Days(T) \cup in[x])
               = Cardinality(Days(T)) + Cardinality(in[x]) - Cardinality(Days(T) \cap in[x])
      BY <2>4, FS_Union
    <3>2. Cardinality(Days(T)) \in Nat /\ Cardinality(in[x]) \in Nat
      BY <2>4, FS_CardinalityType
    <3>3. Cardinality(Days(T) \cap in[x]) = 0
      BY <2>3, FS_EmptySet
    <3>4. /\ Cardinality(Days(T \cup {x})) = Cardinality(Days(T) \cup in[x])
          /\ IsFiniteSet(Days(T \cup {x}))
      BY <2>2, <3>1
    <3>5. Cardinality(Days(T) \cup in[x]) = Cardinality(Days(T)) + Cardinality(in[x]) - 0
      BY <3>1, <3>3
    <3> QED BY <3>2, <3>4, <3>5
  <2>6. SumFunctionOnSet(f, T \cup {x}) = f[x] + SumFunctionOnSet(f, T)
    <3>1. \A y \in T : f[y] \in Int
      BY <1>1, <2>1
    <3>2. x \notin T /\ f[x] \in Int
      BY <1>1
    <3> QED BY <2>1, <3>1, <3>2, SumAdd
  <2>7. f[x] = Cardinality(in[x]) /\ f[x] \in Nat /\ SumFunctionOnSet(f, T) = Cardinality(Days(T))
    BY <1>1
  <2>8. Cardinality(Days(T)) \in Nat
    BY <2>4, FS_CardinalityType
  <2> QED BY <2>1, <2>5, <2>6, <2>7, <2>8
<1>6. D \in Good
  <2>1. Good \in SUBSET (SUBSET D)
    OBVIOUS
  <2> HIDE DEF Good
  <2> QED BY <1>3, <1>4, <1>5, <2>1, FiniteInduction
<1>7. Employed(spans, window) = Days(D)
  BY EmployedIsUnion DEF in
<1> QED BY <1>1, <1>6, <1>7

\* Over two spans, the days of both are counted twice.
LEMMA TwoSpansForce ==
  ASSUME NEW one, IsSpan(one), NEW two, IsSpan(two), NEW window, IsSpan(window),
         NEW spans, spans = <<one, two>>
  PROVE  daysWithin(window, spans)
           = Cardinality(Employed(spans, window)) + DaysOf(Overlap(Overlap(one, two), window))
<1> DEFINE f == [i \in DOMAIN spans |-> DaysOf(Overlap(spans[i], window))]
           A == DaySet(one) \cap DaySet(window)
           B == DaySet(two) \cap DaySet(window)
<1>1. DOMAIN spans = {1, 2} /\ spans[1] = one /\ spans[2] = two
  OBVIOUS
<1>2. IsFiniteSet(DOMAIN spans) /\ IsEmployment(spans)
  <2>1. IsFiniteSet({1, 2})
    <3>1. {1, 2} = {1} \cup {2} /\ IsFiniteSet({1})
      BY FS_Singleton
    <3> QED BY <3>1, FS_AddElement
  <2> QED BY <1>1, <2>1 DEF IsEmployment
<1>3. /\ daysWithin(window, spans) = SumFunctionOnSet(f, DOMAIN spans)
      /\ \A i \in DOMAIN spans : f[i] \in Nat
      /\ f[1] = Cardinality(A) /\ f[2] = Cardinality(B) /\ IsFiniteSet(A) /\ IsFiniteSet(B)
  <2>1. Inside(spans, window)[1] = A /\ Inside(spans, window)[2] = B
    BY <1>1 DEF Inside
  <2>2. 1 \in DOMAIN spans /\ 2 \in DOMAIN spans
    BY <1>1
  <2>3. /\ daysWithin(window, spans) = SumFunctionOnSet(f, DOMAIN spans)
        /\ \A i \in DOMAIN spans : /\ IsFiniteSet(Inside(spans, window)[i])
                                   /\ f[i] = Cardinality(Inside(spans, window)[i])
                                   /\ f[i] \in Nat
    BY <1>2, WithinIsSum
  <2> HIDE DEF f
  <2> QED BY <2>1, <2>2, <2>3
<1> HIDE DEF f
<1>4. SumFunctionOnSet(f, DOMAIN spans) = f[1] + f[2]
  <2>1. f[1] \in Int /\ f[2] \in Int /\ 1 # 2
    BY <1>1, <1>3
  <2>2. SumFunctionOnSet(f, {1, 2}) = f[1] + f[2]
    BY <2>1, SumOfPair, Zenon
  <2> QED BY <1>1, <2>2
<1>5. Employed(spans, window) = A \cup B
  <2>1. Inside(spans, window)[1] = A /\ Inside(spans, window)[2] = B
    BY <1>1 DEF Inside
  <2> QED BY <1>1, <1>2, <2>1, EmployedIsUnion
<1>6. Cardinality(A \cup B) = Cardinality(A) + Cardinality(B) - Cardinality(A \cap B)
  BY <1>3, FS_Union
<1>7. DaysOf(Overlap(Overlap(one, two), window)) = Cardinality(A \cap B)
  <2>1. A \cap B = DaySet(Overlap(Overlap(one, two), window))
    BY OverlapDays
  <2> QED BY <2>1, OverlapDays, DaysAreCounted
<1>8. Cardinality(A) \in Nat /\ Cardinality(B) \in Nat /\ Cardinality(A \cap B) \in Nat
  <2>1. IsFiniteSet(A \cap B)
    BY <1>3, FS_Subset
  <2> QED BY <1>3, <2>1, FS_CardinalityType
<1> HIDE DEF A, B
<1>9. daysWithin(window, spans) = Cardinality(A) + Cardinality(B)
  BY <1>3, <1>4
<1>10. Cardinality(Employed(spans, window))
         = Cardinality(A) + Cardinality(B) - Cardinality(A \cap B)
  BY <1>5, <1>6
<1> QED BY <1>7, <1>8, <1>9, <1>10

-----------------------------------------------------------------------------
(***************************************************************************)
(* Counting the frozen attendance.                                         *)
(***************************************************************************)
\* The rows that count.
Counted(rows, slice, spans) ==
  {row \in rows : Covers(slice, row.day) /\ \E i \in DOMAIN spans : Covers(spans[i], row.day)}

\* quantityFor adds up what they contribute.
LEMMA QuantityIsSum ==
  ASSUME NEW rows, IsFiniteSet(rows), NEW source, \A row \in rows : Contribution(source, row) \in Int,
         NEW slice, NEW spans, NEW f, f = [row \in rows |-> Contribution(source, row)]
  PROVE  quantityFor(rows, source, slice, spans) = SumFunctionOnSet(f, Counted(rows, slice, spans))
<1> DEFINE C == Counted(rows, slice, spans)
           Unfolds(h) == h = [s \in SUBSET C |-> IF s = {} THEN 0
                     ELSE Contribution(source, CHOOSE x \in s : TRUE)
                            + h[s \ {CHOOSE x \in s : TRUE}]]
           iter == CHOOSE h : Unfolds(h)
<1>1. quantityFor(rows, source, slice, spans) = iter[C]
  BY DEF quantityFor, MapThenSumSet, MapThenFoldSet, Counted
<1>2. C \in SUBSET rows /\ IsFiniteSet(C)
  BY FS_Subset DEF Counted
<1>3. \A row \in C : f[row] \in Int
  BY <1>2
<1>4. PICK g : AddsUp(g, f, C)
  BY <1>2, <1>3, SumUnfolds
<1>5. \A h : AddsUp(h, f, C) <=> Unfolds(h)
  <2>1. \A s \in SUBSET C : s # {} =>
          f[CHOOSE x \in s : TRUE] = Contribution(source, CHOOSE x \in s : TRUE)
    BY <1>2
  <2> HIDE DEF C
  <2> DEFINE summed(h) == [s \in SUBSET C |-> IF s = {} THEN 0
                  ELSE f[CHOOSE x \in s : TRUE] + h[s \ {CHOOSE x \in s : TRUE}]]
             folded(h) == [s \in SUBSET C |-> IF s = {} THEN 0
                   ELSE Contribution(source, CHOOSE x \in s : TRUE)
                          + h[s \ {CHOOSE x \in s : TRUE}]]
  <2>2. ASSUME NEW h PROVE summed(h) = folded(h)
    BY <2>1
  <2>3. ASSUME NEW h PROVE AddsUp(h, f, C) <=> h = summed(h)
    BY DEF AddsUp
  <2>4. ASSUME NEW h PROVE Unfolds(h) <=> h = folded(h)
    OBVIOUS
  <2> HIDE DEF summed, folded, Unfolds
  <2> QED BY <2>2, <2>3, <2>4
<1>6. AddsUp(iter, f, C)
  <2> HIDE DEF Unfolds
  <2> QED BY <1>4, <1>5
<1> HIDE DEF iter, C
<1> QED BY <1>1, <1>2, <1>3, <1>6, SumUnfolds DEF C

\* Every day of the slice has one row, and it was attended.
AttendedDaily(rows, slice) ==
  /\ IsFiniteSet(rows)
  /\ \A row \in rows : row.day \in Int
  /\ \A d \in DaySet(slice) : \E row \in rows : row.day = d
  /\ \A row \in rows : row.day \in DaySet(slice) => row.status = "attended"
  /\ \A r, q \in rows : r.day = q.day /\ r.day \in DaySet(slice) => r = q

\* Attended every day, a month counts the days employed.
LEMMA AttendedIsEmployed ==
  ASSUME NEW slice, IsSpan(slice), NEW spans, IsEmployment(spans),
         NEW rows, AttendedDaily(rows, slice)
  PROVE  quantityFor(rows, "attendedDays", slice, spans) = Cardinality(Employed(spans, slice))
<1> DEFINE C == Counted(rows, slice, spans)
           E == Employed(spans, slice)
           f == [row \in rows |-> Contribution("attendedDays", row)]
           day == [row \in C |-> row.day]
<1>1. \A row \in rows : Contribution("attendedDays", row) \in Int
  BY DEF Contribution
<1>2. IsFiniteSet(rows) /\ C \in SUBSET rows /\ IsFiniteSet(C)
  BY FS_Subset DEF AttendedDaily, Counted
<1>3. quantityFor(rows, "attendedDays", slice, spans) = SumFunctionOnSet(f, C)
  BY <1>1, <1>2, QuantityIsSum
<1>4. \A row \in rows : Covers(slice, row.day) <=> row.day \in DaySet(slice)
  BY DEF AttendedDaily, IsSpan, Covers, DaySet
<1>5. \A row \in C : f[row] = 1
  BY <1>4 DEF Counted, AttendedDaily, Contribution
<1>6. SumFunctionOnSet(f, C) = Cardinality(C)
  <2> HIDE DEF f, C
  <2> QED BY <1>2, <1>5, SumOnes
<1>7. day \in Bijection(C, E)
  <2>1. \A row \in C : row \in rows /\ row.day \in E
    BY <1>4 DEF Counted, Employed
  <2>2. \A r, q \in C : r.day = q.day => r = q
    BY <2>1 DEF AttendedDaily, Employed
  <2>3. \A d \in E : \E row \in C : row.day = d
    BY <1>4 DEF AttendedDaily, Employed, Counted
  <2> HIDE DEF C, E
  <2>4. day \in [C -> E] /\ \A row \in C : day[row] = row.day
    BY <2>1
  <2> HIDE DEF day
  <2> QED BY <2>2, <2>3, <2>4 DEF Bijection, Injection, Surjection, IsInjective
<1>8. Cardinality(E) = Cardinality(C)
  <2>1. ExistsBijection(C, E)
    BY <1>7 DEF ExistsBijection
  <2> HIDE DEF C, E
  <2> QED BY <1>2, <2>1, FS_Bijection
<1> QED BY <1>3, <1>6, <1>8

\* AttendedAll is such a month.
LEMMA AttendedAllDaily ==
  ASSUME NEW window, IsSpan(window), NEW slice, IsSpan(slice), DaySet(slice) \subseteq DaySet(window)
  PROVE  AttendedDaily(AttendedAll(window), slice)
<1> DEFINE row == [d \in DaySet(window) |-> [day |-> d, status |-> "attended", minutes |-> 1]]
           rows == AttendedAll(window)
<1>1. rows = {row[d] : d \in DaySet(window)}
  BY DEF AttendedAll, DaySet
<1>2. \A d \in DaySet(window) : row[d].day = d /\ row[d].status = "attended" /\ d \in Int
  BY DEF DaySet
<1> HIDE DEF row, rows
<1>3. row \in Bijection(DaySet(window), rows)
  <2>1. row \in [DaySet(window) -> rows]
    BY <1>1 DEF row
  <2>2. \A d, e \in DaySet(window) : row[d] = row[e] => d = e
    BY <1>2
  <2>3. \A r \in rows : \E d \in DaySet(window) : row[d] = r
    BY <1>1
  <2> QED BY <2>1, <2>2, <2>3 DEF Bijection, Injection, Surjection, IsInjective
<1>4. IsFiniteSet(rows)
  <2>1. ExistsBijection(DaySet(window), rows)
    BY <1>3 DEF ExistsBijection
  <2> QED BY <2>1, DaysAreCounted, FS_Bijection
<1>5. AttendedDaily(rows, slice)
  BY <1>1, <1>2, <1>4 DEF AttendedDaily
<1> QED BY <1>5 DEF rows

\* Two spans of employment that may overlap.
LEMMA TwoSpansCounted ==
  ASSUME NEW a, IsSpan(a), NEW window, IsSpan(window), NEW one, IsSpan(one), NEW two, IsSpan(two)
  PROVE  ProratesWhatItCounts(a, window, one, two)
<1> DEFINE slice == Overlap(a, window)
           spans == <<one, two>>
<1>1. IsSpan(slice) /\ DaySet(slice) \subseteq DaySet(window)
  BY OverlapDays
<1>2. IsEmployment(spans)
  <2>1. DOMAIN spans = {1, 2} /\ spans[1] = one /\ spans[2] = two
    OBVIOUS
  <2>2. {1, 2} = {1} \cup {2} /\ IsFiniteSet({1})
    BY FS_Singleton
  <2>3. IsFiniteSet({1, 2})
    BY <2>2, FS_AddElement
  <2> QED BY <2>1, <2>3 DEF IsEmployment
<1> HIDE DEF slice
<1>3. daysWithin(slice, spans)
        = Cardinality(Employed(spans, slice)) + DaysOf(Overlap(Overlap(one, two), slice))
  BY <1>1, TwoSpansForce
<1> HIDE DEF spans
<1>4. quantityFor(AttendedAll(window), "attendedDays", slice, spans) = Cardinality(Employed(spans, slice))
  BY <1>1, <1>2, AttendedAllDaily, AttendedIsEmployed
<1>5. daysInForce(a, window, spans) = daysWithin(slice, spans)
  BY <1>2, ForceIsWithin DEF slice
<1> QED BY <1>3, <1>4, <1>5 DEF ProratesWhatItCounts, slice, spans

\* Any number of spans that never overlap.
LEMMA DisjointCounted ==
  ASSUME NEW a, IsSpan(a), NEW window, IsSpan(window), NEW spans, IsEmployment(spans), Disjoint(spans),
         NEW rows, AttendedDaily(rows, Overlap(a, window))
  PROVE  daysInForce(a, window, spans)
           = quantityFor(rows, "attendedDays", Overlap(a, window), spans)
<1>1. IsSpan(Overlap(a, window))
  BY OverlapDays
<1> QED BY <1>1, ForceIsWithin, DisjointForce, AttendedIsEmployed

\* Prorating by days in force and counting the days attended come to the same
\* for an employee who attended every day, whatever the assignment and the
\* month: over any number of spans of employment that never overlap, which is
\* what payroll assumes of them; and over two that do they differ by the days
\* of both, which daysWithin counts twice.
THEOREM ProrationIsCounting ==
  /\ \A a, window, spans, rows :
       /\ IsSpan(a) /\ IsSpan(window) /\ IsEmployment(spans) /\ Disjoint(spans)
       /\ AttendedDaily(rows, Overlap(a, window))
       => daysInForce(a, window, spans)
            = quantityFor(rows, "attendedDays", Overlap(a, window), spans)
  /\ \A a, window, one, two :
       IsSpan(a) /\ IsSpan(window) /\ IsSpan(one) /\ IsSpan(two)
       => ProratesWhatItCounts(a, window, one, two)
  /\ Spec => []ForceIsCountedDays
<1>1. IsSpan(March) /\ \A s \in Spans(Forever) : IsSpan(s)
  BY DEF March, Months, Spans, Forever, LastDay, IsSpan
<1>2. ForceFollowsDays
  BY <1>1, TwoSpansCounted DEF ForceFollowsDays
<1>3. ForceIsCountedDays
  BY <1>2 DEF ForceIsCountedDays
<1>4. \A a, window, spans, rows :
       /\ IsSpan(a) /\ IsSpan(window) /\ IsEmployment(spans) /\ Disjoint(spans)
       /\ AttendedDaily(rows, Overlap(a, window))
       => daysInForce(a, window, spans)
            = quantityFor(rows, "attendedDays", Overlap(a, window), spans)
  BY DisjointCounted
<1>5. \A a, window, one, two :
       IsSpan(a) /\ IsSpan(window) /\ IsSpan(one) /\ IsSpan(two)
       => ProratesWhatItCounts(a, window, one, two)
  BY TwoSpansCounted
<1> QED BY <1>3, <1>4, <1>5, PTL

-----------------------------------------------------------------------------
(***************************************************************************)
(* The one rounding of a line.                                             *)
(***************************************************************************)
\* Math.round: to the nearest, and half a unit goes up.
LEMMA RoundedBounds ==
  ASSUME NEW num \in Nat, NEW den \in Nat \ {0}, NEW q, q = Rounded(num, den)
  PROVE  q \in Nat /\ 2 * (den * q) <= 2 * num + den /\ 2 * num + den < 2 * (den * q) + 2 * den
<1> DEFINE a == 2 * num + den
           b == 2 * den
<1>1. a \in Nat /\ b \in Nat /\ b >= 1
  OBVIOUS
<1>2. q = a \div b
  BY DEF Rounded
<1> HIDE DEF a, b
<1>3. q \in Nat /\ a - q * b \in 0..(b - 1)
  BY <1>1, <1>2
<1>4. q * b = 2 * (den * q)
  BY <1>3 DEF b
<1> QED BY <1>1, <1>3, <1>4 DEF a, b

\* A product with a bounded factor.
LEMMA ProductBound ==
  ASSUME NEW n \in Nat \ {0}, NEW k \in Int, NEW c \in Int, n * k < c * n + n
  PROVE  k <= c
<1> SUFFICES ASSUME k >= c + 1 PROVE FALSE
  OBVIOUS
<1>1. n * k >= n * (c + 1)
  BY Z3
<1>2. n * (c + 1) = c * n + n
  OBVIOUS
<1> QED BY <1>1, <1>2

\* Rounding two parts and rounding their sum differ by at most a unit.
LEMMA RoundedSum ==
  ASSUME NEW x \in Nat, NEW y \in Nat, NEW n \in Nat \ {0}
  PROVE  Abs(Rounded(x + y, n) - (Rounded(x, n) + Rounded(y, n))) <= 1
<1>1. PICK p, q, r : p = Rounded(x, n) /\ q = Rounded(y, n) /\ r = Rounded(x + y, n)
  OBVIOUS
<1>2. /\ p \in Nat /\ 2 * (n * p) <= 2 * x + n /\ 2 * x + n < 2 * (n * p) + 2 * n
      /\ q \in Nat /\ 2 * (n * q) <= 2 * y + n /\ 2 * y + n < 2 * (n * q) + 2 * n
      /\ r \in Nat /\ 2 * (n * r) <= 2 * (x + y) + n /\ 2 * (x + y) + n < 2 * (n * r) + 2 * n
  <2>1. x + y \in Nat
    OBVIOUS
  <2> QED BY <1>1, <2>1, RoundedBounds
<1>3. /\ n * (p + q - r) = n * p + n * q - n * r
      /\ n * (r - (p + q)) = n * r - n * p - n * q
  BY <1>2
<1>4. /\ n * p \in Int /\ n * q \in Int /\ n * r \in Int
  BY <1>2
<1>5. /\ n * (p + q - r) < 1 * n + n
      /\ n * (r - (p + q)) < 1 * n + n
  <2> DEFINE P == n * p
             Q == n * q
             R == n * r
  <2>1. P \in Int /\ Q \in Int /\ R \in Int
    BY <1>4
  <2>2. /\ 2 * P <= 2 * x + n /\ 2 * x + n < 2 * P + 2 * n
        /\ 2 * Q <= 2 * y + n /\ 2 * y + n < 2 * Q + 2 * n
        /\ 2 * R <= 2 * (x + y) + n /\ 2 * (x + y) + n < 2 * R + 2 * n
    BY <1>2
  <2> HIDE DEF P, Q, R
  <2>3. P + Q - R < 1 * n + n /\ R - P - Q < 1 * n + n
    BY <2>1, <2>2
  <2> QED BY <1>3, <2>3 DEF P, Q, R
<1>6. p + q - r <= 1 /\ r - (p + q) <= 1
  <2>1. p + q - r \in Int /\ r - (p + q) \in Int
    BY <1>2
  <2> QED BY <1>5, <2>1, ProductBound
<1>7. Abs(r - (p + q)) <= 1
  BY <1>2, <1>6 DEF Abs
<1> QED BY <1>1, <1>7

-----------------------------------------------------------------------------
(***************************************************************************)
(* Cutting an assignment in two.                                           *)
(***************************************************************************)
\* Span c is the days of a and the days of b.
CutInto(c, a, b) ==
  /\ IsSpan(a) /\ IsSpan(b) /\ IsSpan(c)
  /\ DaySet(c) = DaySet(a) \cup DaySet(b)
  /\ DaySet(a) \cap DaySet(b) = {}

LEMMA SlicesAreCut ==
  ASSUME NEW a, NEW b, NEW c, CutInto(c, a, b), NEW window, IsSpan(window)
  PROVE  CutInto(Overlap(c, window), Overlap(a, window), Overlap(b, window))
<1>1. /\ IsSpan(Overlap(c, window)) /\ DaySet(Overlap(c, window)) = DaySet(c) \cap DaySet(window)
      /\ IsSpan(Overlap(a, window)) /\ DaySet(Overlap(a, window)) = DaySet(a) \cap DaySet(window)
      /\ IsSpan(Overlap(b, window)) /\ DaySet(Overlap(b, window)) = DaySet(b) \cap DaySet(window)
  BY OverlapDays DEF CutInto
<1> QED BY <1>1 DEF CutInto

\* Days in force are a number of days.
LEMMA ForceType ==
  ASSUME NEW a, IsSpan(a), NEW window, IsSpan(window), NEW spans, IsEmployment(spans)
  PROVE  /\ daysInForce(a, window, spans) \in Nat
         /\ daysInForce(a, window, spans) = 0 => Employed(spans, Overlap(a, window)) = {}
<1> DEFINE slice == Overlap(a, window)
           f == [i \in DOMAIN spans |-> DaysOf(Overlap(spans[i], slice))]
           in == Inside(spans, slice)
<1>1. IsSpan(slice)
  BY OverlapDays
<1>2. daysInForce(a, window, spans) = daysWithin(slice, spans)
  BY ForceIsWithin
<1> HIDE DEF slice
<1>3. /\ daysWithin(slice, spans) = SumFunctionOnSet(f, DOMAIN spans)
      /\ \A i \in DOMAIN spans : IsFiniteSet(in[i]) /\ f[i] = Cardinality(in[i]) /\ f[i] \in Nat
  <2> HIDE DEF f, in
  <2> QED BY <1>1, WithinIsSum DEF f, in
<1>4. Employed(spans, slice) = UNION {in[i] : i \in DOMAIN spans}
  BY <1>1, EmployedIsUnion
<1> HIDE DEF f, in
<1>5. /\ SumFunctionOnSet(f, DOMAIN spans) \in Nat
      /\ \A i \in DOMAIN spans : f[i] <= SumFunctionOnSet(f, DOMAIN spans)
  BY <1>3, SumNat DEF IsEmployment
<1>6. ASSUME SumFunctionOnSet(f, DOMAIN spans) = 0 PROVE Employed(spans, slice) = {}
  <2>1. \A i \in DOMAIN spans : f[i] = 0
    BY <1>3, <1>5, <1>6
  <2>2. \A i \in DOMAIN spans : in[i] = {}
    BY <1>3, <2>1, FS_EmptySet
  <2> QED BY <1>4, <2>2
<1> QED BY <1>2, <1>3, <1>5, <1>6 DEF slice

\* Days in force add up.
LEMMA ForceAdds ==
  ASSUME NEW a, NEW b, NEW c, CutInto(c, a, b), NEW window, IsSpan(window),
         NEW spans, IsEmployment(spans)
  PROVE  daysInForce(c, window, spans) = daysInForce(a, window, spans) + daysInForce(b, window, spans)
<1> DEFINE sum(s) == SumFunctionOnSet([i \in DOMAIN spans |-> DaysOf(Overlap(spans[i], s))], DOMAIN spans)
           days(s) == [i \in DOMAIN spans |-> DaysOf(Overlap(spans[i], s))]
           A == Overlap(a, window)
           B == Overlap(b, window)
           C == Overlap(c, window)
<1>1. CutInto(C, A, B)
  BY SlicesAreCut
<1>2. /\ daysInForce(a, window, spans) = daysWithin(A, spans)
      /\ daysInForce(b, window, spans) = daysWithin(B, spans)
      /\ daysInForce(c, window, spans) = daysWithin(C, spans)
  BY ForceIsWithin DEF CutInto
<1> HIDE DEF A, B, C
<1>3. ASSUME NEW s, IsSpan(s)
      PROVE  /\ daysWithin(s, spans) = SumFunctionOnSet(days(s), DOMAIN spans)
             /\ \A i \in DOMAIN spans : /\ IsFiniteSet(Inside(spans, s)[i])
                                        /\ days(s)[i] = Cardinality(Inside(spans, s)[i])
                                        /\ days(s)[i] \in Nat
  <2> HIDE DEF days
  <2> QED BY <1>3, WithinIsSum DEF days
<1>4. IsSpan(A) /\ IsSpan(B) /\ IsSpan(C)
  BY <1>1 DEF CutInto
<1> HIDE DEF days
<1>5. ASSUME NEW i \in DOMAIN spans PROVE days(C)[i] = days(A)[i] + days(B)[i]
  <2> DEFINE S == Inside(spans, A)[i]
             T == Inside(spans, B)[i]
  <2>1. Inside(spans, C)[i] = S \cup T /\ S \cap T = {}
    BY <1>1 DEF CutInto, Inside
  <2>2. IsFiniteSet(S) /\ days(A)[i] = Cardinality(S) /\ days(A)[i] \in Nat
    BY <1>3, <1>4
  <2>3. IsFiniteSet(T) /\ days(B)[i] = Cardinality(T) /\ days(B)[i] \in Nat
    BY <1>3, <1>4
  <2>4. days(C)[i] = Cardinality(Inside(spans, C)[i])
    BY <1>3, <1>4
  <2> HIDE DEF S, T
  <2>5. Cardinality(S \cup T) = Cardinality(S) + Cardinality(T) - Cardinality(S \cap T)
    BY <2>2, <2>3, FS_Union
  <2>6. Cardinality(S \cap T) = 0
    BY <2>1, FS_EmptySet
  <2>7. days(C)[i] = days(A)[i] + days(B)[i] - 0
    BY <2>1, <2>2, <2>3, <2>4, <2>5, <2>6
  <2> QED BY <2>2, <2>3, <2>7
<1>6. SumFunctionOnSet(days(C), DOMAIN spans)
        = SumFunctionOnSet(days(A), DOMAIN spans) + SumFunctionOnSet(days(B), DOMAIN spans)
  <2>1. \A i \in DOMAIN spans : /\ days(A)[i] \in Int /\ days(B)[i] \in Int
                                /\ days(C)[i] = days(A)[i] + days(B)[i]
    BY <1>3, <1>4, <1>5
  <2>2. IsFiniteSet(DOMAIN spans)
    BY DEF IsEmployment
  <2> QED BY <2>1, <2>2, SumPlus
<1> QED BY <1>2, <1>3, <1>4, <1>6

\* The frozen attendance: a finite set of rows.
IsAttendance(rows) ==
  IsFiniteSet(rows) /\ \A row \in rows : row.day \in Int /\ row.minutes \in Nat

Sources == {"attendedDays", "absentDays", "leaveDays", "minutes"}

LEMMA ContributionType ==
  ASSUME NEW rows, IsAttendance(rows), NEW source \in Sources
  PROVE  \A row \in rows : Contribution(source, row) \in Nat
BY DEF IsAttendance, Sources, Contribution

\* What is counted is a number, and nothing is counted out of force.
LEMMA QuantityType ==
  ASSUME NEW rows, IsAttendance(rows), NEW source \in Sources,
         NEW slice, IsSpan(slice), NEW spans, IsEmployment(spans)
  PROVE  /\ quantityFor(rows, source, slice, spans) \in Nat
         /\ Employed(spans, slice) = {} => quantityFor(rows, source, slice, spans) = 0
<1> DEFINE f == [row \in rows |-> Contribution(source, row)]
           C == Counted(rows, slice, spans)
<1>1. \A row \in rows : f[row] \in Nat /\ Contribution(source, row) \in Int
  BY ContributionType
<1>2. IsFiniteSet(rows) /\ C \in SUBSET rows /\ IsFiniteSet(C)
  BY FS_Subset DEF IsAttendance, Counted
<1>3. quantityFor(rows, source, slice, spans) = SumFunctionOnSet(f, C)
  <2> HIDE DEF C
  <2> QED BY <1>1, <1>2, QuantityIsSum DEF C
<1> HIDE DEF f
<1>4. SumFunctionOnSet(f, C) \in Nat
  <2> HIDE DEF C
  <2>1. \A row \in C : f[row] \in Nat
    BY <1>1, <1>2
  <2> QED BY <1>2, <2>1, SumNat
<1>5. Employed(spans, slice) = {} => C = {}
  BY DEF Employed, Counted, IsAttendance, Covers, DaySet, IsSpan
<1> QED BY <1>3, <1>4, <1>5, SumEmpty

\* What is counted adds up.
LEMMA QuantityAdds ==
  ASSUME NEW a, NEW b, NEW c, CutInto(c, a, b), NEW rows, IsAttendance(rows),
         NEW source \in Sources, NEW spans
  PROVE  quantityFor(rows, source, c, spans)
           = quantityFor(rows, source, a, spans) + quantityFor(rows, source, b, spans)
<1> DEFINE f == [row \in rows |-> Contribution(source, row)]
           In(s) == Counted(rows, s, spans)
<1>1. \A row \in rows : f[row] \in Int /\ Contribution(source, row) \in Int
  BY ContributionType
<1>2. ASSUME NEW s PROVE In(s) \in SUBSET rows /\ IsFiniteSet(In(s))
  BY FS_Subset DEF IsAttendance, Counted
<1>3. ASSUME NEW s PROVE quantityFor(rows, source, s, spans) = SumFunctionOnSet(f, In(s))
  BY <1>1, QuantityIsSum DEF IsAttendance
<1>4. In(a) \in SUBSET In(c) /\ In(c) \ In(a) = In(b)
  <2>1. \A row \in rows : /\ Covers(a, row.day) <=> row.day \in DaySet(a)
                          /\ Covers(b, row.day) <=> row.day \in DaySet(b)
                          /\ Covers(c, row.day) <=> row.day \in DaySet(c)
    BY DEF IsAttendance, CutInto, IsSpan, Covers, DaySet
  <2>2. \A row \in rows : /\ Covers(c, row.day) <=> Covers(a, row.day) \/ Covers(b, row.day)
                          /\ ~(Covers(a, row.day) /\ Covers(b, row.day))
    BY <2>1 DEF CutInto
  <2> QED BY <2>2 DEF Counted
<1> HIDE DEF f, In
<1>5. SumFunctionOnSet(f, In(c)) = SumFunctionOnSet(f, In(a)) + SumFunctionOnSet(f, In(c) \ In(a))
  <2>1. \A row \in In(c) : f[row] \in Int
    BY <1>1, <1>2
  <2> QED BY <1>2, <1>4, <2>1, SumUnion
<1> QED BY <1>3, <1>4, <1>5

-----------------------------------------------------------------------------
(***************************************************************************)
(* Lines and totals.                                                       *)
(***************************************************************************)
\* sumMinorUnits of no value, or of one.
LEMMA SumOfNone == sumMinorUnits(<<>>) = 0
<1> DEFINE seq == <<>>
           Unfolds(h) == h = [s \in SUBSET (DOMAIN seq) |-> IF s = {} THEN 0
                               ELSE h[s \ {Max(s)}] + seq[Max(s)]]
           iter == CHOOSE h : Unfolds(h)
           g == [s \in SUBSET (DOMAIN seq) |-> 0]
<1>1. sumMinorUnits(seq) = iter[DOMAIN seq]
  BY DEF sumMinorUnits, FoldLeft, MapThenFoldSet
<1>2. DOMAIN seq = {}
  OBVIOUS
<1> HIDE DEF seq
<1>3. Unfolds(g)
  BY <1>2
<1>4. Unfolds(iter)
  <2> HIDE DEF Unfolds, g
  <2> QED BY <1>3
<1> HIDE DEF iter
<1>5. iter[DOMAIN seq] = 0
  BY <1>2, <1>4
<1> QED BY <1>1, <1>5 DEF seq

LEMMA SumOfOne == ASSUME NEW x \in Int PROVE sumMinorUnits(<<x>>) = x
<1> DEFINE seq == <<x>>
           Unfolds(h) == h = [s \in SUBSET (DOMAIN seq) |-> IF s = {} THEN 0
                               ELSE h[s \ {Max(s)}] + seq[Max(s)]]
           iter == CHOOSE h : Unfolds(h)
           g == [s \in SUBSET (DOMAIN seq) |-> IF s = {} THEN 0 ELSE x]
<1>1. sumMinorUnits(seq) = iter[DOMAIN seq]
  BY DEF sumMinorUnits, FoldLeft, MapThenFoldSet
<1>2. DOMAIN seq = {1} /\ seq[1] = x
  OBVIOUS
<1> HIDE DEF seq
<1>3. Max({1}) = 1
  BY DEF Max
<1>4. \A s \in SUBSET (DOMAIN seq) : s = {} \/ s = {1}
  BY <1>2
<1>5. Unfolds(g)
  <2>1. \A s \in SUBSET (DOMAIN seq) :
           g[s] = IF s = {} THEN 0 ELSE g[s \ {Max(s)}] + seq[Max(s)]
    <3>1. g[{}] = 0 /\ g[{1}] = x /\ {1} \ {1} = {}
      BY <1>2
    <3>2. g[{1}] = g[{1} \ {Max({1})}] + seq[Max({1})]
      BY <1>2, <1>3, <3>1
    <3> HIDE DEF g
    <3> QED BY <1>4, <3>1, <3>2
  <2>2. g = [s \in SUBSET (DOMAIN seq) |-> g[s]]
    OBVIOUS
  <2> HIDE DEF g
  <2> QED BY <2>1, <2>2
<1>6. Unfolds(iter)
  <2> HIDE DEF Unfolds, g
  <2> QED BY <1>5
<1> HIDE DEF iter
<1>7. iter[{}] = 0 /\ iter[{1}] = iter[{1} \ {Max({1})}] + seq[Max({1})]
  BY <1>2, <1>6
<1>8. iter[DOMAIN seq] = x
  <2>1. {1} \ {1} = {}
    OBVIOUS
  <2> QED BY <1>2, <1>3, <1>7, <2>1
<1> QED BY <1>1, <1>8 DEF seq

\* A month as computeCompensation is given it: a basic salary is recorded, it
\* has one currency, and its leave, when it is pinned, costs a number.
IsMonth(m) ==
  /\ {"window", "currency", "basic", "spans", "assignments", "adjustments", "loans",
      "leave", "attendance"} \subseteq DOMAIN m
  /\ IsSpan(m.window) /\ DaysOf(m.window) # 0
  /\ m.basic = <<m.basic[1]>> /\ m.basic[1] \in Nat
  /\ IsEmployment(m.spans)
  /\ IsFiniteSet(DOMAIN m.adjustments)
  /\ \A i \in DOMAIN m.adjustments :
       m.adjustments[i].amount \in Int /\ m.adjustments[i].currency = m.currency
  /\ IsFiniteSet(DOMAIN m.loans)
  /\ \A i \in DOMAIN m.loans : m.loans[i].amount \in Int /\ m.loans[i].currency = m.currency
  /\ \/ m.leave = <<>>
     \/ /\ m.leave = <<m.leave[1]>>
        /\ LeaveLines(m.leave[1], m.basic[1], DaysOf(m.window)) \in Int
  /\ \/ m.attendance = <<>>
     \/ m.attendance = <<m.attendance[1]>> /\ IsAttendance(m.attendance[1])

\* An assignment that month may hold.
IsItem(item, m) ==
  /\ item \in [from : Int, to : Int, basis : {"fixed", "percentOfBase", "quantity"}, amount : Nat,
               source : Sources, kind : {"earning", "deduction"}, currency : {m.currency}]
  /\ item.basis = "percentOfBase" => item.amount \in 1..100

\* What the line of an assignment adds to its total; nothing while pending.
Price(a, m) ==
  LET force == daysInForce(a, m.window, m.spans)
      period == DaysOf(m.window)
  IN  CASE a.basis = "fixed" -> Rounded(a.amount * force, period)
        [] a.basis = "percentOfBase" -> Rounded(m.basic[1] * (a.amount * force), 100 * period)
        [] a.basis = "quantity" ->
             IF m.attendance = <<>> THEN 0
             ELSE a.amount * quantityFor(m.attendance[1], a.source, Overlap(a, m.window), m.spans)

LEMMA RoundedByOne == ASSUME NEW n \in Nat PROVE Rounded(n, 1) = n
<1> DEFINE q == Rounded(n, 1)
<1>1. q \in Nat /\ 2 * (1 * q) <= 2 * n + 1 /\ 2 * n + 1 < 2 * (1 * q) + 2 * 1
  BY RoundedBounds
<1> HIDE DEF q
<1>2. q = n
  BY <1>1
<1> QED BY <1>2 DEF q

LEMMA RoundedZero == ASSUME NEW d \in Nat \ {0} PROVE Rounded(0, d) = 0
<1> DEFINE q == Rounded(0, d)
<1>1. q \in Nat /\ 2 * (d * q) <= 2 * 0 + d
  BY RoundedBounds
<1> HIDE DEF q
<1>2. d * q < 0 * d + d
  <2>1. d * q \in Int
    BY <1>1
  <2> DEFINE p == d * q
  <2>2. p \in Int /\ 2 * p <= d
    BY <1>1, <2>1
  <2> HIDE DEF p
  <2>3. p < d
    BY <2>2
  <2> QED BY <2>3 DEF p
<1>3. q <= 0
  BY <1>1, <1>2, ProductBound
<1> QED BY <1>1, <1>3 DEF q

\* A price is a number, what toLine says, and zero out of force.
LEMMA LinePrice ==
  ASSUME NEW m, IsMonth(m), NEW a, IsItem(a, m)
  PROVE  /\ Price(a, m) \in Nat
         /\ sumMinorUnits(toLine(a, m)) = Price(a, m)
         /\ daysInForce(a, m.window, m.spans) = 0 => Price(a, m) = 0
<1> DEFINE force == daysInForce(a, m.window, m.spans)
           period == DaysOf(m.window)
           slice == Overlap(a, m.window)
<1>1. IsSpan(a) /\ IsSpan(m.window) /\ IsEmployment(m.spans) /\ a.amount \in Nat /\ a.source \in Sources
  BY DEF IsItem, IsMonth, IsSpan
<1>2. force \in Nat /\ (force = 0 => Employed(m.spans, slice) = {})
  BY <1>1, ForceType
<1>3. period \in Nat \ {0} /\ m.basic[1] \in Nat
  BY DaysAreCounted DEF IsMonth
<1>4. IsSpan(slice)
  BY <1>1, OverlapDays
<1>5. toLine(a, m) =
        CASE a.basis = "fixed" -> <<Rounded(a.amount * force, period)>>
          [] a.basis = "percentOfBase" -> <<Rounded(m.basic[1] * (a.amount * force), 100 * period)>>
          [] a.basis = "quantity" ->
               [i \in DOMAIN m.attendance |->
                  Rounded(a.amount * quantityFor(m.attendance[i], a.source, slice, m.spans) * 1, 1)]
  BY DEF toLine, Scaled
<1>6. Price(a, m) =
        CASE a.basis = "fixed" -> Rounded(a.amount * force, period)
          [] a.basis = "percentOfBase" -> Rounded(m.basic[1] * (a.amount * force), 100 * period)
          [] a.basis = "quantity" ->
               IF m.attendance = <<>> THEN 0
               ELSE a.amount * quantityFor(m.attendance[1], a.source, slice, m.spans)
  BY DEF Price
<1> HIDE DEF force, period, slice
<1>7. CASE a.basis = "fixed"
  <2>1. a.amount * force \in Nat /\ (force = 0 => a.amount * force = 0)
    BY <1>1, <1>2
  <2>2. /\ Rounded(a.amount * force, period) \in Nat
        /\ force = 0 => Rounded(a.amount * force, period) = 0
    BY <1>3, <2>1, RoundedBounds, RoundedZero
  <2>3. /\ toLine(a, m) = <<Rounded(a.amount * force, period)>>
        /\ Price(a, m) = Rounded(a.amount * force, period)
    BY <1>5, <1>6, <1>7
  <2> QED BY <2>2, <2>3, SumOfOne DEF force
<1>8. CASE a.basis = "percentOfBase"
  <2> DEFINE x == m.basic[1] * (a.amount * force)
  <2>1. x \in Nat /\ (force = 0 => x = 0) /\ 100 * period \in Nat \ {0}
    <3>1. a.amount * force \in Nat /\ (force = 0 => a.amount * force = 0)
      BY <1>1, <1>2
    <3> QED BY <1>3, <3>1
  <2>2. toLine(a, m) = <<Rounded(x, 100 * period)>> /\ Price(a, m) = Rounded(x, 100 * period)
    BY <1>5, <1>6, <1>8
  <2> DEFINE d == 100 * period
  <2> HIDE DEF x
  <2>3. Rounded(x, d) \in Nat /\ (force = 0 => Rounded(x, d) = 0)
    <3>1. d \in Nat \ {0}
      BY <2>1
    <3> HIDE DEF d
    <3> QED BY <2>1, <3>1, RoundedBounds, RoundedZero
  <2> QED BY <2>2, <2>3, SumOfOne DEF force
<1>9. CASE a.basis = "quantity"
  <2>1. CASE m.attendance = <<>>
    <3>1. toLine(a, m) = <<>> /\ Price(a, m) = 0
      BY <1>5, <1>6, <1>9, <2>1
    <3> QED BY <3>1, SumOfNone
  <2>2. CASE m.attendance # <<>>
    <3> DEFINE q == quantityFor(m.attendance[1], a.source, slice, m.spans)
    <3>1. m.attendance = <<m.attendance[1]>> /\ IsAttendance(m.attendance[1])
      BY <2>2 DEF IsMonth
    <3>2. q \in Nat /\ (force = 0 => q = 0)
      BY <1>1, <1>2, <1>4, <3>1, QuantityType
    <3> DEFINE x == a.amount * q
    <3>3. x \in Nat /\ x * 1 = x /\ (force = 0 => x = 0)
      <4> HIDE DEF q
      <4> QED BY <1>1, <3>2
    <3>4. Price(a, m) = x
      BY <1>6, <1>9, <2>2
    <3>5. toLine(a, m) = [i \in DOMAIN m.attendance |->
                            Rounded(a.amount * quantityFor(m.attendance[i], a.source, slice, m.spans) * 1, 1)]
      BY <1>5, <1>9
    <3>6. DOMAIN m.attendance = {1}
      BY <3>1
    <3>7. toLine(a, m) = <<Rounded(x * 1, 1)>>
      BY <3>5, <3>6
    <3> HIDE DEF x
    <3>8. toLine(a, m) = <<x>>
      BY <3>3, <3>7, RoundedByOne
    <3> QED BY <3>3, <3>4, <3>8, SumOfOne DEF force
  <2> QED BY <2>1, <2>2
<1> QED BY <1>7, <1>8, <1>9 DEF IsItem

\* The totals of computeCompensation are sums.
Decisions(m, kind) == {i \in DOMAIN m.adjustments : m.adjustments[i].kind = kind}
Decided(m) == [i \in DOMAIN m.adjustments |-> m.adjustments[i].amount]

LEMMA DecidedIsSum ==
  ASSUME NEW m, NEW kind, IsFiniteSet(Decisions(m, kind)),
         \A i \in Decisions(m, kind) : Decided(m)[i] \in Int
  PROVE  DecidedTotal(m, kind) = SumFunctionOnSet(Decided(m), Decisions(m, kind))
<1> DEFINE f == Decided(m)
           K == {i \in DOMAIN m.adjustments : m.adjustments[i].kind = kind}
           summed(h) == [s \in SUBSET K |-> IF s = {} THEN 0
                  ELSE f[CHOOSE x \in s : TRUE] + h[s \ {CHOOSE x \in s : TRUE}]]
           folded(h) == [s \in SUBSET K |-> IF s = {} THEN 0
                  ELSE m.adjustments[CHOOSE x \in s : TRUE].amount + h[s \ {CHOOSE x \in s : TRUE}]]
           iter == CHOOSE h : h = folded(h)
<1>1. DecidedTotal(m, kind) = iter[K]
  BY DEF DecidedTotal, MapThenSumSet, MapThenFoldSet
<1>2. \A s \in SUBSET K : s # {} => f[CHOOSE x \in s : TRUE] = m.adjustments[CHOOSE x \in s : TRUE].amount
  BY DEF Decided
<1>8. IsFiniteSet(K) /\ \A i \in K : f[i] \in Int
  BY DEF Decisions
<1> HIDE DEF K, f
<1>3. ASSUME NEW h PROVE summed(h) = folded(h)
  BY <1>2
<1>4. ASSUME NEW h PROVE AddsUp(h, f, K) <=> h = summed(h)
  BY DEF AddsUp
<1>5. PICK g : AddsUp(g, f, K)
  BY <1>8, SumUnfolds
<1> HIDE DEF summed, folded
<1>6. iter = folded(iter)
  <2>1. g = folded(g)
    BY <1>3, <1>4, <1>5
  <2> QED BY <2>1
<1>7. AddsUp(iter, f, K)
  BY <1>3, <1>4, <1>6
<1> HIDE DEF iter
<1> QED BY <1>1, <1>7, <1>8, SumUnfolds DEF K, f, Decisions

Owing(m) == [i \in DOMAIN m.loans |-> m.loans[i].amount]

LEMMA LoanIsSum ==
  ASSUME NEW m, IsFiniteSet(DOMAIN m.loans), \A i \in DOMAIN m.loans : Owing(m)[i] \in Int
  PROVE  LoanTotal(m) = SumFunctionOnSet(Owing(m), DOMAIN m.loans)
<1> DEFINE f == Owing(m)
           K == DOMAIN m.loans
           summed(h) == [s \in SUBSET K |-> IF s = {} THEN 0
                  ELSE f[CHOOSE x \in s : TRUE] + h[s \ {CHOOSE x \in s : TRUE}]]
           folded(h) == [s \in SUBSET K |-> IF s = {} THEN 0
                  ELSE m.loans[CHOOSE x \in s : TRUE].amount + h[s \ {CHOOSE x \in s : TRUE}]]
           iter == CHOOSE h : h = folded(h)
<1>1. LoanTotal(m) = iter[K]
  BY DEF LoanTotal, MapThenSumSet, MapThenFoldSet
<1>2. \A s \in SUBSET K : s # {} => f[CHOOSE x \in s : TRUE] = m.loans[CHOOSE x \in s : TRUE].amount
  BY DEF Owing
<1>8. IsFiniteSet(K) /\ \A i \in K : f[i] \in Int
  BY DEF Owing
<1> HIDE DEF K, f
<1>3. ASSUME NEW h PROVE summed(h) = folded(h)
  BY <1>2
<1>4. ASSUME NEW h PROVE AddsUp(h, f, K) <=> h = summed(h)
  BY DEF AddsUp
<1>5. PICK g : AddsUp(g, f, K)
  BY <1>8, SumUnfolds
<1> HIDE DEF summed, folded
<1>6. iter = folded(iter)
  <2>1. g = folded(g)
    BY <1>3, <1>4, <1>5
  <2> QED BY <2>1
<1>7. AddsUp(iter, f, K)
  BY <1>3, <1>4, <1>6
<1> HIDE DEF iter
<1> QED BY <1>1, <1>7, <1>8, SumUnfolds DEF K, f

Assignments(m, kind) == {i \in InForce(m) : m.assignments[i].kind = kind}
AssignedPrice(m) == [i \in InForce(m) |-> sumMinorUnits(toLine(m.assignments[i], m))]

LEMMA AssignedIsSum ==
  ASSUME NEW m, NEW kind, IsFiniteSet(Assignments(m, kind)),
         \A i \in Assignments(m, kind) : AssignedPrice(m)[i] \in Int
  PROVE  AssignedTotal(m, kind) = SumFunctionOnSet(AssignedPrice(m), Assignments(m, kind))
<1> DEFINE f == AssignedPrice(m)
           K == {i \in InForce(m) : m.assignments[i].kind = kind}
           summed(h) == [s \in SUBSET K |-> IF s = {} THEN 0
                  ELSE f[CHOOSE x \in s : TRUE] + h[s \ {CHOOSE x \in s : TRUE}]]
           folded(h) == [s \in SUBSET K |-> IF s = {} THEN 0
                  ELSE sumMinorUnits(toLine(m.assignments[CHOOSE x \in s : TRUE], m)) + h[s \ {CHOOSE x \in s : TRUE}]]
           iter == CHOOSE h : h = folded(h)
<1>1. AssignedTotal(m, kind) = iter[K]
  BY DEF AssignedTotal, MapThenSumSet, MapThenFoldSet
<1>2. \A s \in SUBSET K : s # {} => f[CHOOSE x \in s : TRUE] = sumMinorUnits(toLine(m.assignments[CHOOSE x \in s : TRUE], m))
  BY DEF AssignedPrice
<1>8. IsFiniteSet(K) /\ \A i \in K : f[i] \in Int
  BY DEF Assignments
<1> HIDE DEF K, f
<1>3. ASSUME NEW h PROVE summed(h) = folded(h)
  BY <1>2
<1>4. ASSUME NEW h PROVE AddsUp(h, f, K) <=> h = summed(h)
  BY DEF AddsUp
<1>5. PICK g : AddsUp(g, f, K)
  BY <1>8, SumUnfolds
<1> HIDE DEF summed, folded
<1>6. iter = folded(iter)
  <2>1. g = folded(g)
    BY <1>3, <1>4, <1>5
  <2> QED BY <2>1
<1>7. AddsUp(iter, f, K)
  BY <1>3, <1>4, <1>6
<1> HIDE DEF iter
<1> QED BY <1>1, <1>7, <1>8, SumUnfolds DEF K, f, Assignments

\* The month with these assignments.
Filled(m, list) == [m EXCEPT !.assignments = list]

LEMMA FilledMonth ==
  ASSUME NEW m, IsMonth(m), NEW list, NEW n, n = Filled(m, list)
  PROVE  /\ n.assignments = list /\ n.window = m.window /\ n.currency = m.currency
         /\ n.basic = m.basic /\ n.spans = m.spans /\ n.adjustments = m.adjustments
         /\ n.loans = m.loans /\ n.leave = m.leave /\ n.attendance = m.attendance
         /\ IsMonth(n)
         /\ \A a : Price(a, n) = Price(a, m)
<1>1. /\ n.assignments = list /\ n.window = m.window /\ n.currency = m.currency
      /\ n.basic = m.basic /\ n.spans = m.spans /\ n.adjustments = m.adjustments
      /\ n.loans = m.loans /\ n.leave = m.leave /\ n.attendance = m.attendance
      /\ DOMAIN n = DOMAIN m
  BY DEF IsMonth, Filled
<1>2. IsMonth(n)
  BY <1>1 DEF IsMonth
<1>3. \A a : Price(a, n) = Price(a, m)
  BY <1>1 DEF Price
<1> QED BY <1>1, <1>2, <1>3

\* Assignments a month may hold.
AreItems(list, m) == IsFiniteSet(DOMAIN list) /\ \A i \in DOMAIN list : IsItem(list[i], m)

\* The lines of a kind add up to their prices.
LEMMA AssignedPrices ==
  ASSUME NEW m, IsMonth(m), NEW list, AreItems(list, m), NEW kind,
         NEW f, f = [i \in DOMAIN list |-> IF list[i].kind = kind THEN Price(list[i], m) ELSE 0]
  PROVE  AssignedTotal(Filled(m, list), kind) = SumFunctionOnSet(f, DOMAIN list)
<1> DEFINE n == Filled(m, list)
           D == DOMAIN list
           S == Assignments(n, kind)
           g == AssignedPrice(n)
<1>1. /\ n.assignments = list /\ n.window = m.window /\ n.spans = m.spans /\ n.currency = m.currency
      /\ IsMonth(n) /\ \A a : Price(a, n) = Price(a, m)
  BY FilledMonth
<1> HIDE DEF n
<1>2. /\ S = {i \in D : /\ daysInForce(list[i], m.window, m.spans) > 0
                        /\ list[i].kind = kind}
      /\ S \in SUBSET D /\ IsFiniteSet(S)
  <2>1. S = {i \in D : daysInForce(list[i], m.window, m.spans) > 0 /\ list[i].kind = kind}
    BY <1>1 DEF InForce, Assignments
  <2> QED BY <2>1, FS_Subset DEF AreItems
<1>3. \A i \in D : /\ Price(list[i], m) \in Nat
                   /\ sumMinorUnits(toLine(list[i], n)) = Price(list[i], m)
                   /\ daysInForce(list[i], m.window, m.spans) = 0 => Price(list[i], m) = 0
  <2> SUFFICES ASSUME NEW i \in D
               PROVE  /\ Price(list[i], m) \in Nat
                      /\ sumMinorUnits(toLine(list[i], n)) = Price(list[i], m)
                      /\ daysInForce(list[i], m.window, m.spans) = 0 => Price(list[i], m) = 0
    OBVIOUS
  <2>1. IsItem(list[i], n)
    BY <1>1 DEF AreItems, IsItem
  <2> QED BY <1>1, <2>1, LinePrice
<1>4. \A i \in D : f[i] \in Int /\ (i \in S => f[i] = Price(list[i], m)) /\ (i \notin S => f[i] = 0)
  <2> SUFFICES ASSUME NEW i \in D
               PROVE  f[i] \in Int /\ (i \in S => f[i] = Price(list[i], m)) /\ (i \notin S => f[i] = 0)
    OBVIOUS
  <2>1. daysInForce(list[i], m.window, m.spans) \in Nat
    <3>1. IsSpan(list[i]) /\ IsSpan(m.window) /\ IsEmployment(m.spans)
      BY DEF AreItems, IsItem, IsSpan, IsMonth
    <3> QED BY <3>1, ForceType
  <2> QED BY <1>2, <1>3, <2>1
<1>5. \A i \in S : g[i] = f[i] /\ g[i] \in Int /\ f[i] \in Int
  <2> SUFFICES ASSUME NEW i \in S PROVE g[i] = f[i] /\ g[i] \in Int /\ f[i] \in Int
    OBVIOUS
  <2>1. g[i] = sumMinorUnits(toLine(list[i], n))
    BY <1>1 DEF AssignedPrice, Assignments
  <2> HIDE DEF S, g
  <2>2. i \in D
    BY <1>2
  <2> QED BY <1>3, <1>4, <2>1, <2>2
<1>6. AssignedTotal(n, kind) = SumFunctionOnSet(g, S)
  BY <1>2, <1>5, AssignedIsSum
<1> HIDE DEF S, g
<1>7. SumFunctionOnSet(g, S) = SumFunctionOnSet(f, S)
  BY <1>2, <1>5, SumSame
<1>8. SumFunctionOnSet(f, D) = SumFunctionOnSet(f, S) + SumFunctionOnSet(f, D \ S)
  BY <1>2, <1>4, SumUnion DEF AreItems
<1>9. SumFunctionOnSet(f, D \ S) = 0
  <2>1. IsFiniteSet(D \ S)
    BY FS_Subset DEF AreItems
  <2>2. \A i \in D \ S : f[i] = 0
    BY <1>4
  <2> QED BY <2>1, <2>2, SumZero
<1>10. SumFunctionOnSet(f, S) \in Int
  BY <1>2, <1>5, SumType
<1> QED BY <1>6, <1>7, <1>8, <1>9, <1>10 DEF n

\* What the month comes to besides its assignments.
Besides(m) ==
  DecidedTotal(m, "earning") - (LeaveTotal(m) + DecidedTotal(m, "deduction") + LoanTotal(m))

LEMMA BesidesSame ==
  ASSUME NEW m, IsMonth(m), NEW list, NEW n, n = Filled(m, list)
  PROVE  /\ \A kind : DecidedTotal(n, kind) = DecidedTotal(m, kind) /\ DecidedTotal(m, kind) \in Int
         /\ LoanTotal(n) = LoanTotal(m) /\ LoanTotal(m) \in Int
         /\ LeaveTotal(n) = LeaveTotal(m) /\ LeaveTotal(m) \in Int
<1>1. /\ n.window = m.window /\ n.basic = m.basic /\ n.adjustments = m.adjustments
      /\ n.loans = m.loans /\ n.leave = m.leave
  BY FilledMonth
<1>2. ASSUME NEW kind PROVE DecidedTotal(n, kind) = DecidedTotal(m, kind) /\ DecidedTotal(m, kind) \in Int
  <2>1. Decisions(n, kind) = Decisions(m, kind) /\ Decided(n) = Decided(m)
    BY <1>1 DEF Decisions, Decided
  <2>2. IsFiniteSet(Decisions(m, kind)) /\ \A i \in Decisions(m, kind) : Decided(m)[i] \in Int
    BY FS_Subset DEF IsMonth, Decisions, Decided
  <2>3. /\ DecidedTotal(m, kind) = SumFunctionOnSet(Decided(m), Decisions(m, kind))
        /\ DecidedTotal(n, kind) = SumFunctionOnSet(Decided(n), Decisions(n, kind))
    BY <2>1, <2>2, DecidedIsSum
  <2> QED BY <2>1, <2>2, <2>3, SumType
<1>3. LoanTotal(n) = LoanTotal(m) /\ LoanTotal(m) \in Int
  <2>1. DOMAIN n.loans = DOMAIN m.loans /\ Owing(n) = Owing(m)
    BY <1>1 DEF Owing
  <2>2. IsFiniteSet(DOMAIN m.loans) /\ \A i \in DOMAIN m.loans : Owing(m)[i] \in Int
    BY DEF IsMonth, Owing
  <2>3. /\ LoanTotal(m) = SumFunctionOnSet(Owing(m), DOMAIN m.loans)
        /\ LoanTotal(n) = SumFunctionOnSet(Owing(n), DOMAIN n.loans)
    BY <2>1, <2>2, LoanIsSum
  <2> QED BY <2>1, <2>2, <2>3, SumType
<1>4. LeaveTotal(n) = LeaveTotal(m)
  BY <1>1 DEF LeaveTotal
<1>5. LeaveTotal(m) \in Int
  <2> DEFINE cost == [i \in DOMAIN m.leave |-> LeaveLines(m.leave[i], m.basic[1], DaysOf(m.window))]
  <2>1. LeaveTotal(m) = sumMinorUnits(cost)
    BY DEF LeaveTotal
  <2>2. CASE m.leave = <<>>
    <3>1. cost = <<>>
      BY <2>2
    <3> HIDE DEF cost
    <3>2. sumMinorUnits(cost) = 0
      BY <3>1, SumOfNone
    <3> QED BY <2>1, <3>2
  <2>3. CASE m.leave # <<>>
    <3>1. /\ m.leave = <<m.leave[1]>>
          /\ LeaveLines(m.leave[1], m.basic[1], DaysOf(m.window)) \in Int
      BY <2>3 DEF IsMonth
    <3>2. DOMAIN m.leave = {1}
      BY <3>1
    <3>3. cost = <<LeaveLines(m.leave[1], m.basic[1], DaysOf(m.window))>>
      BY <3>2
    <3> QED BY <2>1, <3>1, <3>3, SumOfOne
  <2> QED BY <2>2, <2>3
<1> QED BY <1>2, <1>3, <1>4, <1>5

\* A line's share of the net: an earning adds, a deduction takes away.
Signed(list, m) ==
  [i \in DOMAIN list |-> IF list[i].kind = "earning" THEN Price(list[i], m) ELSE -Price(list[i], m)]

\* The net of a month is what its assignments come to, and the rest.
LEMMA NetOfList ==
  ASSUME NEW m, IsMonth(m), NEW list, AreItems(list, m)
  PROVE  /\ PayOf(m, list) = Besides(m) + SumFunctionOnSet(Signed(list, m), DOMAIN list)
         /\ Besides(m) \in Int
<1> DEFINE n == Filled(m, list)
           D == DOMAIN list
           e == [i \in D |-> IF list[i].kind = "earning" THEN Price(list[i], m) ELSE 0]
           d == [i \in D |-> IF list[i].kind = "deduction" THEN Price(list[i], m) ELSE 0]
           s == Signed(list, m)
<1>1. /\ n.assignments = list /\ n.currency = m.currency /\ n.basic = m.basic
      /\ n.adjustments = m.adjustments /\ n.loans = m.loans
  BY FilledMonth
<1>2. ~Refused(n)
  <2>1. n.basic # <<>>
    BY <1>1 DEF IsMonth
  <2>2. Currencies(n) \subseteq {n.currency}
    BY <1>1 DEF Currencies, IsMonth, AreItems, IsItem
  <2>3. \A i \in InForce(n) : n.assignments[i].basis = "percentOfBase" => n.assignments[i].amount \in 1..100
    BY <1>1 DEF InForce, AreItems, IsItem
  <2> QED BY <2>1, <2>2, <2>3 DEF Refused
<1>3. PayOf(m, list) = computeCompensation(n)[1].net
  BY DEF PayOf, Filled
<1> HIDE DEF n
<1>4. computeCompensation(n)[1].net
        = (AssignedTotal(n, "earning") + DecidedTotal(n, "earning"))
          - (AssignedTotal(n, "deduction") + LeaveTotal(n) + DecidedTotal(n, "deduction") + LoanTotal(n))
  BY <1>2 DEF computeCompensation
<1>5. /\ AssignedTotal(n, "earning") = SumFunctionOnSet(e, D)
      /\ AssignedTotal(n, "deduction") = SumFunctionOnSet(d, D)
  BY AssignedPrices DEF n
<1>6. \A i \in D : e[i] \in Int /\ d[i] \in Int /\ s[i] \in Int /\ e[i] = s[i] + d[i]
  <2> SUFFICES ASSUME NEW i \in D
               PROVE  e[i] \in Int /\ d[i] \in Int /\ s[i] \in Int /\ e[i] = s[i] + d[i]
    OBVIOUS
  <2>1. Price(list[i], m) \in Nat /\ list[i].kind \in {"earning", "deduction"}
    BY LinePrice DEF AreItems, IsItem
  <2> QED BY <2>1 DEF Signed
<1> HIDE DEF e, d, s
<1>7. IsFiniteSet(D)
  BY DEF AreItems
<1>8. SumFunctionOnSet(e, D) = SumFunctionOnSet(s, D) + SumFunctionOnSet(d, D)
  BY <1>6, <1>7, SumPlus
<1>9. SumFunctionOnSet(s, D) \in Int /\ SumFunctionOnSet(d, D) \in Int
  BY <1>6, <1>7, SumType
<1>10. /\ DecidedTotal(n, "earning") = DecidedTotal(m, "earning") /\ DecidedTotal(m, "earning") \in Int
       /\ DecidedTotal(n, "deduction") = DecidedTotal(m, "deduction") /\ DecidedTotal(m, "deduction") \in Int
       /\ LoanTotal(n) = LoanTotal(m) /\ LoanTotal(m) \in Int
       /\ LeaveTotal(n) = LeaveTotal(m) /\ LeaveTotal(m) \in Int
  BY BesidesSame DEF n
<1> QED BY <1>3, <1>4, <1>5, <1>8, <1>9, <1>10 DEF Besides, s

-----------------------------------------------------------------------------
(***************************************************************************)
(* A change inside the month.                                              *)
(***************************************************************************)
\* An assignment that ends on a day and one that begins on the next.
LEMMA CutItems ==
  ASSUME NEW m, IsMonth(m), NEW item, IsItem(item, m), NEW cut \in item.from..(item.to - 1),
         NEW p, p = [item EXCEPT !.to = cut], NEW q, q = [item EXCEPT !.from = cut + 1]
  PROVE  /\ IsItem(p, m) /\ p.basis = item.basis /\ p.amount = item.amount
         /\ p.source = item.source /\ p.kind = item.kind
         /\ IsItem(q, m) /\ q.basis = item.basis /\ q.amount = item.amount
         /\ q.source = item.source /\ q.kind = item.kind
         /\ CutInto(item, p, q)
<1>1. item.from \in Int /\ item.to \in Int /\ cut \in Int /\ cut + 1 \in Int
  BY DEF IsItem
<1>2. /\ p.from = item.from /\ p.to = cut /\ p.basis = item.basis /\ p.amount = item.amount
      /\ p.source = item.source /\ p.kind = item.kind
      /\ q.from = cut + 1 /\ q.to = item.to /\ q.basis = item.basis /\ q.amount = item.amount
      /\ q.source = item.source /\ q.kind = item.kind
  BY DEF IsItem
<1>3. IsItem(p, m) /\ IsItem(q, m)
  BY <1>1, <1>2 DEF IsItem
<1>4. CutInto(item, p, q)
  BY <1>1, <1>2 DEF CutInto, IsSpan, DaySet
<1> QED BY <1>2, <1>3, <1>4

\* What the two come to, line by line.
LEMMA CutPrices ==
  ASSUME NEW m, IsMonth(m), NEW item, IsItem(item, m), NEW p, IsItem(p, m), NEW q, IsItem(q, m),
         CutInto(item, p, q),
         p.basis = item.basis, p.amount = item.amount, p.source = item.source,
         q.basis = item.basis, q.amount = item.amount, q.source = item.source
  PROVE  Abs(Price(item, m) - (Price(p, m) + Price(q, m)))
           <= IF item.basis = "quantity" THEN 0 ELSE 1
<1> DEFINE force(a) == daysInForce(a, m.window, m.spans)
           period == DaysOf(m.window)
<1>1. IsSpan(m.window) /\ IsEmployment(m.spans) /\ period \in Nat \ {0} /\ m.basic[1] \in Nat
  BY DaysAreCounted DEF IsMonth
<1>2. IsSpan(p) /\ IsSpan(q) /\ item.amount \in Nat /\ item.source \in Sources
  BY DEF CutInto, IsItem
<1>3. force(item) = force(p) + force(q) /\ force(p) \in Nat /\ force(q) \in Nat
  BY <1>1, <1>2, ForceAdds, ForceType
<1> HIDE DEF force, period
<1>4. CASE item.basis = "fixed"
  <2> DEFINE x == item.amount * force(p)
             y == item.amount * force(q)
  <2>1. x \in Nat /\ y \in Nat /\ item.amount * force(item) = x + y
    BY <1>2, <1>3
  <2>2. /\ Price(item, m) = Rounded(item.amount * force(item), period)
        /\ Price(p, m) = Rounded(x, period) /\ Price(q, m) = Rounded(y, period)
    BY <1>4 DEF Price, force, period
  <2> HIDE DEF x, y
  <2>3. Price(item, m) = Rounded(x + y, period)
    BY <2>1, <2>2
  <2> QED BY <1>1, <1>4, <2>1, <2>2, <2>3, RoundedSum
<1>5. CASE item.basis = "percentOfBase"
  <2> DEFINE x == m.basic[1] * (item.amount * force(p))
             y == m.basic[1] * (item.amount * force(q))
             d == 100 * period
  <2>1. x \in Nat /\ y \in Nat /\ m.basic[1] * (item.amount * force(item)) = x + y
    <3>1. /\ item.amount * force(p) \in Nat /\ item.amount * force(q) \in Nat
          /\ item.amount * force(item) = item.amount * force(p) + item.amount * force(q)
      BY <1>2, <1>3
    <3> DEFINE s == item.amount * force(p)
               t == item.amount * force(q)
               u == item.amount * force(item)
    <3>2. s \in Nat /\ t \in Nat /\ u = s + t
      BY <3>1
    <3> HIDE DEF s, t, u
    <3>3. m.basic[1] * s \in Nat /\ m.basic[1] * t \in Nat /\ m.basic[1] * u = m.basic[1] * s + m.basic[1] * t
      BY <1>1, <3>2
    <3> QED BY <3>3 DEF s, t, u
  <2>2. /\ Price(item, m) = Rounded(m.basic[1] * (item.amount * force(item)), d)
        /\ Price(p, m) = Rounded(x, d) /\ Price(q, m) = Rounded(y, d)
    BY <1>5 DEF Price, force, period
  <2>3. d \in Nat \ {0}
    BY <1>1
  <2> HIDE DEF x, y, d
  <2>4. Price(item, m) = Rounded(x + y, d)
    BY <2>1, <2>2
  <2> QED BY <1>5, <2>1, <2>2, <2>3, <2>4, RoundedSum
<1>6. CASE item.basis = "quantity"
  <2> DEFINE count(a) == quantityFor(m.attendance[1], a.source, Overlap(a, m.window), m.spans)
  <2>1. CASE m.attendance = <<>>
    <3>1. Price(item, m) = 0 /\ Price(p, m) = 0 /\ Price(q, m) = 0
      BY <1>6, <2>1 DEF Price
    <3> QED BY <1>6, <3>1 DEF Abs
  <2>2. CASE m.attendance # <<>>
    <3>1. IsAttendance(m.attendance[1])
      BY <2>2 DEF IsMonth
    <3>2. CutInto(Overlap(item, m.window), Overlap(p, m.window), Overlap(q, m.window))
      BY <1>1, SlicesAreCut
    <3>3. count(item) = count(p) + count(q)
      BY <1>2, <3>1, <3>2, QuantityAdds
    <3>4. count(p) \in Nat /\ count(q) \in Nat
      BY <1>1, <1>2, <3>1, <3>2, QuantityType DEF CutInto
    <3>5. /\ Price(item, m) = item.amount * count(item)
          /\ Price(p, m) = item.amount * count(p) /\ Price(q, m) = item.amount * count(q)
      BY <1>6, <2>2 DEF Price
    <3> HIDE DEF count
    <3>6. /\ item.amount * count(item) = item.amount * count(p) + item.amount * count(q)
          /\ item.amount * count(p) \in Nat /\ item.amount * count(q) \in Nat
      BY <1>2, <3>3, <3>4
    <3>7. Price(item, m) - (Price(p, m) + Price(q, m)) = 0
      BY <3>5, <3>6
    <3> QED BY <1>6, <3>7 DEF Abs
  <2> QED BY <2>1, <2>2
<1> QED BY <1>4, <1>5, <1>6 DEF IsItem

LEMMA CutPays ==
  ASSUME NEW m, IsMonth(m), NEW item, IsItem(item, m), NEW cut \in item.from..(item.to - 1)
  PROVE  CutPaysTheSame(m, item, cut)
<1> DEFINE p == [item EXCEPT !.to = cut]
           q == [item EXCEPT !.from = cut + 1]
           one == <<item>>
           two == <<p, q>>
           slack == IF item.basis = "quantity" THEN 0 ELSE 1
<1>1. /\ IsItem(p, m) /\ p.basis = item.basis /\ p.amount = item.amount
      /\ p.source = item.source /\ p.kind = item.kind
      /\ IsItem(q, m) /\ q.basis = item.basis /\ q.amount = item.amount
      /\ q.source = item.source /\ q.kind = item.kind
      /\ CutInto(item, p, q)
  BY CutItems
<1> HIDE DEF p, q
<1>2. Abs(Price(item, m) - (Price(p, m) + Price(q, m))) <= slack
  BY <1>1, CutPrices
<1>3. Price(item, m) \in Nat /\ Price(p, m) \in Nat /\ Price(q, m) \in Nat
  BY <1>1, LinePrice
<1>4. DOMAIN one = {1} /\ one[1] = item /\ DOMAIN two = {1, 2} /\ two[1] = p /\ two[2] = q
  OBVIOUS
<1>5. AreItems(one, m) /\ AreItems(two, m)
  <2>1. IsFiniteSet({1}) /\ {1, 2} = {1} \cup {2}
    BY FS_Singleton
  <2>2. IsFiniteSet({1, 2})
    BY <2>1, FS_AddElement
  <2> HIDE DEF one, two
  <2> QED BY <1>1, <1>4, <2>1, <2>2 DEF AreItems
<1> DEFINE f == Signed(one, m)
           g == Signed(two, m)
<1>6. /\ f[1] = (IF item.kind = "earning" THEN Price(item, m) ELSE -Price(item, m))
      /\ g[1] = (IF item.kind = "earning" THEN Price(p, m) ELSE -Price(p, m))
      /\ g[2] = (IF item.kind = "earning" THEN Price(q, m) ELSE -Price(q, m))
  <2> HIDE DEF one, two
  <2> QED BY <1>1, <1>4 DEF Signed
<1>7. f[1] \in Int /\ g[1] \in Int /\ g[2] \in Int
  BY <1>3, <1>6
<1>8. /\ PayOf(m, one) = Besides(m) + SumFunctionOnSet(f, {1})
      /\ PayOf(m, two) = Besides(m) + SumFunctionOnSet(g, {1, 2})
      /\ Besides(m) \in Int
  <2> HIDE DEF one, two
  <2>1. /\ PayOf(m, one) = Besides(m) + SumFunctionOnSet(f, DOMAIN one)
        /\ PayOf(m, two) = Besides(m) + SumFunctionOnSet(g, DOMAIN two)
        /\ Besides(m) \in Int
    BY <1>5, NetOfList
  <2> QED BY <1>4, <2>1
<1> HIDE DEF f, g, one, two
<1>9. SumFunctionOnSet(f, {1}) = f[1] /\ SumFunctionOnSet(g, {1, 2}) = g[1] + g[2]
  <2>1. 1 # 2
    OBVIOUS
  <2> QED BY <1>7, <2>1, SumOfSingleton, SumOfPair, Zenon
<1>10. PayOf(m, one) - PayOf(m, two) = f[1] - (g[1] + g[2])
  BY <1>7, <1>8, <1>9
<1>11. Abs(PayOf(m, one) - PayOf(m, two)) <= slack
  <2>1. \/ f[1] - (g[1] + g[2]) = Price(item, m) - (Price(p, m) + Price(q, m))
        \/ f[1] - (g[1] + g[2]) = -(Price(item, m) - (Price(p, m) + Price(q, m)))
    BY <1>3, <1>6
  <2> QED BY <1>2, <1>3, <1>10, <2>1 DEF Abs
<1> QED BY <1>11 DEF CutPaysTheSame, one, two, p, q

\* A fixed earning held all month, employed all month.
LEMMA FullMonthPays ==
  ASSUME NEW m, IsMonth(m), NEW item, IsItem(item, m), item.basis = "fixed", item.kind = "earning",
         DaySet(m.window) \subseteq DaySet(item), Disjoint(m.spans),
         Employed(m.spans, m.window) = DaySet(m.window)
  PROVE  FullMonthPaysAll(m, item)
<1> DEFINE one == <<item>>
           none == <<>>
           period == DaysOf(m.window)
           slice == Overlap(item, m.window)
<1>1. IsSpan(m.window) /\ IsEmployment(m.spans) /\ IsSpan(item) /\ item.amount \in Nat
  BY DEF IsMonth, IsItem, IsSpan
<1>2. period \in Nat \ {0} /\ period = Cardinality(DaySet(m.window))
  BY DaysAreCounted DEF IsMonth
<1>3. IsSpan(slice) /\ DaySet(slice) = DaySet(m.window)
  <2>1. IsSpan(slice) /\ DaySet(slice) = DaySet(item) \cap DaySet(m.window)
    BY <1>1, OverlapDays
  <2> HIDE DEF slice
  <2> QED BY <2>1
<1>4. daysInForce(item, m.window, m.spans) = period
  <2>1. daysInForce(item, m.window, m.spans) = daysWithin(slice, m.spans)
    BY <1>1, ForceIsWithin
  <2>2. daysWithin(slice, m.spans) = Cardinality(Employed(m.spans, slice))
    BY <1>1, <1>3, DisjointForce
  <2>3. Employed(m.spans, slice) = DaySet(m.window)
    BY <1>3 DEF Employed
  <2> QED BY <1>2, <2>1, <2>2, <2>3
<1>5. Price(item, m) = Rounded(item.amount * period, period)
  BY <1>4 DEF Price
<1> HIDE DEF period
<1>6. Rounded(item.amount * period, period) = item.amount
  <2> DEFINE x == item.amount * period
             r == Rounded(x, period)
  <2>1. x \in Nat
    BY <1>1, <1>2
  <2>2. r \in Nat /\ 2 * (period * r) <= 2 * x + period /\ 2 * x + period < 2 * (period * r) + 2 * period
    <3> HIDE DEF x
    <3> QED BY <1>2, <2>1, RoundedBounds
  <2> HIDE DEF r
  <2>3. /\ period * (r - item.amount) = period * r - x
        /\ period * (item.amount - r) = x - period * r
        /\ period * r \in Int
    BY <1>1, <1>2, <2>2
  <2>4. period * (r - item.amount) < 0 * period + period /\ period * (item.amount - r) < 0 * period + period
    <3> DEFINE y == period * r
    <3> HIDE DEF x, y
    <3>1. y \in Int /\ 2 * y <= 2 * x + period /\ 2 * x + period < 2 * y + 2 * period
      BY <2>2, <2>3 DEF y
    <3>2. y - x < 0 * period + period /\ x - y < 0 * period + period
      BY <1>2, <2>1, <3>1
    <3> QED BY <2>3, <3>2 DEF y
  <2>5. r - item.amount <= 0 /\ item.amount - r <= 0
    <3>1. r - item.amount \in Int /\ item.amount - r \in Int
      BY <1>1, <2>2
    <3> QED BY <1>2, <2>4, <3>1, ProductBound
  <2>6. r = item.amount
    BY <1>1, <2>2, <2>5
  <2> QED BY <2>6 DEF r
<1>7. DOMAIN one = {1} /\ one[1] = item /\ DOMAIN none = {}
  OBVIOUS
<1>8. AreItems(one, m) /\ AreItems(none, m)
  <2> HIDE DEF one, none
  <2> QED BY <1>7, FS_Singleton, FS_EmptySet DEF AreItems
<1> HIDE DEF one, none
<1>9. /\ PayOf(m, one) = Besides(m) + SumFunctionOnSet(Signed(one, m), {1})
      /\ PayOf(m, none) = Besides(m) + SumFunctionOnSet(Signed(none, m), {})
      /\ Besides(m) \in Int
  BY <1>7, <1>8, NetOfList
<1>10. Signed(one, m)[1] = item.amount
  BY <1>5, <1>6, <1>7 DEF Signed
<1>11. SumFunctionOnSet(Signed(one, m), {1}) = item.amount /\ SumFunctionOnSet(Signed(none, m), {}) = 0
  BY <1>1, <1>10, SumOfSingleton, SumEmpty
<1>12. PayOf(m, one) = PayOf(m, none) + item.amount
  BY <1>1, <1>9, <1>11
<1> QED BY <1>12 DEF FullMonthPaysAll, one, none

-----------------------------------------------------------------------------
\* A month without leave owes none.
LEMMA NoShortfalls == shortfallsOf(<<>>) = {}
<1> DEFINE seq == <<>>
           rows == leaveRows(seq)
           Unfolds(h) == h = [s \in SUBSET (DOMAIN seq) |-> IF s = {} THEN <<>>
                               ELSE h[s \ {Max(s)}] \o tierRows(seq[Max(s)])]
           iter == CHOOSE h : Unfolds(h)
           g == [s \in SUBSET (DOMAIN seq) |-> <<>>]
<1>1. rows = iter[DOMAIN seq]
  BY DEF leaveRows, FoldLeft, MapThenFoldSet
<1>2. DOMAIN seq = {}
  OBVIOUS
<1> HIDE DEF seq
<1>3. Unfolds(g)
  BY <1>2
<1>4. Unfolds(iter)
  <2> HIDE DEF Unfolds, g
  <2> QED BY <1>3
<1> HIDE DEF iter
<1>5. rows = <<>>
  <2> HIDE DEF rows
  <2> QED BY <1>1, <1>2, <1>4
<1> HIDE DEF rows
<1>6. DOMAIN rows = {}
  BY <1>5
<1>7. shortfallsOf(seq) = {shortfallAt(rows, i) : i \in DOMAIN rows}
  BY DEF shortfallsOf, rows
<1>8. shortfallsOf(seq) = {}
  BY <1>6, <1>7
<1> QED BY <1>8 DEF seq

LEMMA NoLeaveLines ==
  ASSUME NEW basic, NEW period
  PROVE  LeaveLines(<<>>, basic, period) = 0
<1> DEFINE K == {s \in shortfallsOf(<<>>) : isChargeable(s)}
           Unfolds(h) == h = [s \in SUBSET K |-> IF s = {} THEN 0
                     ELSE shortfallMinor(CHOOSE x \in s : TRUE, basic, period)
                            + h[s \ {CHOOSE x \in s : TRUE}]]
           iter == CHOOSE h : Unfolds(h)
           g == [s \in SUBSET K |-> 0]
<1>1. LeaveLines(<<>>, basic, period) = iter[K]
  BY DEF LeaveLines, MapThenSumSet, MapThenFoldSet
<1>2. K = {}
  BY NoShortfalls
<1> HIDE DEF K
<1>3. Unfolds(g)
  BY <1>2
<1>4. Unfolds(iter)
  <2> HIDE DEF Unfolds, g
  <2> QED BY <1>3
<1> HIDE DEF iter
<1>5. iter[K] = 0
  BY <1>2, <1>4
<1> QED BY <1>1, <1>5

\* A finite set of rows, one a day.
LEMMA SampleAttendance ==
  ASSUME NEW status
  PROVE  IsAttendance({[day |-> d, minutes |-> 1, status |-> status[d]] : d \in 1..LastDay})
<1> DEFINE row == [d \in 1..LastDay |-> [day |-> d, minutes |-> 1, status |-> status[d]]]
           rows == {[day |-> d, minutes |-> 1, status |-> status[d]] : d \in 1..LastDay}
<1>1. LastDay \in Nat /\ IsFiniteSet(1..LastDay)
  <2>1. 1 \in Int /\ LastDay \in Int /\ LastDay \in Nat
    BY DEF LastDay
  <2> QED BY <2>1, FS_Interval
<1>2. rows = {row[d] : d \in 1..LastDay}
  OBVIOUS
<1>3. \A r \in rows : r.day \in Int /\ r.minutes \in Nat
  BY <1>1
<1>4. \A d, e \in 1..LastDay : row[d] = row[e] => d = e
  <2>1. \A d \in 1..LastDay : row[d].day = d
    OBVIOUS
  <2> HIDE DEF row
  <2> QED BY <2>1
<1> HIDE DEF row, rows
<1>5. row \in Bijection(1..LastDay, rows)
  <2>1. row \in [1..LastDay -> rows] /\ \A r \in rows : \E d \in 1..LastDay : row[d] = r
    BY <1>2 DEF row
  <2> QED BY <1>4, <2>1 DEF Bijection, Injection, Surjection, IsInjective
<1>6. IsFiniteSet(rows)
  <2>1. ExistsBijection(1..LastDay, rows)
    BY <1>5 DEF ExistsBijection
  <2> QED BY <1>1, <2>1, FS_Bijection
<1>7. IsAttendance(rows)
  BY <1>3, <1>6 DEF IsAttendance
<1> QED BY <1>7 DEF rows

\* The months and items TLC evaluates are such months and items.
LEMMA SampleMonths ==
  ASSUME NEW window, IsSpan(window), DaysOf(window) # 0, NEW spans, IsEmployment(spans),
         NEW month, month = Month(window, spans, <<>>, <<<<>>>>)
  PROVE  /\ IsMonth(month)
         /\ month.window = window /\ month.spans = spans /\ month.currency = "EGP"
<1> DEFINE rows == {[day |-> d, minutes |-> 1,
                     status |-> IF d % 3 = 0 THEN "absent" ELSE "attended"] : d \in 1..LastDay}
<1>1. /\ month.window = window /\ month.spans = spans /\ month.currency = "EGP"
      /\ month.basic = <<Basic>> /\ month.adjustments = <<>> /\ month.loans = <<>>
      /\ month.leave = <<<<>>>> /\ month.attendance = <<rows>>
      /\ DOMAIN month = {"window", "currency", "basic", "spans", "assignments", "adjustments",
                         "loans", "leave", "attendance"}
  BY DEF Month
<1>2. IsAttendance(rows)
  <2> DEFINE status == [d \in 1..LastDay |-> IF d % 3 = 0 THEN "absent" ELSE "attended"]
  <2>1. rows = {[day |-> d, minutes |-> 1, status |-> status[d]] : d \in 1..LastDay}
    OBVIOUS
  <2> HIDE DEF status
  <2> QED BY <2>1, SampleAttendance
<1> HIDE DEF rows
<1>3. month.basic = <<month.basic[1]>> /\ month.basic[1] \in Nat
  BY <1>1 DEF Basic
<1>4. IsFiniteSet(DOMAIN month.adjustments) /\ IsFiniteSet(DOMAIN month.loans)
      /\ DOMAIN month.adjustments = {} /\ DOMAIN month.loans = {}
  <2>1. DOMAIN <<>> = {}
    OBVIOUS
  <2> QED BY <1>1, <2>1, FS_EmptySet
<1>5. month.leave = <<month.leave[1]>> /\ month.leave[1] = <<>>
  BY <1>1
<1>6. LeaveLines(month.leave[1], month.basic[1], DaysOf(month.window)) \in Int
  BY <1>5, NoLeaveLines
<1>7. month.attendance = <<month.attendance[1]>> /\ IsAttendance(month.attendance[1])
  BY <1>1, <1>2
<1>8. IsMonth(month)
  BY <1>1, <1>3, <1>4, <1>5, <1>6, <1>7 DEF IsMonth
<1> QED BY <1>1, <1>8

\* Whether an assignment is replaced inside a month or not, the employee is
\* paid the same, for every month, history of employment and attendance: a
\* counted item exactly, a prorated one to the minor unit that rounding two
\* lines in place of one may move.  And a fixed earning held all month by
\* somebody employed all month is paid in full.
THEOREM ReplacementKeepsPay ==
  /\ \A month, item : IsMonth(month) /\ IsItem(item, month) =>
       /\ \A cut \in item.from..(item.to - 1) : CutPaysTheSame(month, item, cut)
       /\ /\ item.basis = "fixed" /\ item.kind = "earning"
          /\ DaySet(month.window) \subseteq DaySet(item)
          /\ Disjoint(month.spans) /\ Employed(month.spans, month.window) = DaySet(month.window)
          => FullMonthPaysAll(month, item)
  /\ Spec => []SplitKeepsPay
<1>1. ASSUME NEW basis \in {"fixed", "percentOfBase", "quantity"}, NEW amount \in {5, 99},
             NEW held \in Spans(Forever), NEW gap \in Spans(LastDay),
             NEW spans, spans = <<[from |-> 1, to |-> gap.from - 1], [from |-> gap.to + 1, to |-> Forever]>>,
             NEW month, month = Month(March, spans, <<>>, <<<<>>>>),
             NEW item, item = Item(held, basis, amount)
      PROVE  /\ \A cut \in held.from..(held.to - 1) : CutPaysTheSame(month, item, cut)
             /\ basis = "fixed" /\ Overlap(held, March) = March /\ gap.from > March.to
                  => FullMonthPaysAll(month, item)
  <2>1. /\ March.from = 4 /\ March.to = 7 /\ IsSpan(March) /\ DaysOf(March) # 0
        /\ DaySet(March) = 4..7
    BY DEF March, Months, IsSpan, DaySet, DaysOf
  <2>2. /\ held.from \in Int /\ held.to \in Int
        /\ gap.from \in 1..9 /\ gap.to \in 1..9 /\ gap.from <= gap.to /\ Forever = 10
    BY DEF Spans, LastDay, Forever
  <2>3. /\ DOMAIN spans = {1, 2}
        /\ spans[1].from = 1 /\ spans[1].to = gap.from - 1
        /\ spans[2].from = gap.to + 1 /\ spans[2].to = 10
    BY <1>1, <2>2
  <2>4. IsEmployment(spans)
    <3>1. {1, 2} = {1} \cup {2} /\ IsFiniteSet({1})
      BY FS_Singleton
    <3>2. IsFiniteSet({1, 2})
      BY <3>1, FS_AddElement
    <3> QED BY <2>2, <2>3, <3>2 DEF IsEmployment, IsSpan
  <2>5. IsMonth(month) /\ month.window = March /\ month.spans = spans /\ month.currency = "EGP"
    BY <1>1, <2>1, <2>4, SampleMonths
  <2>6. /\ item.from = held.from /\ item.to = held.to /\ item.basis = basis /\ item.kind = "earning"
        /\ IsItem(item, month)
    BY <1>1, <2>2, <2>5 DEF Item, IsItem, Sources
  <2>7. \A cut \in held.from..(held.to - 1) : CutPaysTheSame(month, item, cut)
    BY <2>5, <2>6, CutPays
  <2>8. ASSUME basis = "fixed", Overlap(held, March) = March, gap.from > March.to
        PROVE  FullMonthPaysAll(month, item)
    <3>1. DaySet(March) \subseteq DaySet(item)
      <4>1. DaySet(March) = DaySet(held) \cap DaySet(March)
        BY <2>1, <2>2, <2>8, OverlapDays DEF IsSpan
      <4> QED BY <2>6, <4>1 DEF DaySet
    <3>2. Disjoint(spans)
      BY <2>2, <2>3 DEF Disjoint, DaySet
    <3>3. Employed(spans, March) = DaySet(March)
      BY <2>1, <2>2, <2>3, <2>8 DEF Employed, Covers
    <3> QED BY <2>5, <2>6, <2>8, <3>1, <3>2, <3>3, FullMonthPays
  <2> QED BY <2>7, <2>8
<1>2. SplitEarnsTheSame
  BY <1>1 DEF SplitEarnsTheSame
<1>3. SplitKeepsPay
  BY <1>2 DEF SplitKeepsPay
<1>4. \A month, item : IsMonth(month) /\ IsItem(item, month) =>
       /\ \A cut \in item.from..(item.to - 1) : CutPaysTheSame(month, item, cut)
       /\ /\ item.basis = "fixed" /\ item.kind = "earning"
          /\ DaySet(month.window) \subseteq DaySet(item)
          /\ Disjoint(month.spans) /\ Employed(month.spans, month.window) = DaySet(month.window)
          => FullMonthPaysAll(month, item)
  BY CutPays, FullMonthPays
<1> QED BY <1>3, <1>4, PTL

-----------------------------------------------------------------------------
(***************************************************************************)
(* Laying the tiers of an entry over its days.                             *)
(***************************************************************************)
Tier == [halves : Nat, rate : Int]
Part == [cents : Nat, rate : Int]      \* what a slice has of a tier
Taking == [skip : Nat, left : Nat, out : Seq(Part)]

LEMMA SeqEntries ==
  ASSUME NEW R, NEW s \in Seq(R)
  PROVE  Len(s) \in Nat /\ DOMAIN s = 1..Len(s) /\ \A k \in 1..Len(s) : s[k] \in R
OBVIOUS

LEMMA SeqMade ==
  ASSUME NEW R, NEW n \in Nat, NEW f \in [1..n -> R]
  PROVE  f \in Seq(R) /\ Len(f) = n
OBVIOUS

Lesser(a, b) == IF a <= b THEN a ELSE b

\* How much of what lies before x is inside the l grains from o.
Within(x, o, l) == Lesser(x, o + l) - Lesser(x, o)

\* The grains at which the tiers end: tier i is what lies between two ends.
Halves(tiers) == [i \in DOMAIN tiers |-> tiers[i].halves]
Ends(tiers, grains) ==
  [k \in 0..Len(tiers) |-> 50 * grains * SumFunctionOnSet(Halves(tiers), 1..k)]

\* What a slice takes of tier i, in grains, and what it keeps of that.
Share(ends, i, o, l) == Within(ends[i], o, l) - Within(ends[i - 1], o, l)
Kept(share, grains) == IF 2 * share > grains THEN Rounded(share, grains) ELSE 0

LEMMA EndsGrow ==
  ASSUME NEW tiers \in Seq(Tier), NEW grains \in Nat
  PROVE  /\ \A k \in 0..Len(tiers) : Ends(tiers, grains)[k] \in Nat
         /\ Ends(tiers, grains)[0] = 0
         /\ \A k \in 1..Len(tiers) :
              Ends(tiers, grains)[k] = Ends(tiers, grains)[k - 1] + tiers[k].halves * 50 * grains
<1> DEFINE n == Len(tiers)
           f == Halves(tiers)
           S(k) == SumFunctionOnSet(f, 1..k)
<1>1. /\ n \in Nat /\ DOMAIN tiers = 1..n
      /\ \A i \in 1..n : tiers[i].halves \in Nat /\ f[i] = tiers[i].halves /\ f[i] \in Int
  <2>1. n \in Nat /\ DOMAIN tiers = 1..n /\ \A i \in 1..n : tiers[i] \in Tier
    OBVIOUS
  <2>2. \A i \in 1..n : tiers[i].halves \in Nat
    BY <2>1 DEF Tier
  <2> QED BY <2>1, <2>2 DEF Halves
<1> HIDE DEF n, f
<1>2. S(0) = 0
  <2>1. 1..0 = {}
    OBVIOUS
  <2> QED BY <2>1, SumEmpty
<1>3. \A k \in 1..n : S(k) = f[k] + S(k - 1)
  BY <1>1, SumUpTo
<1>4. \A k \in 0..n : S(k) \in Nat
  <2> SUFFICES ASSUME NEW k \in 0..n PROVE S(k) \in Nat
    OBVIOUS
  <2>1. k \in Int /\ 1 \in Int /\ 1..k \subseteq 1..n
    BY <1>1
  <2>2. IsFiniteSet(1..k)
    BY <2>1, FS_Interval
  <2>3. \A i \in 1..k : f[i] \in Nat
    BY <1>1, <2>1
  <2> QED BY <2>2, <2>3, SumNat
<1>5. \A k \in 0..n : Ends(tiers, grains)[k] = 50 * grains * S(k)
  BY DEF Ends, n, f
<1> HIDE DEF S
<1>6. ASSUME NEW k \in 0..n PROVE Ends(tiers, grains)[k] \in Nat
  BY <1>4, <1>5
<1>7. Ends(tiers, grains)[0] = 0
  BY <1>1, <1>2, <1>5
<1>8. ASSUME NEW k \in 1..n
      PROVE  Ends(tiers, grains)[k] = Ends(tiers, grains)[k - 1] + tiers[k].halves * 50 * grains
  <2>1. k \in 0..n /\ k - 1 \in 0..n
    BY <1>1
  <2>2. S(k) = tiers[k].halves + S(k - 1) /\ S(k - 1) \in Nat /\ tiers[k].halves \in Nat
    BY <1>1, <1>3, <1>4, <2>1
  <2>3. 50 * grains * (tiers[k].halves + S(k - 1)) = 50 * grains * S(k - 1) + tiers[k].halves * 50 * grains
    BY <2>2, Z3
  <2> QED BY <1>5, <2>1, <2>2, <2>3
<1> QED BY <1>6, <1>7, <1>8 DEF n

\* One turn of the walk.
LEMMA TurnTaken ==
  ASSUME NEW acc \in Taking, NEW tier \in Tier, NEW grains \in Nat \ {0},
         NEW days, days = tier.halves * 50 * grains,
         NEW take, take = Lesser(acc.left, days - Lesser(acc.skip, days))
  PROVE  /\ TakeTier(acc, tier, grains) \in Taking
         /\ TakeTier(acc, tier, grains).skip = IF acc.skip >= days THEN acc.skip - days ELSE 0
         /\ TakeTier(acc, tier, grains).left = acc.left - take
         /\ TakeTier(acc, tier, grains).out
              = IF 2 * take > grains
                THEN Append(acc.out, [cents |-> Rounded(take, grains), rate |-> tier.rate])
                ELSE acc.out
         /\ take \in Nat
<1>1. acc.skip \in Nat /\ acc.left \in Nat /\ acc.out \in Seq(Part) /\ tier.rate \in Int
  BY DEF Taking, Tier
<1>2. days \in Nat
  <2>1. tier.halves \in Nat
    BY DEF Tier
  <2>2. tier.halves * 50 * grains \in Nat
    BY <2>1, Z3
  <2> QED BY <2>2
<1>3. Min({acc.skip, days}) = Lesser(acc.skip, days) /\ Lesser(acc.skip, days) \in 0..days
  BY <1>1, <1>2, MinOfTwo DEF Lesser
<1>4. /\ Min({acc.left, days - Lesser(acc.skip, days)}) = take
      /\ take \in Nat /\ take <= acc.left
  <2>1. days - Lesser(acc.skip, days) \in Nat
    BY <1>2, <1>3
  <2> QED BY <1>1, <2>1, MinOfTwo DEF Lesser
<1>5. Max({0, acc.skip - days}) = IF acc.skip >= days THEN acc.skip - days ELSE 0
  <2>1. acc.skip - days \in Int /\ 0 \in Int
    BY <1>1, <1>2
  <2> QED BY <1>1, <1>2, <2>1, MaxOfTwo
<1>6. TakeTier(acc, tier, grains)
        = [skip |-> Max({0, acc.skip - days}), left |-> acc.left - take,
           out |-> IF 2 * take > grains
                   THEN Append(acc.out, [cents |-> Rounded(take, grains), rate |-> tier.rate])
                   ELSE acc.out]
  BY <1>3, <1>4 DEF TakeTier
<1>7. Rounded(take, grains) \in Nat
  BY <1>4, RoundedBounds
<1>8. [cents |-> Rounded(take, grains), rate |-> tier.rate] \in Part
  BY <1>1, <1>7 DEF Part
<1>9. TakeTier(acc, tier, grains).out \in Seq(Part)
  <2>1. Append(acc.out, [cents |-> Rounded(take, grains), rate |-> tier.rate]) \in Seq(Part)
    BY <1>1, <1>8
  <2> QED BY <1>1, <1>6, <2>1
<1>10. TakeTier(acc, tier, grains) \in Taking
  <2> DEFINE a == Max({0, acc.skip - days})
             b == acc.left - take
             c == TakeTier(acc, tier, grains).out
  <2>1. a \in Nat /\ b \in Nat /\ c \in Seq(Part)
    BY <1>1, <1>2, <1>4, <1>5, <1>9
  <2>2. TakeTier(acc, tier, grains) = [skip |-> a, left |-> b, out |-> c]
    BY <1>6
  <2> HIDE DEF a, b, c
  <2> QED BY <2>1, <2>2 DEF Taking
<1> QED BY <1>4, <1>5, <1>6, <1>10

\* The states the walk passes through, one for each tier.
Walk(v, tiers, o, l, grains) ==
  /\ v \in [0..Len(tiers) -> Taking]
  /\ v[0] = [skip |-> o, left |-> l, out |-> <<>>]
  /\ \A k \in 1..Len(tiers) : v[k] = TakeTier(v[k - 1], tiers[k], grains)
  /\ takeBreakdown(tiers, o, l, grains) = v[Len(tiers)].out

LEMMA TakesTierByTier ==
  ASSUME NEW tiers \in Seq(Tier), NEW o \in Nat, NEW l \in Nat, NEW grains \in Nat \ {0}
  PROVE  \E v : Walk(v, tiers, o, l, grains)
<1> DEFINE n == Len(tiers)
           base == [skip |-> o, left |-> l, out |-> <<>>]
           step == [k \in 1..n |-> [a \in Taking |-> TakeTier(a, tiers[k], grains)]]
           TakesUp(h) == h = [s \in SUBSET (DOMAIN tiers) |-> IF s = {} THEN base
                                ELSE TakeTier(h[s \ {Max(s)}], tiers[Max(s)], grains)]
           iter == CHOOSE h : TakesUp(h)
<1>1. n \in Nat /\ DOMAIN tiers = 1..n /\ \A k \in 1..n : tiers[k] \in Tier
  OBVIOUS
<1>2. takeBreakdown(tiers, o, l, grains) = iter[1..n].out
  <2>1. takeBreakdown(tiers, o, l, grains) = iter[DOMAIN tiers].out
    BY DEF takeBreakdown, FoldLeft, MapThenFoldSet
  <2> HIDE DEF iter, n
  <2> QED BY <1>1, <2>1
<1>3. base \in Taking
  <2>1. <<>> \in Seq(Part)
    OBVIOUS
  <2> QED BY <2>1 DEF Taking
<1>4. LeftFold(n, Taking, base, step)
  <2>1. ASSUME NEW k \in 1..n, NEW a \in Taking PROVE TakeTier(a, tiers[k], grains) \in Taking
    BY <1>1, TurnTaken
  <2> HIDE DEF n, base
  <2> QED BY <1>1, <1>3, <2>1 DEF LeftFold
<1> HIDE DEF n, base, step
<1>5. \E g, v : OneLeftFold(g, v, n, Taking, base, step)
  BY <1>4, LeftFoldPasses
<1> PICK g, v : OneLeftFold(g, v, n, Taking, base, step)
  BY <1>5
<1>6. \A s \in SUBSET (1..n) : s # {} => Max(s) \in 1..n
  <2> SUFFICES ASSUME NEW s \in SUBSET (1..n), s # {} PROVE Max(s) \in 1..n
    OBVIOUS
  <2>1. Max(s) \in s
    BY <1>1, LastOne
  <2> QED BY <2>1
<1>7. \A k \in 1..n : \A a \in Taking : step[k][a] = TakeTier(a, tiers[k], grains)
  BY DEF step
<1>8. TakesUp(g)
  <2>1. g = [s \in SUBSET (1..n) |-> g[s]] /\ g[{}] = base
    BY DEF OneLeftFold, FoldsLeft
  <2>2. ASSUME NEW s \in SUBSET (1..n), s # {}
        PROVE  g[s] = TakeTier(g[s \ {Max(s)}], tiers[Max(s)], grains)
    <3>1. s \ {Max(s)} \in SUBSET (1..n)
      OBVIOUS
    <3>2. g[s \ {Max(s)}] \in Taking
      BY <3>1 DEF OneLeftFold
    <3>3. g[s] = step[Max(s)][g[s \ {Max(s)}]]
      BY <2>2, <3>2 DEF OneLeftFold, FoldsLeft
    <3> QED BY <1>6, <1>7, <2>2, <3>2, <3>3
  <2>3. \A s \in SUBSET (DOMAIN tiers) : g[s] = IF s = {} THEN base
                                ELSE TakeTier(g[s \ {Max(s)}], tiers[Max(s)], grains)
    BY <1>1, <2>1, <2>2
  <2> QED BY <1>1, <2>1, <2>3
<1>9. TakesUp(iter)
  <2> HIDE DEF TakesUp
  <2> QED BY <1>8
<1> HIDE DEF iter
<1>10. FoldsLeft(iter, n, Taking, base, step)
  <2>1. iter = [s \in SUBSET (1..n) |-> iter[s]] /\ iter[{}] = base
    BY <1>1, <1>9
  <2>2. ASSUME NEW s \in SUBSET (1..n), s # {}, iter[s \ {Max(s)}] \in Taking
        PROVE  iter[s] = step[Max(s)][iter[s \ {Max(s)}]]
    <3>1. iter[s] = TakeTier(iter[s \ {Max(s)}], tiers[Max(s)], grains)
      BY <1>1, <1>9, <2>2
    <3> HIDE DEF TakesUp
    <3> QED BY <1>6, <1>7, <2>2, <3>1
  <2> QED BY <2>1, <2>2 DEF FoldsLeft
<1>11. iter = g
  BY <1>10 DEF OneLeftFold
<1>12. /\ v \in [0..n -> Taking] /\ v[0] = base
       /\ \A k \in 1..n : v[k] = step[k][v[k - 1]]
  BY DEF OneLeftFold, Passes
<1>13. ASSUME NEW k \in 1..n PROVE v[k] = TakeTier(v[k - 1], tiers[k], grains)
  <2>1. k - 1 \in 0..n
    BY <1>1
  <2>2. v[k - 1] \in Taking
    BY <1>12, <2>1
  <2> QED BY <1>7, <1>12, <2>2
<1>14. takeBreakdown(tiers, o, l, grains) = v[n].out
  BY <1>2, <1>11 DEF OneLeftFold
<1>15. Walk(v, tiers, o, l, grains)
  BY <1>12, <1>13, <1>14 DEF Walk, n, base
<1> QED BY <1>15

-----------------------------------------------------------------------------
\* The cents of a list of parts, each times the weight of its rate.
Weights == [Int -> Int]
Weighing(parts, w) == [j \in DOMAIN parts |-> parts[j].cents * w[parts[j].rate]]
Weighted(parts, w) == SumFunctionOnSet(Weighing(parts, w), DOMAIN parts)

LEMMA WeighingType ==
  ASSUME NEW parts \in Seq(Part), NEW w \in Weights
  PROVE  /\ DOMAIN parts = 1..Len(parts) /\ Len(parts) \in Nat
         /\ \A j \in 1..Len(parts) : /\ parts[j] \in Part /\ parts[j].cents \in Nat /\ parts[j].rate \in Int
                                     /\ Weighing(parts, w)[j] \in Int
                                     /\ Weighing(parts, w)[j] = parts[j].cents * w[parts[j].rate]
<1>1. DOMAIN parts = 1..Len(parts) /\ Len(parts) \in Nat /\ \A j \in 1..Len(parts) : parts[j] \in Part
  OBVIOUS
<1>2. ASSUME NEW j \in 1..Len(parts)
      PROVE  /\ parts[j].cents \in Nat /\ parts[j].rate \in Int
             /\ parts[j].cents * w[parts[j].rate] \in Int
  <2>1. parts[j].cents \in Nat /\ parts[j].rate \in Int
    BY <1>1 DEF Part
  <2>2. w[parts[j].rate] \in Int
    BY <2>1 DEF Weights
  <2> QED BY <2>1, <2>2
<1> QED BY <1>1, <1>2 DEF Weighing

LEMMA WeightedAppend ==
  ASSUME NEW parts \in Seq(Part), NEW p \in Part, NEW w \in Weights
  PROVE  /\ Weighted(<<>>, w) = 0
         /\ Weighted(parts, w) \in Int
         /\ Weighted(Append(parts, p), w) = Weighted(parts, w) + p.cents * w[p.rate]
<1> DEFINE n == Len(parts)
           q == Append(parts, p)
           f == Weighing(parts, w)
           h == Weighing(q, w)
<1>0. q \in Seq(Part) /\ Len(q) = n + 1 /\ q[n + 1] = p /\ \A j \in 1..n : q[j] = parts[j]
  OBVIOUS
<1>1. /\ DOMAIN parts = 1..n /\ n \in Nat
      /\ \A j \in 1..n : f[j] \in Int /\ f[j] = parts[j].cents * w[parts[j].rate]
  BY WeighingType
<1>2. /\ DOMAIN q = 1..(n + 1)
      /\ \A j \in 1..(n + 1) : h[j] \in Int /\ h[j] = q[j].cents * w[q[j].rate]
  BY <1>0, WeighingType
<1>3. Weighted(parts, w) = SumFunctionOnSet(f, 1..n) /\ Weighted(q, w) = SumFunctionOnSet(h, 1..(n + 1))
  BY <1>1, <1>2 DEF Weighted
<1> HIDE DEF q, f, h, n
<1>4. PICK m \in 1..(n + 1) : m = n + 1 /\ m - 1 = n
  BY <1>1
<1>5. n + 1 \in Nat
  BY <1>1
<1>6. SumFunctionOnSet(h, 1..m) = h[m] + SumFunctionOnSet(h, 1..(m - 1))
  BY <1>2, <1>5, SumUpTo
<1>7. IsFiniteSet(1..n)
  BY <1>1, FS_Interval
<1>8. SumFunctionOnSet(f, 1..n) \in Int
  BY <1>1, <1>7, SumType
<1>9. SumFunctionOnSet(h, 1..n) = SumFunctionOnSet(f, 1..n)
  <2>1. \A j \in 1..n : h[j] = f[j]
    BY <1>0, <1>1, <1>2
  <2> QED BY <1>1, <1>7, <2>1, SumSame
<1>10. h[m] = p.cents * w[p.rate] /\ h[m] \in Int
  BY <1>0, <1>2, <1>4
<1>11. Weighted(<<>>, w) = 0
  BY SumEmpty DEF Weighted
<1> QED BY <1>3, <1>4, <1>6, <1>8, <1>9, <1>10, <1>11 DEF q

\* Each part comes from a tier of its own, of which it has more than noise,
\* and the parts are in the order of their tiers.
InTierOrder(at, parts, k, tiers, ends, o, l, grains) ==
  /\ at \in [1..Len(parts) -> 1..k]
  /\ \A j \in 1..Len(parts) :
       parts[j].rate = tiers[at[j]].rate /\ 2 * Share(ends, at[j], o, l) > grains
  /\ \A i, j \in 1..Len(parts) : i < j => at[i] < at[j]

\* What the walk has done after k tiers.
WeightKept(tiers, ends, o, l, grains, w) ==
  [i \in 1..Len(tiers) |-> Kept(Share(ends, i, o, l), grains) * w[tiers[i].rate]]
Walked(acc, k, tiers, ends, o, l, grains, w) ==
  /\ acc \in Taking
  /\ acc.skip = (IF o >= ends[k] THEN o - ends[k] ELSE 0)
  /\ acc.left = l - Within(ends[k], o, l)
  /\ Weighted(acc.out, w) = SumFunctionOnSet(WeightKept(tiers, ends, o, l, grains, w), 1..k)
  /\ \E at : InTierOrder(at, acc.out, k, tiers, ends, o, l, grains)

LEMMA KeptType ==
  ASSUME NEW share \in Nat, NEW grains \in Nat \ {0}
  PROVE  /\ Kept(share, grains) \in Nat
         /\ 2 * (grains * Kept(share, grains)) - 2 * share <= grains
         /\ 2 * share - 2 * (grains * Kept(share, grains)) <= grains
<1> DEFINE q == Rounded(share, grains)
           p == grains * q
<1>1. /\ q \in Nat /\ 2 * p <= 2 * share + grains /\ 2 * share + grains < 2 * p + 2 * grains
  BY RoundedBounds
<1>2. p \in Nat
  BY <1>1
<1>3. CASE 2 * share > grains
  <2>1. Kept(share, grains) = q
    BY <1>3 DEF Kept
  <2>2. grains * Kept(share, grains) = p
    BY <2>1
  <2> HIDE DEF p, q
  <2> QED BY <1>1, <1>2, <2>1, <2>2
<1>4. CASE ~(2 * share > grains)
  <2>1. Kept(share, grains) = 0 /\ grains * 0 = 0
    BY <1>4 DEF Kept
  <2> QED BY <1>4, <2>1
<1> QED BY <1>3, <1>4

\* A later end has no less inside.
LEMMA ShareType ==
  ASSUME NEW tiers \in Seq(Tier), NEW grains \in Nat, NEW o \in Nat, NEW l \in Nat,
         NEW i \in 1..Len(tiers), NEW ends, ends = Ends(tiers, grains)
  PROVE  Share(ends, i, o, l) \in Nat /\ Share(ends, i, o, l) <= l
<1>1. /\ i \in 0..Len(tiers) /\ i - 1 \in 0..Len(tiers)
      /\ tiers[i] \in Tier
  OBVIOUS
<1>2. tiers[i].halves \in Nat
  BY <1>1 DEF Tier
<1>3. /\ ends[i - 1] \in Nat /\ ends[i] \in Nat
      /\ ends[i] = ends[i - 1] + tiers[i].halves * 50 * grains
  BY <1>1, EndsGrow
<1>4. tiers[i].halves * 50 * grains >= 0
  BY <1>2, Z3
<1>5. ends[i] >= ends[i - 1]
  <2> DEFINE d == tiers[i].halves * 50 * grains
  <2>1. d \in Int /\ d >= 0
    BY <1>2, <1>4
  <2> HIDE DEF d
  <2> QED BY <1>3, <2>1 DEF d
<1> QED BY <1>3, <1>5 DEF Share, Within, Lesser

LEMMA WalkStarts ==
  ASSUME NEW tiers \in Seq(Tier), NEW o \in Nat, NEW l \in Nat, NEW grains \in Nat \ {0},
         NEW w \in Weights, NEW ends, ends = Ends(tiers, grains),
         NEW acc, acc = [skip |-> o, left |-> l, out |-> <<>>]
  PROVE  Walked(acc, 0, tiers, ends, o, l, grains, w)
<1>1. <<>> \in Seq(Part) /\ Len(<<>>) = 0
  OBVIOUS
<1>2. acc \in Taking
  BY <1>1 DEF Taking
<1>3. ends[0] = 0
  BY EndsGrow
<1>4. Weighted(<<>>, w) = 0 /\ SumFunctionOnSet(WeightKept(tiers, ends, o, l, grains, w), 1..0) = 0
  <2>1. 1..0 = {} /\ DOMAIN <<>> = {}
    OBVIOUS
  <2> QED BY <2>1, SumEmpty DEF Weighted
<1>5. InTierOrder(<<>>, <<>>, 0, tiers, ends, o, l, grains)
  BY <1>1 DEF InTierOrder
<1>6. /\ acc.skip = (IF o >= ends[0] THEN o - ends[0] ELSE 0)
      /\ acc.left = l - Within(ends[0], o, l)
  BY <1>3 DEF Within, Lesser
<1>7. acc.out = <<>>
  OBVIOUS
<1> QED BY <1>2, <1>4, <1>5, <1>6, <1>7 DEF Walked

LEMMA OrderAppend ==
  ASSUME NEW tiers, NEW ends, NEW o, NEW l, NEW grains, NEW k \in Nat \ {0},
         NEW parts \in Seq(Part), NEW at, InTierOrder(at, parts, k - 1, tiers, ends, o, l, grains),
         NEW p \in Part, p.rate = tiers[k].rate, 2 * Share(ends, k, o, l) > grains
  PROVE  \E on : InTierOrder(on, Append(parts, p), k, tiers, ends, o, l, grains)
<1> DEFINE n == Len(parts)
           q == Append(parts, p)
           on == [j \in 1..(n + 1) |-> IF j = n + 1 THEN k ELSE at[j]]
<1>1. n \in Nat /\ Len(q) = n + 1 /\ q[n + 1] = p /\ \A j \in 1..n : q[j] = parts[j]
  OBVIOUS
<1>2. \A j \in 1..(n + 1) : j = n + 1 \/ j \in 1..n
  BY <1>1
<1>3. /\ \A j \in 1..n : at[j] \in 1..(k - 1)
      /\ \A j \in 1..n : parts[j].rate = tiers[at[j]].rate /\ 2 * Share(ends, at[j], o, l) > grains
      /\ \A i, j \in 1..n : i < j => at[i] < at[j]
  BY DEF InTierOrder
<1>4. /\ on[n + 1] = k
      /\ \A j \in 1..n : on[j] = at[j] /\ on[j] \in 1..k /\ on[j] < k
  BY <1>1, <1>3
<1>5. on \in [1..(n + 1) -> 1..k]
  BY <1>2, <1>4
<1> HIDE DEF on, q, n
<1>6. ASSUME NEW j \in 1..(n + 1)
      PROVE  q[j].rate = tiers[on[j]].rate /\ 2 * Share(ends, on[j], o, l) > grains
  <2>1. CASE j = n + 1
    BY <1>1, <1>4, <2>1
  <2>2. CASE j \in 1..n
    BY <1>1, <1>3, <1>4, <2>2
  <2> QED BY <1>2, <2>1, <2>2
<1>7. ASSUME NEW i \in 1..(n + 1), NEW j \in 1..(n + 1), i < j PROVE on[i] < on[j]
  <2>1. i \in 1..n
    BY <1>1, <1>7
  <2>2. CASE j = n + 1
    BY <1>4, <2>1, <2>2
  <2>3. CASE j \in 1..n
    BY <1>3, <1>4, <1>7, <2>1, <2>3
  <2> QED BY <1>2, <2>2, <2>3
<1>8. InTierOrder(on, q, k, tiers, ends, o, l, grains)
  BY <1>1, <1>5, <1>6, <1>7 DEF InTierOrder
<1> QED BY <1>8 DEF q

LEMMA OrderStays ==
  ASSUME NEW tiers, NEW ends, NEW o, NEW l, NEW grains, NEW k \in Nat \ {0},
         NEW parts \in Seq(Part), NEW at, InTierOrder(at, parts, k - 1, tiers, ends, o, l, grains)
  PROVE  InTierOrder(at, parts, k, tiers, ends, o, l, grains)
<1>1. 1..(k - 1) \subseteq 1..k
  OBVIOUS
<1> QED BY <1>1 DEF InTierOrder

LEMMA WalkGoesOn ==
  ASSUME NEW tiers \in Seq(Tier), NEW o \in Nat, NEW l \in Nat, NEW grains \in Nat \ {0},
         NEW w \in Weights, NEW ends, ends = Ends(tiers, grains),
         NEW k \in 1..Len(tiers), NEW acc, Walked(acc, k - 1, tiers, ends, o, l, grains, w)
  PROVE  Walked(TakeTier(acc, tiers[k], grains), k, tiers, ends, o, l, grains, w)
<1> DEFINE n == Len(tiers)
           tier == tiers[k]
           days == tier.halves * 50 * grains
           take == Lesser(acc.left, days - Lesser(acc.skip, days))
           next == TakeTier(acc, tier, grains)
           f == WeightKept(tiers, ends, o, l, grains, w)
           p == [cents |-> Rounded(take, grains), rate |-> tier.rate]
<1>1. /\ n \in Nat /\ k \in 1..n /\ k - 1 \in 0..n /\ k \in 0..n /\ k \in Nat \ {0}
      /\ tier \in Tier
  OBVIOUS
<1>2. tier.halves \in Nat /\ tier.rate \in Int
  BY <1>1 DEF Tier
<1>3. days \in Nat
  <2>1. tier.halves * 50 * grains \in Nat
    BY <1>2, Z3
  <2> QED BY <2>1
<1>4. ends[k - 1] \in Nat /\ ends[k] = ends[k - 1] + days
  BY <1>1, EndsGrow
<1>5. /\ acc \in Taking
      /\ acc.skip = (IF o >= ends[k - 1] THEN o - ends[k - 1] ELSE 0)
      /\ acc.left = l - Within(ends[k - 1], o, l)
      /\ Weighted(acc.out, w) = SumFunctionOnSet(f, 1..(k - 1))
      /\ \E at : InTierOrder(at, acc.out, k - 1, tiers, ends, o, l, grains)
  BY DEF Walked
<1>6. acc.out \in Seq(Part)
  BY <1>5 DEF Taking
<1>7. /\ next \in Taking
      /\ next.skip = (IF acc.skip >= days THEN acc.skip - days ELSE 0)
      /\ next.left = acc.left - take
      /\ next.out = IF 2 * take > grains THEN Append(acc.out, p) ELSE acc.out
      /\ take \in Nat
  BY <1>1, <1>5, TurnTaken
<1>8. /\ take = Share(ends, k, o, l)
      /\ next.skip = (IF o >= ends[k] THEN o - ends[k] ELSE 0)
      /\ next.left = l - Within(ends[k], o, l)
  <2> DEFINE a == ends[k - 1]
             b == ends[k]
             skip == acc.skip
             left == acc.left
  <2>0. skip \in Nat /\ left \in Nat
    BY <1>5 DEF Taking
  <2>1. /\ a \in Nat /\ b = a + days
        /\ skip = (IF o >= a THEN o - a ELSE 0) /\ left = l - Within(a, o, l)
        /\ take = Lesser(left, days - Lesser(skip, days))
    BY <1>4, <1>5
  <2> HIDE DEF a, b, skip, left, days, take, next
  <2>2. /\ take = Within(b, o, l) - Within(a, o, l)
        /\ (IF skip >= days THEN skip - days ELSE 0) = (IF o >= b THEN o - b ELSE 0)
        /\ left - take = l - Within(b, o, l)
    <3>1. take \in Nat
      BY <1>7
    <3>2. CASE o >= b
      BY <1>3, <2>0, <2>1, <3>1, <3>2 DEF Within, Lesser
    <3>3. CASE o < b /\ o >= a
      BY <1>3, <2>0, <2>1, <3>1, <3>3 DEF Within, Lesser
    <3>4. CASE o < a
      BY <1>3, <2>0, <2>1, <3>1, <3>4 DEF Within, Lesser
    <3> QED BY <2>1, <3>2, <3>3, <3>4
  <2> QED BY <1>7, <2>2 DEF Share, a, b, skip, left
<1>9. p \in Part
  <2>1. Rounded(take, grains) \in Nat
    BY <1>7, RoundedBounds
  <2> QED BY <1>2, <2>1 DEF Part
<1>10. \A i \in 1..n : f[i] \in Int
  <2> SUFFICES ASSUME NEW i \in 1..n PROVE f[i] \in Int
    OBVIOUS
  <2>1. Share(ends, i, o, l) \in Nat
    BY ShareType
  <2>2. Kept(Share(ends, i, o, l), grains) \in Nat
    BY <2>1, KeptType
  <2>3. tiers[i].rate \in Int
    <3>1. tiers[i] \in Tier
      OBVIOUS
    <3> QED BY <3>1 DEF Tier
  <2>4. w[tiers[i].rate] \in Int
    BY <2>3 DEF Weights
  <2>5. f[i] = Kept(Share(ends, i, o, l), grains) * w[tiers[i].rate]
    BY DEF WeightKept
  <2> HIDE DEF f
  <2> QED BY <2>2, <2>4, <2>5
<1>11. f[k] = Kept(take, grains) * w[tier.rate]
  <2>1. f[k] = Kept(Share(ends, k, o, l), grains) * w[tiers[k].rate]
    BY <1>1 DEF WeightKept
  <2> HIDE DEF f, take
  <2> QED BY <1>8, <2>1
<1> HIDE DEF f, take, next, n, days
<1>12. SumFunctionOnSet(f, 1..k) = f[k] + SumFunctionOnSet(f, 1..(k - 1))
  BY <1>1, <1>10, SumUpTo
<1>13. w[tier.rate] \in Int
  BY <1>2 DEF Weights
<1>14. Weighted(acc.out, w) \in Int
  BY <1>6, <1>9, WeightedAppend
<1>15. CASE 2 * take > grains
  <2>1. next.out = Append(acc.out, p)
    BY <1>7, <1>15
  <2>2. Weighted(Append(acc.out, p), w) = Weighted(acc.out, w) + p.cents * w[p.rate]
    BY <1>6, <1>9, WeightedAppend
  <2>3. p.cents = Kept(take, grains) /\ p.rate = tier.rate
    BY <1>15 DEF Kept
  <2>4. Weighted(next.out, w) = SumFunctionOnSet(f, 1..k)
    <3>1. p.cents * w[p.rate] = f[k]
      BY <1>11, <2>3
    <3>2. f[k] \in Int
      BY <1>1, <1>10
    <3> HIDE DEF p
    <3> QED BY <1>5, <1>12, <1>14, <2>1, <2>2, <3>1, <3>2
  <2>5. PICK at : InTierOrder(at, acc.out, k - 1, tiers, ends, o, l, grains)
    BY <1>5
  <2>6. \E on : InTierOrder(on, Append(acc.out, p), k, tiers, ends, o, l, grains)
    <3>1. p.rate = tiers[k].rate /\ 2 * Share(ends, k, o, l) > grains
      BY <1>8, <1>15
    <3> HIDE DEF p
    <3> QED BY <1>1, <1>6, <1>9, <2>5, <3>1, OrderAppend
  <2> QED BY <1>7, <1>8, <2>1, <2>4, <2>6 DEF Walked, f, next
<1>16. CASE ~(2 * take > grains)
  <2>1. next.out = acc.out
    BY <1>7, <1>16
  <2>2. f[k] = 0
    <3>1. Kept(take, grains) = 0
      BY <1>16 DEF Kept
    <3> QED BY <1>11, <1>13, <3>1
  <2>3. Weighted(next.out, w) = SumFunctionOnSet(f, 1..k)
    BY <1>5, <1>12, <1>14, <2>1, <2>2
  <2>4. PICK at : InTierOrder(at, acc.out, k - 1, tiers, ends, o, l, grains)
    BY <1>5
  <2>5. InTierOrder(at, acc.out, k, tiers, ends, o, l, grains)
    BY <1>1, <1>6, <2>4, OrderStays
  <2> QED BY <1>7, <1>8, <2>1, <2>3, <2>5 DEF Walked, f, next
<1> QED BY <1>15, <1>16

\* What takeBreakdown gives: of each tier what lies inside the slice, rounded.
LEMMA BreakdownTaken ==
  ASSUME NEW tiers \in Seq(Tier), NEW o \in Nat, NEW l \in Nat, NEW grains \in Nat \ {0},
         NEW w \in Weights, NEW ends, ends = Ends(tiers, grains),
         NEW parts, parts = takeBreakdown(tiers, o, l, grains)
  PROVE  /\ parts \in Seq(Part)
         /\ Weighted(parts, w)
              = SumFunctionOnSet(WeightKept(tiers, ends, o, l, grains, w), 1..Len(tiers))
         /\ \E at : InTierOrder(at, parts, Len(tiers), tiers, ends, o, l, grains)
<1> DEFINE n == Len(tiers)
<1>0. PICK v : Walk(v, tiers, o, l, grains)
  BY TakesTierByTier
<1>1. /\ v \in [0..n -> Taking]
      /\ v[0] = [skip |-> o, left |-> l, out |-> <<>>]
      /\ \A k \in 1..n : v[k] = TakeTier(v[k - 1], tiers[k], grains)
      /\ parts = v[n].out
  BY <1>0 DEF Walk
<1> DEFINE Good == {k \in Nat : k <= n => Walked(v[k], k, tiers, ends, o, l, grains, w)}
<1>2. 0 \in Good
  BY <1>1, WalkStarts
<1>3. ASSUME NEW k \in Good PROVE k + 1 \in Good
  <2> SUFFICES ASSUME k + 1 <= n PROVE Walked(v[k + 1], k + 1, tiers, ends, o, l, grains, w)
    OBVIOUS
  <2>1. PICK m \in 1..n : m = k + 1 /\ m - 1 = k
    OBVIOUS
  <2>2. Walked(v[m - 1], m - 1, tiers, ends, o, l, grains, w)
    BY <2>1
  <2>3. Walked(TakeTier(v[m - 1], tiers[m], grains), m, tiers, ends, o, l, grains, w)
    BY <2>2, WalkGoesOn
  <2>4. v[m] = TakeTier(v[m - 1], tiers[m], grains)
    BY <1>1
  <2> QED BY <2>1, <2>3, <2>4
<1>4. Good = Nat
  <2>1. Good \in SUBSET Nat
    OBVIOUS
  <2> HIDE DEF Good
  <2> QED BY <1>2, <1>3, <2>1, NaturalInduction
<1>5. Walked(v[n], n, tiers, ends, o, l, grains, w)
  <2>1. n \in Nat
    OBVIOUS
  <2> QED BY <1>4, <2>1
<1>6. v[n].out \in Seq(Part)
  BY <1>5 DEF Walked, Taking
<1> QED BY <1>1, <1>5, <1>6 DEF Walked

-----------------------------------------------------------------------------
(***************************************************************************)
(* One slice of an entry.                                                  *)
(***************************************************************************)
\* An entry of the ledger.
IsEntry(entry) ==
  /\ IsSpan(entry) /\ entry.from <= entry.to /\ entry.tiers \in Seq(Tier)
  /\ entry.halves = SumFunctionOnSet(Halves(entry.tiers), 1..Len(entry.tiers))

\* No two of its tiers are paid alike, so that the rate of a part tells its tier.
ToldApart(entry) ==
  \A i, j \in DOMAIN entry.tiers : entry.tiers[i].rate = entry.tiers[j].rate => i = j

\* The calendar days of the entry before a day.
Before(entry, day) ==
  IF day <= entry.from THEN 0 ELSE IF day > entry.to THEN DaysOf(entry) ELSE day - entry.from

\* The grains of the first x days of an entry, and those of its tier i.
PerDay(entry) == 50 * entry.halves
Reach(entry, i, x) ==
  LET ends == Ends(entry.tiers, DaysOf(entry))
  IN  Lesser(ends[i], PerDay(entry) * x) - Lesser(ends[i - 1], PerDay(entry) * x)

\* How far a hundredth of a day may be from what it stands for, in hundredths.
Slack(entry) == IF entry.halves = 2 * DaysOf(entry) THEN 0 ELSE 1

Near(x, y, c) == x - y <= c /\ y - x <= c

\* s is what an entry has between its days a and b.
IsPiece(s, entry, a, b) ==
  LET g == DaysOf(entry)
      n == Len(entry.tiers)
  IN /\ s.cents \in Nat /\ s.tiers \in Seq(Part)
     /\ Near(g * s.cents, PerDay(entry) * b - PerDay(entry) * a, Slack(entry) * g)
     /\ \E kept \in [1..n -> Nat] :
          /\ \A i \in 1..n : Near(g * kept[i], Reach(entry, i, b) - Reach(entry, i, a), Slack(entry) * g)
          /\ Near(SumFunctionOnSet(kept, 1..n), s.cents, Slack(entry) * ((n + 1) \div 2))
          /\ \A w \in Weights :
               Weighted(s.tiers, w) = SumFunctionOnSet([i \in 1..n |-> kept[i] * w[entry.tiers[i].rate]], 1..n)
     /\ \E at \in [1..Len(s.tiers) -> 1..n] :
          /\ \A j \in 1..Len(s.tiers) : s.tiers[j].rate = entry.tiers[at[j]].rate
          /\ \A i, j \in 1..Len(s.tiers) : i < j => at[i] < at[j]
          /\ \/ a = 0 /\ b = g
             \/ \A j \in 1..Len(s.tiers) :
                  /\ PerDay(entry) * a < Ends(entry.tiers, g)[at[j]]
                  /\ Ends(entry.tiers, g)[at[j] - 1] < PerDay(entry) * b

\* The days of a window that belong to an entry.
LEMMA WindowCut ==
  ASSUME NEW entry, IsSpan(entry), entry.from <= entry.to, NEW window, IsSpan(window),
         window.from <= window.to,
         NEW a, a = Before(entry, window.from), NEW b, b = Before(entry, window.to + 1)
  PROVE  /\ a \in Nat /\ b \in Nat /\ a <= b /\ b <= DaysOf(entry) /\ DaysOf(entry) \in Nat \ {0}
         /\ DaysOf(Overlap(entry, window)) = b - a
         /\ a < b => Overlap(entry, window).from - entry.from = a
<1>1. /\ entry.from \in Int /\ entry.to \in Int /\ window.from \in Int /\ window.to \in Int
  BY DEF IsSpan
<1>2. /\ Overlap(entry, window).from = (IF entry.from >= window.from THEN entry.from ELSE window.from)
      /\ Overlap(entry, window).to = (IF entry.to <= window.to THEN entry.to ELSE window.to)
  BY <1>1, MinOfTwo, MaxOfTwo DEF Overlap
<1> DEFINE s == Overlap(entry, window)
<1> HIDE DEF s
<1>3. DaysOf(entry) = entry.to - entry.from + 1
  BY <1>1 DEF DaysOf
<1>4. DaysOf(s) = IF s.from > s.to THEN 0 ELSE s.to - s.from + 1
  BY DEF DaysOf
<1>5. /\ s.from = (IF entry.from >= window.from THEN entry.from ELSE window.from)
      /\ s.to = (IF entry.to <= window.to THEN entry.to ELSE window.to)
  BY <1>2 DEF s
<1>6. /\ a = (IF window.from <= entry.from THEN 0
              ELSE IF window.from > entry.to THEN DaysOf(entry) ELSE window.from - entry.from)
      /\ b = (IF window.to + 1 <= entry.from THEN 0
              ELSE IF window.to + 1 > entry.to THEN DaysOf(entry) ELSE window.to + 1 - entry.from)
  <2>1. a = (IF window.from <= entry.from THEN 0
             ELSE IF window.from > entry.to THEN DaysOf(entry) ELSE window.from - entry.from)
    BY Zenon DEF Before
  <2>2. b = (IF window.to + 1 <= entry.from THEN 0
             ELSE IF window.to + 1 > entry.to THEN DaysOf(entry) ELSE window.to + 1 - entry.from)
    <3>1. PICK day : day = window.to + 1
      OBVIOUS
    <3>2. b = IF day <= entry.from THEN 0
              ELSE IF day > entry.to THEN DaysOf(entry) ELSE day - entry.from
      BY <3>1, Zenon DEF Before
    <3> QED BY <1>1, <3>1, <3>2
  <2> QED BY <2>1, <2>2
<1>7. /\ a \in Nat /\ b \in Nat /\ a <= b /\ b <= DaysOf(entry) /\ DaysOf(entry) \in Nat \ {0}
  BY <1>1, <1>3, <1>6
<1>8. DaysOf(s) = b - a /\ (a < b => s.from - entry.from = a)
  <2>1. CASE window.to + 1 <= entry.from
    BY <1>1, <1>3, <1>4, <1>5, <1>6, <2>1
  <2>2. CASE window.from > entry.to
    BY <1>1, <1>3, <1>4, <1>5, <1>6, <2>2
  <2>3. CASE window.to + 1 > entry.from /\ window.from <= entry.to
    <3>1. s.from = entry.from + a /\ s.to = entry.from + b - 1 /\ a < b
      BY <1>1, <1>3, <1>5, <1>6, <2>3
    <3> QED BY <1>1, <1>4, <1>7, <3>1
  <2> QED BY <1>1, <2>1, <2>2, <2>3
<1> QED BY <1>7, <1>8 DEF s

\* A share of a slice that is a little longer or shorter than the days it is for.
LEMMA ShareBounds ==
  ASSUME NEW lo \in Nat, NEW hi \in Nat, lo <= hi, NEW o \in Nat, NEW l \in Nat, NEW x \in Nat,
         NEW g \in Nat \ {0}, 2 * l - 2 * x <= g, 2 * x - 2 * l <= g,
         NEW share, share = Within(hi, o, l) - Within(lo, o, l),
         NEW real, real = (Lesser(hi, o + x) - Lesser(lo, o + x)) - (Lesser(hi, o) - Lesser(lo, o))
  PROVE  /\ share \in Nat /\ real \in Nat
         /\ 2 * share - 2 * real <= g /\ 2 * real - 2 * share <= g
         /\ 2 * share > g => o < hi /\ lo < o + x
<1>1. share \in Nat /\ real \in Nat
  BY DEF Within, Lesser
<1>2. 2 * share - 2 * real <= g /\ 2 * real - 2 * share <= g
  <2>1. CASE hi <= o
    BY <2>1 DEF Within, Lesser
  <2>2. CASE hi > o /\ lo <= o
    BY <2>2 DEF Within, Lesser
  <2>3. CASE lo > o
    BY <2>3 DEF Within, Lesser
  <2> QED BY <2>1, <2>2, <2>3
<1>3. 2 * share > g => o < hi /\ lo < o + x
  <2>1. CASE hi <= o
    BY <2>1 DEF Within, Lesser
  <2>2. CASE hi > o /\ lo <= o
    BY <2>2 DEF Within, Lesser
  <2>3. CASE lo > o
    BY <2>3 DEF Within, Lesser
  <2> QED BY <2>1, <2>2, <2>3
<1> QED BY <1>1, <1>2, <1>3

\* The ends are in order.
LEMMA EndsInOrder ==
  ASSUME NEW n \in Nat, NEW p, \A k \in 0..n : p[k] \in Int, \A k \in 1..n : p[k - 1] <= p[k]
  PROVE  \A i, j \in 0..n : i <= j => p[i] <= p[j]
<1> DEFINE Good == {k \in Nat : k <= n => \A i \in 0..k : p[i] <= p[k]}
<1>1. 0 \in Good
  OBVIOUS
<1>2. ASSUME NEW k \in Good PROVE k + 1 \in Good
  <2> SUFFICES ASSUME k + 1 <= n, NEW i \in 0..(k + 1) PROVE p[i] <= p[k + 1]
    OBVIOUS
  <2>1. PICK m \in 1..n : m = k + 1 /\ m - 1 = k
    OBVIOUS
  <2>2. p[k] <= p[k + 1] /\ p[k] \in Int /\ p[k + 1] \in Int
    BY <2>1
  <2>3. CASE i = k + 1
    BY <2>2, <2>3
  <2>4. CASE i \in 0..k
    <3>1. p[i] <= p[k] /\ p[i] \in Int
      BY <2>4
    <3> QED BY <2>2, <3>1
  <2> QED BY <2>3, <2>4
<1>3. Good = Nat
  <2>1. Good \in SUBSET Nat
    OBVIOUS
  <2> HIDE DEF Good
  <2> QED BY <1>1, <1>2, <2>1, NaturalInduction
<1> QED BY <1>3

\* How an entry is laid out, in grains.
LEMMA EntryGrains ==
  ASSUME NEW entry, IsEntry(entry), NEW n, n = Len(entry.tiers), NEW g, g = DaysOf(entry),
         NEW ends, ends = Ends(entry.tiers, g)
  PROVE  /\ n \in Nat /\ g \in Nat \ {0} /\ entry.tiers \in Seq(Tier) /\ DOMAIN entry.tiers = 1..n
         /\ entry.halves \in Nat /\ PerDay(entry) \in Nat
         /\ \A k \in 0..n : ends[k] \in Nat
         /\ ends[0] = 0 /\ ends[n] = g * PerDay(entry)
         /\ \A k \in 1..n : /\ ends[k - 1] <= ends[k]
                            /\ entry.tiers[k].halves \in Nat /\ entry.tiers[k].rate \in Int
                            /\ ends[k] = ends[k - 1] + 50 * (g * entry.tiers[k].halves)
         /\ \A i, j \in 0..n : i <= j => ends[i] <= ends[j]
<1> DEFINE t == entry.tiers
           h == entry.halves
<1>1. t \in Seq(Tier) /\ IsSpan(entry) /\ entry.from <= entry.to
      /\ h = SumFunctionOnSet(Halves(t), 1..n)
  BY DEF IsEntry
<1>2. n \in Nat /\ DOMAIN t = 1..n /\ \A k \in 1..n : t[k] \in Tier
  BY <1>1
<1>3. \A k \in 1..n : t[k].halves \in Nat /\ t[k].rate \in Int
  BY <1>2 DEF Tier
<1>4. g \in Nat \ {0}
  BY <1>1 DEF IsSpan, DaysOf
<1>5. h \in Nat
  <2>1. IsFiniteSet(1..n)
    BY <1>2, FS_Interval
  <2>2. \A k \in 1..n : Halves(t)[k] \in Nat
    BY <1>2, <1>3 DEF Halves
  <2> QED BY <1>1, <2>1, <2>2, SumNat
<1>6. PerDay(entry) \in Nat /\ PerDay(entry) = 50 * h
  BY <1>5 DEF PerDay
<1>7. /\ \A k \in 0..n : ends[k] \in Nat
      /\ ends[0] = 0
      /\ \A k \in 1..n : ends[k] = ends[k - 1] + t[k].halves * 50 * g
  BY <1>1, <1>4, EndsGrow
<1>8. ends[n] = g * PerDay(entry)
  <2>1. n \in 0..n
    BY <1>2
  <2>2. ends[n] = 50 * g * h
    BY <1>1, <2>1 DEF Ends
  <2>3. 50 * g * h = g * (50 * h)
    BY <1>4, <1>5, Z3
  <2> QED BY <1>6, <2>2, <2>3
<1>9. ASSUME NEW k \in 1..n PROVE ends[k - 1] <= ends[k] /\ ends[k] = ends[k - 1] + 50 * (g * t[k].halves)
  <2>1. t[k].halves * 50 * g = 50 * (g * t[k].halves) /\ g * t[k].halves \in Nat
    <3>1. \A x \in Nat : x * 50 * g = 50 * (g * x) /\ g * x \in Nat
      BY <1>4, Z3
    <3> QED BY <1>3, <3>1
  <2>2. k \in 0..n /\ k - 1 \in 0..n
    BY <1>2
  <2> DEFINE d == g * t[k].halves
  <2>3. d \in Nat /\ t[k].halves * 50 * g = 50 * d
    BY <2>1
  <2> HIDE DEF d
  <2>4. ends[k] = ends[k - 1] + 50 * d /\ ends[k - 1] \in Nat
    <3>1. ends[k] = ends[k - 1] + t[k].halves * 50 * g
      BY <1>7
    <3>2. ends[k - 1] \in Nat
      BY <1>7, <2>2
    <3>3. ends[k] = ends[k - 1] + 50 * d
      BY <3>1, <2>3, Zenon
    <3> QED BY <3>2, <3>3
  <2> QED BY <2>3, <2>4 DEF d
<1>10. \A i, j \in 0..n : i <= j => ends[i] <= ends[j]
  <2>1. \A k \in 0..n : ends[k] \in Int
    BY <1>7
  <2>2. \A k \in 1..n : ends[k - 1] <= ends[k]
    BY <1>9
  <2> QED BY <1>2, <2>1, <2>2, EndsInOrder
<1> QED BY <1>1, <1>2, <1>3, <1>4, <1>5, <1>6, <1>7, <1>8, <1>9, <1>10

\* Multiples of g.
LEMMA LesserScaled ==
  ASSUME NEW g \in Nat \ {0}, NEW x \in Int, NEW y \in Int
  PROVE  Lesser(g * x, g * y) = g * Lesser(x, y)
<1>1. CASE x <= y
  <2>1. g * x <= g * y
    BY <1>1, Z3
  <2> QED BY <1>1, <2>1 DEF Lesser
<1>2. CASE ~(x <= y)
  <2>1. ~(g * x <= g * y)
    BY <1>2, Z3
  <2> QED BY <1>2, <2>1 DEF Lesser
<1> QED BY <1>1, <1>2

LEMMA RoundedWhole ==
  ASSUME NEW g \in Nat \ {0}, NEW x \in Nat
  PROVE  Rounded(g * x, g) = x /\ Kept(g * x, g) = x
<1> DEFINE q == Rounded(g * x, g)
<1>1. g * x \in Nat
  BY Z3
<1>2. q \in Nat /\ 2 * (g * q) <= 2 * (g * x) + g /\ 2 * (g * x) + g < 2 * (g * q) + 2 * g
  BY <1>1, RoundedBounds
<1> HIDE DEF q
<1>3. g * (q - x) < 0 * g + g /\ g * (x - q) < 0 * g + g
  <2>1. g * (q - x) = g * q - g * x /\ g * (x - q) = g * x - g * q /\ g * q \in Int
    BY <1>2, Z3
  <2> DEFINE A == g * q
             B == g * x
  <2>2. A \in Int /\ B \in Int /\ 2 * A <= 2 * B + g /\ 2 * B + g < 2 * A + 2 * g
    BY <1>1, <1>2, <2>1
  <2> HIDE DEF A, B
  <2>3. A - B < g /\ B - A < g
    BY <2>2
  <2>4. g * (q - x) = A - B /\ g * (x - q) = B - A /\ 0 * g + g = g
    BY <2>1 DEF A, B
  <2> QED BY <2>3, <2>4
<1>4. q - x <= 0 /\ x - q <= 0
  <2>1. q - x \in Int /\ x - q \in Int
    BY <1>2
  <2> QED BY <1>3, <2>1, ProductBound
<1>5. q = x
  BY <1>2, <1>4
<1>6. Kept(g * x, g) = x
  <2>1. CASE x = 0
    <3>1. g * x = 0
      BY <2>1
    <3> QED BY <2>1, <3>1 DEF Kept
  <2>2. CASE x >= 1
    <3>1. 2 * (g * x) > g
      BY <2>2, Z3
    <3> QED BY <1>5, <3>1 DEF Kept, q
  <2> QED BY <2>1, <2>2
<1> QED BY <1>5, <1>6 DEF q

\* In an entry of whole calendar days everything is a multiple of g.
LEMMA WholeShares ==
  ASSUME NEW entry, IsEntry(entry), NEW g, g = DaysOf(entry), entry.halves = 2 * g,
         NEW a \in Nat, NEW b \in Nat, a <= b, b <= g, NEW n, n = Len(entry.tiers),
         NEW ends, ends = Ends(entry.tiers, g), NEW i \in 1..n
  PROVE  g * Kept(Share(ends, i, g * (100 * a), g * (100 * (b - a))), g)
           = Share(ends, i, g * (100 * a), g * (100 * (b - a)))
<1> DEFINE S(k) == 50 * SumFunctionOnSet(Halves(entry.tiers), 1..k)
           W(k) == Lesser(S(k), 100 * a + 100 * (b - a)) - Lesser(S(k), 100 * a)
<1>1. /\ n \in Nat /\ g \in Nat \ {0} /\ entry.tiers \in Seq(Tier) /\ DOMAIN entry.tiers = 1..n
      /\ \A k \in 1..n : entry.tiers[k].halves \in Nat
  BY EntryGrains
<1>2. ASSUME NEW k \in 0..n PROVE S(k) \in Nat /\ ends[k] = g * S(k)
  <2> DEFINE s == SumFunctionOnSet(Halves(entry.tiers), 1..k)
  <2>1. IsFiniteSet(1..k) /\ 1..k \subseteq 1..n
    <3>1. 1 \in Int /\ k \in Int /\ 1..k \subseteq 1..n
      BY <1>1
    <3> QED BY <3>1, FS_Interval
  <2>2. \A j \in 1..k : Halves(entry.tiers)[j] \in Nat
    BY <1>1, <2>1 DEF Halves
  <2>3. s \in Nat
    BY <2>1, <2>2, SumNat
  <2>4. ends[k] = 50 * g * s
    BY <1>1 DEF Ends
  <2> HIDE DEF s
  <2>5. 50 * g * s = g * (50 * s)
    BY <1>1, <2>3, Z3
  <2> QED BY <2>3, <2>4, <2>5 DEF s
<1> HIDE DEF S
<1>3. ASSUME NEW k \in 0..n
      PROVE  /\ W(k) \in Nat
             /\ Within(ends[k], g * (100 * a), g * (100 * (b - a))) = g * W(k)
  <2>1. S(k) \in Nat /\ ends[k] = g * S(k)
    BY <1>2
  <2> DEFINE p == 100 * a
             q == 100 * (b - a)
             u == Lesser(S(k), p + q)
             v == Lesser(S(k), p)
  <2>2. p \in Nat /\ q \in Nat
    OBVIOUS
  <2> HIDE DEF p, q
  <2>3. g * p + g * q = g * (p + q)
    BY <1>1, <2>2
  <2>4. Lesser(g * S(k), g * (p + q)) = g * u /\ Lesser(g * S(k), g * p) = g * v
    <3>1. p + q \in Int /\ p \in Int /\ S(k) \in Int
      BY <2>1, <2>2
    <3> QED BY <1>1, <3>1, LesserScaled
  <2>5. Within(ends[k], g * p, g * q) = g * u - g * v
    BY <2>1, <2>3, <2>4 DEF Within
  <2>6. u \in Nat /\ v \in Nat /\ u >= v
    BY <2>1, <2>2 DEF Lesser
  <2> HIDE DEF u, v
  <2>7. g * u - g * v = g * (u - v)
    BY <1>1, <2>6
  <2> QED BY <2>5, <2>6, <2>7 DEF u, v, p, q
<1> HIDE DEF W
<1> DEFINE share == Share(ends, i, g * (100 * a), g * (100 * (b - a)))
           z == W(i) - W(i - 1)
<1>4. i \in 0..n /\ i - 1 \in 0..n
  BY <1>1
<1>5. share = g * W(i) - g * W(i - 1) /\ W(i) \in Nat /\ W(i - 1) \in Nat
  BY <1>3, <1>4 DEF Share
<1>6. share = g * z /\ z \in Int
  <2>1. \A x, y \in Nat : g * x - g * y = g * (x - y) /\ x - y \in Int
    BY <1>1
  <2> HIDE DEF share
  <2>2. PICK x, y \in Nat : x = W(i) /\ y = W(i - 1)
    BY <1>5
  <2>3. share = g * x - g * y /\ z = x - y
    BY <1>5, <2>2
  <2> HIDE DEF z
  <2> QED BY <2>1, <2>3
<1>7. share \in Nat
  <2>1. g \in Nat /\ g * (100 * a) \in Nat /\ g * (100 * (b - a)) \in Nat
    <3>1. \A x \in Nat : g * x \in Nat
      BY <1>1
    <3>2. 100 * a \in Nat /\ 100 * (b - a) \in Nat
      OBVIOUS
    <3> QED BY <1>1, <3>1, <3>2
  <2>2. PICK o, l \in Nat : o = g * (100 * a) /\ l = g * (100 * (b - a))
    BY <2>1
  <2>3. Share(ends, i, o, l) \in Nat
    BY <1>1, <2>1, ShareType
  <2> QED BY <2>2, <2>3
<1> HIDE DEF share, z
<1>8. z \in Nat
  <2>1. ASSUME z < 0 PROVE FALSE
    <3>1. g * z < 0
      BY <1>1, <1>6, <2>1, Z3
    <3> QED BY <1>6, <1>7, <3>1
  <2> QED BY <1>6, <2>1
<1>9. Kept(share, g) = z
  BY <1>1, <1>6, <1>8, RoundedWhole
<1> QED BY <1>6, <1>9 DEF share

\* What a slice keeps of all tiers together.
LEMMA AllKept ==
  ASSUME NEW n \in Nat, NEW g \in Nat \ {0}, NEW kept, NEW share,
         \A i \in 1..n : kept[i] \in Nat /\ share[i] \in Nat,
         NEW e \in {0, 1}, \A i \in 1..n : Near(2 * (g * kept[i]), 2 * share[i], e * g),
         NEW c \in Nat, Near(2 * SumFunctionOnSet(share, 1..n), 2 * (g * c), e * g)
  PROVE  Near(SumFunctionOnSet(kept, 1..n), c, e * ((n + 1) \div 2))
<1> DEFINE K == SumFunctionOnSet(kept, 1..n)
           H == SumFunctionOnSet(share, 1..n)
           twice == [i \in 1..n |-> (2 * g) * kept[i]]
           real == [i \in 1..n |-> 2 * share[i]]
<1>1. IsFiniteSet(1..n) /\ Cardinality(1..n) = n
  <2>1. 1 \in Int /\ n \in Int
    OBVIOUS
  <2> QED BY <2>1, FS_Interval
<1>2. K \in Int /\ H \in Int
  <2>1. \A i \in 1..n : kept[i] \in Int /\ share[i] \in Int
    OBVIOUS
  <2> QED BY <1>1, <2>1, SumType
<1>3. SumFunctionOnSet(twice, 1..n) = (2 * g) * K
  <2>1. 2 * g \in Int /\ \A i \in 1..n : kept[i] \in Int /\ twice[i] = (2 * g) * kept[i]
    OBVIOUS
  <2> HIDE DEF twice
  <2> QED BY <1>1, <2>1, SumScaled
<1>4. SumFunctionOnSet(real, 1..n) = 2 * H
  <2>1. 2 \in Int /\ \A i \in 1..n : share[i] \in Int /\ real[i] = 2 * share[i]
    OBVIOUS
  <2> HIDE DEF real
  <2> QED BY <1>1, <2>1, SumScaled
<1>5. \A i \in 1..n : (2 * g) * kept[i] = 2 * (g * kept[i]) /\ (2 * g) * kept[i] \in Int
  <2>1. \A x \in Nat : (2 * g) * x = 2 * (g * x) /\ (2 * g) * x \in Int
    BY Z3
  <2> QED BY <2>1
<1>6. /\ SumFunctionOnSet(twice, 1..n) - SumFunctionOnSet(real, 1..n) <= (e * g) * n
      /\ SumFunctionOnSet(real, 1..n) - SumFunctionOnSet(twice, 1..n) <= (e * g) * n
  <2>1. \A i \in 1..n : /\ twice[i] \in Int /\ real[i] \in Int
                        /\ twice[i] - real[i] <= e * g /\ real[i] - twice[i] <= e * g
    <3> SUFFICES ASSUME NEW i \in 1..n
                 PROVE  /\ twice[i] \in Int /\ real[i] \in Int
                        /\ twice[i] - real[i] <= e * g /\ real[i] - twice[i] <= e * g
      OBVIOUS
    <3>1. twice[i] = (2 * g) * kept[i] /\ real[i] = 2 * share[i]
      OBVIOUS
    <3> HIDE DEF twice, real
    <3>2. (2 * g) * kept[i] = 2 * (g * kept[i]) /\ (2 * g) * kept[i] \in Int /\ 2 * share[i] \in Int
      BY <1>5
    <3> QED BY <3>1, <3>2 DEF Near
  <2>2. e * g \in Int
    OBVIOUS
  <2> HIDE DEF twice, real
  <2> QED BY <1>1, <2>1, <2>2, SumClose
<1> HIDE DEF K, H, twice, real
<1>7. (2 * g) * K = 2 * (g * K) /\ g * K \in Int /\ g * c \in Int
  <2>1. \A x \in Int : (2 * g) * x = 2 * (g * x) /\ g * x \in Int
    BY Z3
  <2> QED BY <1>2, <2>1
<1>8. g * (2 * (K - c)) = 2 * (g * K) - 2 * (g * c) /\ g * (2 * (c - K)) = 2 * (g * c) - 2 * (g * K)
  BY <1>2, Z3
<1> DEFINE P == g * K
           Q == g * c
<1>9. CASE e = 0
  <2>1. 2 * P - 2 * H <= 0 /\ 2 * H - 2 * P <= 0 /\ 2 * H - 2 * Q <= 0 /\ 2 * Q - 2 * H <= 0
    <3>1. e * g = 0 /\ (e * g) * n = 0
      BY <1>9
    <3> QED BY <1>3, <1>4, <1>6, <1>7, <3>1 DEF Near, H
  <2>2. P = Q
    <3> HIDE DEF P, Q
    <3>1. P \in Int /\ Q \in Int
      BY <1>7 DEF P, Q
    <3> QED BY <1>2, <2>1, <3>1
  <2>3. K = c
    BY <1>2, <2>2, Z3
  <2> QED BY <1>9, <2>3 DEF Near, K
<1>10. CASE e = 1
  <2>1. e * g = g /\ (e * g) * n = n * g /\ n * g \in Int
    BY <1>10
  <2> DEFINE N == n * g
  <2>2. /\ 2 * P - 2 * H <= N /\ 2 * H - 2 * P <= N /\ 2 * H - 2 * Q <= g /\ 2 * Q - 2 * H <= g
    BY <1>3, <1>4, <1>6, <1>7, <2>1 DEF Near, H
  <2>3. 2 * P - 2 * Q <= N + g /\ 2 * Q - 2 * P <= N + g
    <3>1. P \in Int /\ Q \in Int /\ N \in Int
      BY <1>7, <2>1 DEF P, Q
    <3> HIDE DEF P, Q, N
    <3> QED BY <1>2, <2>2, <3>1
  <2>4. N + g = (n + 1) * g
    OBVIOUS
  <2>5. g * (2 * (K - c)) < (n + 1) * g + g /\ g * (2 * (c - K)) < (n + 1) * g + g
    <3> DEFINE M == (n + 1) * g
    <3>1. M \in Int /\ 2 * P - 2 * Q <= M /\ 2 * Q - 2 * P <= M
      BY <2>3, <2>4
    <3>2. g * (2 * (K - c)) <= M /\ g * (2 * (c - K)) <= M
      BY <1>8, <3>1
    <3>3. g * (2 * (K - c)) \in Int /\ g * (2 * (c - K)) \in Int
      BY <1>2
    <3> HIDE DEF M
    <3>4. g * (2 * (K - c)) < M + g /\ g * (2 * (c - K)) < M + g
      BY <3>1, <3>2, <3>3
    <3> QED BY <3>4 DEF M
  <2>6. 2 * (K - c) <= n + 1 /\ 2 * (c - K) <= n + 1
    <3>1. 2 * (K - c) \in Int /\ 2 * (c - K) \in Int /\ n + 1 \in Int
      BY <1>2
    <3> QED BY <2>5, <3>1, ProductBound
  <2>7. K - c <= (n + 1) \div 2 /\ c - K <= (n + 1) \div 2
    BY <1>2, <2>6
  <2> QED BY <1>10, <2>7 DEF Near, K
<1> QED BY <1>9, <1>10

\* The shares of all tiers together.
LEMMA SharesTogether ==
  ASSUME NEW n \in Nat, NEW ends, \A k \in 0..n : ends[k] \in Nat, NEW o \in Nat, NEW l \in Nat,
         NEW share, \A k \in 1..n : share[k] = Share(ends, k, o, l)
  PROVE  SumFunctionOnSet(share, 1..n) = Within(ends[n], o, l) - Within(ends[0], o, l)
<1> DEFINE met == [k \in 0..n |-> Within(ends[k], o, l)]
<1>1. ASSUME NEW k \in 0..n PROVE met[k] \in Int /\ met[k] = Within(ends[k], o, l)
  <2>1. ends[k] \in Nat /\ met[k] = Within(ends[k], o, l)
    OBVIOUS
  <2> HIDE DEF met
  <2> QED BY <2>1 DEF Within, Lesser
<1>2. ASSUME NEW k \in 1..n PROVE share[k] = met[k] - met[k - 1]
  <2>1. k \in 0..n /\ k - 1 \in 0..n
    OBVIOUS
  <2> HIDE DEF met
  <2> QED BY <1>1, <2>1 DEF Share
<1> HIDE DEF met
<1>3. SumFunctionOnSet(share, 1..n) = met[n] - met[0]
  <2>1. \A k \in 0..n : met[k] \in Int
    BY <1>1
  <2>2. \A k \in 1..n : share[k] = met[k] - met[k - 1]
    BY <1>2
  <2> QED BY <2>1, <2>2, SumTelescopes
<1> QED BY <1>1, <1>3

\* What sliceForPeriod puts into a slice that is not the whole entry.
IsCut(s, entry, a, b) ==
  /\ s.cents = Rounded((b - a) * entry.halves * 50, DaysOf(entry))
  /\ s.tiers = takeBreakdown(entry.tiers, a * entry.halves * 50,
                             s.cents * DaysOf(entry), DaysOf(entry))

LEMMA CutPiece ==
  ASSUME NEW entry, IsEntry(entry), NEW a \in Nat, NEW b \in Nat, a < b, b <= DaysOf(entry),
         NEW s, IsCut(s, entry, a, b)
  PROVE  IsPiece(s, entry, a, b)
<1>0. PICK n, g, ends, H, c, e :
        /\ n = Len(entry.tiers) /\ g = DaysOf(entry) /\ ends = Ends(entry.tiers, g)
        /\ H = PerDay(entry) /\ c = s.cents /\ e = Slack(entry)
  OBVIOUS
<1>1. n \in Nat /\ g \in Nat \ {0} /\ H \in Nat /\ e \in {0, 1}
  <2>1. n \in Nat /\ g \in Nat \ {0} /\ H \in Nat
    BY <1>0, EntryGrains
  <2> QED BY <1>0, <2>1 DEF Slack
<1>a. /\ entry.tiers \in Seq(Tier) /\ entry.halves \in Nat /\ H = 50 * entry.halves
      /\ e = 0 => entry.halves = 2 * g
  <2>1. entry.tiers \in Seq(Tier) /\ entry.halves \in Nat
    BY <1>0, EntryGrains
  <2> QED BY <1>0, <2>1 DEF PerDay, Slack
<1>b. ends[0] = 0 /\ ends[n] = g * H
  BY <1>0, EntryGrains
<1>c. \A k \in 0..n : ends[k] \in Nat
  BY <1>0, EntryGrains
<1>d. \A k \in 1..n : ends[k - 1] <= ends[k] /\ k \in 0..n /\ k - 1 \in 0..n
  <2>1. \A k \in 1..n : ends[k - 1] <= ends[k]
    BY <1>0, EntryGrains
  <2> QED BY <1>1, <2>1
<1>2. PICK o, x : /\ a * entry.halves * 50 = o /\ (b - a) * entry.halves * 50 = x
                  /\ o = H * a /\ x = H * b - H * a
                  /\ o \in Nat /\ x \in Nat /\ o + x = H * b /\ o + x <= g * H
  <2>1. PICK h \in Nat : h = entry.halves /\ H = 50 * h
    BY <1>a
  <2>2. a * h * 50 = (50 * h) * a /\ (b - a) * h * 50 = (50 * h) * b - (50 * h) * a
    BY Z3
  <2>3. H * a \in Nat /\ H * b \in Nat /\ H * a <= H * b /\ H * b <= g * H
    <3>1. \A u, v \in Nat : H * u \in Nat /\ H * v = v * H /\ (u <= v => H * u <= H * v)
      <4>1. H \in Nat
        BY <1>1
      <4> QED BY <4>1, Z3
    <3>2. b <= g
      BY <1>0
    <3> QED BY <1>1, <3>1, <3>2
  <2>4. PICK A, B \in Nat : A = H * a /\ B = H * b
    BY <2>3
  <2>5. H * b - H * a = B - A /\ B - A \in Nat /\ A + (B - A) = B
    BY <2>3, <2>4
  <2>6. a * entry.halves * 50 = A /\ (b - a) * entry.halves * 50 = B - A
    BY <2>1, <2>2, <2>4
  <2> QED BY <2>3, <2>4, <2>5, <2>6
<1>3. PICK l : /\ l = g * c /\ l = s.cents * g
               /\ c \in Nat /\ c = Rounded(x, g) /\ l \in Nat
               /\ 2 * l - 2 * x <= g /\ 2 * x - 2 * l <= g
  <2>1. c = Rounded(x, g)
    BY <1>0, <1>2 DEF IsCut
  <2>2. /\ c \in Nat /\ 2 * (g * c) <= 2 * x + g /\ 2 * x + g < 2 * (g * c) + 2 * g
    BY <1>1, <1>2, <2>1, RoundedBounds
  <2>3. g * c \in Nat /\ c * g = g * c
    BY <1>1, <2>2
  <2>4. PICK l \in Nat : l = g * c
    BY <2>3
  <2>5. 2 * l - 2 * x <= g /\ 2 * x - 2 * l <= g
    <3>1. 2 * l <= 2 * x + g /\ 2 * x + g < 2 * l + 2 * g
      BY <2>2, <2>4
    <3> QED BY <1>1, <1>2, <2>4, <3>1
  <2> QED BY <1>0, <2>1, <2>2, <2>3, <2>4, <2>5
<1>e. /\ o \in Nat /\ x \in Nat /\ l \in Nat /\ g \in Nat /\ g > 0
      /\ 2 * l - 2 * x <= g /\ 2 * x - 2 * l <= g
  BY <1>1, <1>2, <1>3
<1> DEFINE share == [i \in 1..n |-> Share(ends, i, o, l)]
           real == [i \in 1..n |-> Reach(entry, i, b) - Reach(entry, i, a)]
           kept == [i \in 1..n |-> Kept(share[i], g)]
<1>4. s.tiers = takeBreakdown(entry.tiers, o, l, g)
  BY <1>0, <1>2, <1>3 DEF IsCut
<1>6. ASSUME NEW i \in 1..n
      PROVE  /\ share[i] \in Nat /\ real[i] \in Nat
             /\ 2 * share[i] - 2 * real[i] <= g /\ 2 * real[i] - 2 * share[i] <= g
             /\ 2 * share[i] > g => o < ends[i] /\ ends[i - 1] < o + x
             /\ l = x => share[i] = real[i]
  <2>1. i \in 0..n /\ i - 1 \in 0..n
    BY <1>1
  <2>2. /\ ends[i - 1] \in Nat /\ ends[i] \in Nat /\ ends[i - 1] <= ends[i]
    BY <1>c, <1>d, <2>1
  <2>3. share[i] = Within(ends[i], o, l) - Within(ends[i - 1], o, l)
    BY DEF Share
  <2>4. real[i] = (Lesser(ends[i], o + x) - Lesser(ends[i - 1], o + x))
                    - (Lesser(ends[i], o) - Lesser(ends[i - 1], o))
    <3>1. real[i] = Reach(entry, i, b) - Reach(entry, i, a)
      OBVIOUS
    <3>2. /\ Reach(entry, i, b) = Lesser(ends[i], H * b) - Lesser(ends[i - 1], H * b)
          /\ Reach(entry, i, a) = Lesser(ends[i], H * a) - Lesser(ends[i - 1], H * a)
      BY <1>0 DEF Reach
    <3> HIDE DEF real
    <3> QED BY <1>2, <3>1, <3>2
  <2> HIDE DEF share, real
  <2>5. /\ share[i] \in Nat /\ real[i] \in Nat
        /\ 2 * share[i] - 2 * real[i] <= g /\ 2 * real[i] - 2 * share[i] <= g
        /\ 2 * share[i] > g => o < ends[i] /\ ends[i - 1] < o + x
    <3>1. g \in Nat \ {0}
      BY <1>1
    <3> QED BY <1>e, <2>2, <2>3, <2>4, <3>1, ShareBounds
  <2>6. ASSUME l = x PROVE share[i] = real[i]
    <3>1. /\ share[i] = (Lesser(ends[i], o + x) - Lesser(ends[i], o))
                          - (Lesser(ends[i - 1], o + x) - Lesser(ends[i - 1], o))
      BY <2>3, <2>6 DEF Within
    <3>2. /\ Lesser(ends[i], o + x) \in Int /\ Lesser(ends[i], o) \in Int
          /\ Lesser(ends[i - 1], o + x) \in Int /\ Lesser(ends[i - 1], o) \in Int
      BY <1>2, <2>2 DEF Lesser
    <3> QED BY <2>4, <3>1, <3>2
  <2> QED BY <2>5, <2>6
<1>7. ASSUME NEW i \in 1..n
      PROVE  /\ kept[i] \in Nat /\ kept[i] = Kept(share[i], g)
             /\ 2 * (g * kept[i]) - 2 * share[i] <= g /\ 2 * share[i] - 2 * (g * kept[i]) <= g
  <2>1. share[i] \in Nat
    BY <1>6
  <2>2. kept[i] = Kept(share[i], g)
    OBVIOUS
  <2> HIDE DEF kept, share
  <2> QED BY <1>1, <2>1, <2>2, KeptType
<1>8. ASSUME e = 0
      PROVE  l = x /\ \A i \in 1..n : g * kept[i] = share[i]
  <2>1. /\ entry.halves = 2 * g /\ H = 100 * g
    BY <1>1, <1>a, <1>8
  <2>2. o = g * (100 * a) /\ x = g * (100 * (b - a))
    <3>1. (100 * g) * a = g * (100 * a) /\ (100 * g) * b - (100 * g) * a = g * (100 * (b - a))
      BY <1>1, Z3
    <3> QED BY <1>2, <2>1, <3>1
  <2>3. c = 100 * (b - a)
    <3>1. 100 * (b - a) \in Nat
      OBVIOUS
    <3> QED BY <1>1, <1>3, <2>2, <3>1, RoundedWhole
  <2>4. l = g * (100 * (b - a))
    BY <1>3, <2>3
  <2>5. l = x
    BY <2>2, <2>4, Zenon
  <2>6. ASSUME NEW i \in 1..n PROVE g * kept[i] = share[i]
    <3>1. g * Kept(Share(ends, i, g * (100 * a), g * (100 * (b - a))), g)
           = Share(ends, i, g * (100 * a), g * (100 * (b - a)))
      <4>1. a <= b /\ b <= g
        BY <1>0
      <4> QED BY <1>0, <2>1, <4>1, WholeShares
    <3>2. share[i] = Share(ends, i, g * (100 * a), g * (100 * (b - a)))
      <4>1. share[i] = Share(ends, i, o, l)
        OBVIOUS
      <4> HIDE DEF share
      <4> QED BY <2>2, <2>4, <4>1
    <3> HIDE DEF share, kept
    <3> QED BY <1>7, <3>1, <3>2
  <2> QED BY <2>5, <2>6
<1>9. ASSUME NEW i \in 1..n
      PROVE  /\ Near(g * kept[i], real[i], e * g)
             /\ Near(2 * (g * kept[i]), 2 * share[i], e * g)
  <2> DEFINE p == g * kept[i]
  <2>1. p \in Nat
    <3>1. kept[i] \in Nat
      BY <1>7
    <3> HIDE DEF kept
    <3> QED BY <1>1, <3>1
  <2>2. /\ share[i] \in Nat /\ real[i] \in Nat
        /\ 2 * share[i] - 2 * real[i] <= g /\ 2 * real[i] - 2 * share[i] <= g
        /\ 2 * p - 2 * share[i] <= g /\ 2 * share[i] - 2 * p <= g
    BY <1>6, <1>7
  <2>3. CASE e = 0
    <3>1. p = share[i] /\ share[i] = real[i]
      BY <1>6, <1>8, <2>3
    <3>2. e * g = 0
      BY <1>1, <2>3
    <3> HIDE DEF p, share, real
    <3> QED BY <2>1, <2>2, <3>1, <3>2 DEF Near, p
  <2>4. CASE e = 1
    <3>1. e * g = g
      BY <1>1, <2>4
    <3> HIDE DEF p, share, real
    <3> QED BY <1>1, <2>1, <2>2, <3>1 DEF Near, p
  <2> QED BY <1>1, <2>3, <2>4
<1>10. Near(g * s.cents, H * b - H * a, e * g)
  <2>1. CASE e = 0
    <3>1. l = x /\ e * g = 0
      BY <1>1, <1>8, <2>1
    <3> QED BY <1>0, <1>2, <1>3, <3>1 DEF Near
  <2>2. CASE e = 1
    <3>1. e * g = g
      BY <1>1, <2>2
    <3>2. Near(l, x, g)
      BY <1>1, <1>2, <1>3 DEF Near
    <3> QED BY <1>0, <1>2, <1>3, <3>1, <3>2
  <2> QED BY <1>1, <2>1, <2>2
<1>11. Near(2 * SumFunctionOnSet(share, 1..n), 2 * (g * c), e * g)
  <2>1. \A k \in 1..n : share[k] = Share(ends, k, o, l)
    OBVIOUS
  <2> HIDE DEF share
  <2>4. SumFunctionOnSet(share, 1..n) = Within(ends[n], o, l) - Within(ends[0], o, l)
    BY <1>1, <1>c, <1>e, <2>1, SharesTogether
  <2>5. PICK T \in Nat : o + x <= T /\ ends[n] = T /\ ends[0] = 0
    <3>1. g * H \in Nat
      BY <1>1
    <3> QED BY <1>2, <1>b, <3>1
  <2>6. SumFunctionOnSet(share, 1..n) = Lesser(T, o + l) - o
    <3>1. Within(0, o, l) = 0 /\ Within(T, o, l) = Lesser(T, o + l) - Lesser(T, o)
      BY <1>e DEF Within, Lesser
    <3>2. Lesser(T, o) = o /\ Lesser(T, o + l) \in Int
      BY <1>e, <2>5 DEF Lesser
    <3> QED BY <1>e, <2>4, <2>5, <3>1, <3>2
  <2>7. CASE e = 0
    <3>1. l = x /\ e * g = 0
      BY <1>1, <1>8, <2>7
    <3>2. Near(2 * SumFunctionOnSet(share, 1..n), 2 * l, 0)
      BY <1>e, <2>5, <2>6, <3>1 DEF Lesser, Near
    <3> QED BY <1>3, <3>1, <3>2
  <2>8. CASE e = 1
    <3>1. e * g = g
      BY <1>1, <2>8
    <3>2. Near(2 * SumFunctionOnSet(share, 1..n), 2 * l, g)
      BY <1>e, <2>5, <2>6 DEF Lesser, Near
    <3> QED BY <1>3, <3>1, <3>2
  <2> QED BY <1>1, <2>7, <2>8
<1>12. Near(SumFunctionOnSet(kept, 1..n), s.cents, e * ((n + 1) \div 2))
  <2>1. \A i \in 1..n : kept[i] \in Nat /\ share[i] \in Nat
    BY <1>6, <1>7
  <2>2. \A i \in 1..n : Near(2 * (g * kept[i]), 2 * share[i], e * g)
    BY <1>9
  <2> HIDE DEF kept, share
  <2>3. Near(SumFunctionOnSet(kept, 1..n), c, e * ((n + 1) \div 2))
    BY <1>1, <1>3, <1>1, <1>11, <2>1, <2>2, AllKept
  <2> QED BY <1>0, <2>3
<1>13. ASSUME NEW w \in Weights
       PROVE  /\ s.tiers \in Seq(Part)
              /\ Weighted(s.tiers, w) = SumFunctionOnSet([i \in 1..n |-> kept[i] * w[entry.tiers[i].rate]], 1..n)
              /\ \E at : InTierOrder(at, s.tiers, n, entry.tiers, ends, o, l, g)
  <2>1. WeightKept(entry.tiers, ends, o, l, g, w) = [i \in 1..n |-> kept[i] * w[entry.tiers[i].rate]]
    <3>1. \A i \in 1..n : kept[i] = Kept(Share(ends, i, o, l), g)
      OBVIOUS
    <3> HIDE DEF kept, share
    <3> QED BY <1>0, <3>1 DEF WeightKept
  <2> HIDE DEF kept
  <2>2. g \in Nat \ {0}
    BY <1>1
  <2>3. /\ s.tiers \in Seq(Part)
        /\ Weighted(s.tiers, w)
             = SumFunctionOnSet(WeightKept(entry.tiers, ends, o, l, g, w), 1..Len(entry.tiers))
        /\ \E at : InTierOrder(at, s.tiers, Len(entry.tiers), entry.tiers, ends, o, l, g)
    <3>1. PICK tiers, parts : tiers = entry.tiers /\ parts = s.tiers
      OBVIOUS
    <3>2. /\ tiers \in Seq(Tier) /\ ends = Ends(tiers, g) /\ parts = takeBreakdown(tiers, o, l, g)
          /\ o \in Nat /\ l \in Nat
      BY <1>0, <1>a, <1>e, <1>4, <3>1
    <3>3. /\ parts \in Seq(Part)
          /\ Weighted(parts, w) = SumFunctionOnSet(WeightKept(tiers, ends, o, l, g, w), 1..Len(tiers))
          /\ \E at : InTierOrder(at, parts, Len(tiers), tiers, ends, o, l, g)
      BY <2>2, <3>2, BreakdownTaken
    <3> QED BY <3>1, <3>3
  <2> QED BY <1>0, <2>1, <2>3
<1>14. PICK at : InTierOrder(at, s.tiers, n, entry.tiers, ends, o, l, g)
  <2>1. [r \in Int |-> 1] \in Weights
    BY DEF Weights
  <2> QED BY <1>13, <2>1
<1>15. s.tiers \in Seq(Part)
  <2>1. [r \in Int |-> 1] \in Weights
    BY DEF Weights
  <2> QED BY <1>13, <2>1
<1>16. /\ at \in [1..Len(s.tiers) -> 1..n]
       /\ \A j \in 1..Len(s.tiers) :
            s.tiers[j].rate = entry.tiers[at[j]].rate /\ 2 * Share(ends, at[j], o, l) > g
       /\ \A i, j \in 1..Len(s.tiers) : i < j => at[i] < at[j]
  BY <1>14 DEF InTierOrder
<1>17. ASSUME NEW j \in 1..Len(s.tiers)
       PROVE  H * a < ends[at[j]] /\ ends[at[j] - 1] < H * b
  <2>1. at[j] \in 1..n
    BY <1>16
  <2>2. 2 * share[at[j]] > g
    BY <1>16, <2>1
  <2>3. o < ends[at[j]] /\ ends[at[j] - 1] < o + x
    BY <1>6, <2>1, <2>2
  <2> QED BY <1>2, <2>3
<1>18. kept \in [1..n -> Nat]
  BY <1>7
<1>19. \A i \in 1..n : Near(g * kept[i], Reach(entry, i, b) - Reach(entry, i, a), e * g)
  <2> SUFFICES ASSUME NEW i \in 1..n PROVE Near(g * kept[i], Reach(entry, i, b) - Reach(entry, i, a), e * g)
    OBVIOUS
  <2>1. Near(g * kept[i], real[i], e * g) /\ real[i] = Reach(entry, i, b) - Reach(entry, i, a)
    BY <1>9
  <2> HIDE DEF real, kept
  <2> QED BY <2>1
<1>20. \E k \in [1..n -> Nat] :
          /\ \A i \in 1..n : Near(g * k[i], Reach(entry, i, b) - Reach(entry, i, a), e * g)
          /\ Near(SumFunctionOnSet(k, 1..n), s.cents, e * ((n + 1) \div 2))
          /\ \A w \in Weights :
               Weighted(s.tiers, w) = SumFunctionOnSet([i \in 1..n |-> k[i] * w[entry.tiers[i].rate]], 1..n)
  <2> HIDE DEF kept
  <2> QED BY <1>12, <1>13, <1>18, <1>19
<1>21. \E f \in [1..Len(s.tiers) -> 1..n] :
          /\ \A j \in 1..Len(s.tiers) : s.tiers[j].rate = entry.tiers[f[j]].rate
          /\ \A i, j \in 1..Len(s.tiers) : i < j => f[i] < f[j]
          /\ \A j \in 1..Len(s.tiers) : H * a < ends[f[j]] /\ ends[f[j] - 1] < H * b
  <2> QED BY <1>16, <1>17
<1> QED
  <2> HIDE DEF kept, share, real
  <2> QED BY <1>0, <1>3, <1>10, <1>15, <1>20, <1>21 DEF IsPiece

\* All of an entry's days have all of each tier.
LEMMA ReachWhole ==
  ASSUME NEW entry, IsEntry(entry), NEW i \in 1..Len(entry.tiers)
  PROVE  /\ \A x \in Nat : Reach(entry, i, x) \in Int
         /\ Reach(entry, i, DaysOf(entry)) - Reach(entry, i, 0)
              = DaysOf(entry) * (50 * entry.tiers[i].halves)
<1>0. PICK n, g, ends, H : /\ n = Len(entry.tiers) /\ g = DaysOf(entry)
                           /\ ends = Ends(entry.tiers, g) /\ H = PerDay(entry)
  OBVIOUS
<1>1. n \in Nat /\ g \in Nat \ {0} /\ H \in Nat /\ i \in 1..n
  BY <1>0, EntryGrains
<1>2. i \in 0..n /\ i - 1 \in 0..n /\ n \in 0..n /\ i <= n /\ i - 1 <= n
  BY <1>1
<1>3. PICK h \in Nat : h = entry.tiers[i].halves
  <2>1. entry.tiers[i].halves \in Nat
    BY <1>0, <1>1, EntryGrains
  <2> QED BY <2>1
<1>4. ends[i] \in Nat /\ ends[i - 1] \in Nat
  BY <1>0, <1>2, EntryGrains
<1>5. ends[i] = ends[i - 1] + 50 * (g * h)
  <2>1. ends[i] = ends[i - 1] + 50 * (g * entry.tiers[i].halves)
    BY <1>0, EntryGrains
  <2> QED BY <1>3, <2>1, Zenon
<1>6. ends[i] <= H * g /\ ends[i - 1] <= H * g
  <2>1. ends[n] = g * H /\ \A j, k \in 0..n : j <= k => ends[j] <= ends[k]
    BY <1>0, EntryGrains
  <2>2. ends[i] <= ends[n] /\ ends[i - 1] <= ends[n]
    BY <1>2, <2>1
  <2>3. g * H = H * g
    BY <1>1
  <2> QED BY <2>1, <2>2, <2>3
<1>7. PICK d \in Nat : d = g * h
  <2>1. g * h \in Nat
    BY <1>1
  <2> QED BY <2>1
<1>8. g * (50 * h) = 50 * d
  <2>1. g * (50 * h) = 50 * (g * h)
    BY <1>1
  <2> QED BY <1>7, <2>1
<1>9. \A x : Reach(entry, i, x) = Lesser(ends[i], H * x) - Lesser(ends[i - 1], H * x)
  BY <1>0 DEF Reach
<1>10. ASSUME NEW x \in Nat PROVE Reach(entry, i, x) \in Int
  <2>1. H * x \in Int
    BY <1>1
  <2>2. Lesser(ends[i], H * x) \in Int /\ Lesser(ends[i - 1], H * x) \in Int
    BY <1>4, <2>1 DEF Lesser
  <2> QED BY <1>9, <2>2
<1>11. Reach(entry, i, g) = ends[i] - ends[i - 1]
  BY <1>6, <1>9 DEF Lesser
<1>12. Reach(entry, i, 0) = 0
  <2>1. H * 0 = 0
    BY <1>1
  <2>2. Lesser(ends[i], 0) = 0 /\ Lesser(ends[i - 1], 0) = 0
    BY <1>4 DEF Lesser
  <2> QED BY <1>9, <2>1, <2>2
<1>13. Reach(entry, i, g) - Reach(entry, i, 0) = 50 * d
  BY <1>4, <1>5, <1>7, <1>11, <1>12
<1> QED BY <1>0, <1>3, <1>8, <1>10, <1>13

LEMMA WholePiece ==
  ASSUME NEW entry, IsEntry(entry), NEW s, s.cents = 50 * entry.halves,
         s.tiers = [i \in DOMAIN entry.tiers |->
                      [cents |-> 50 * entry.tiers[i].halves, rate |-> entry.tiers[i].rate]]
  PROVE  IsPiece(s, entry, 0, DaysOf(entry))
<1>0. PICK n, g, ends, H, e, tiers :
        /\ n = Len(entry.tiers) /\ g = DaysOf(entry) /\ ends = Ends(entry.tiers, g)
        /\ H = PerDay(entry) /\ e = Slack(entry) /\ tiers = entry.tiers
  OBVIOUS
<1> DEFINE kept == [i \in 1..n |-> 50 * tiers[i].halves]
           half == Halves(tiers)
<1>1. n \in Nat /\ g \in Nat \ {0} /\ entry.halves \in Nat /\ e \in {0, 1}
  <2>1. n \in Nat /\ g \in Nat \ {0} /\ entry.halves \in Nat
    BY <1>0, EntryGrains
  <2> QED BY <1>0, <2>1 DEF Slack
<1>2. tiers \in Seq(Tier) /\ DOMAIN tiers = 1..n /\ H = 50 * entry.halves
  BY <1>0, EntryGrains DEF PerDay
<1>3. \A i \in 1..n : tiers[i].halves \in Nat /\ tiers[i].rate \in Int
  BY <1>0, EntryGrains
<1>4. \A i \in 1..n : kept[i] = 50 * tiers[i].halves /\ kept[i] \in Nat
  BY <1>3
<1>5. g * s.cents = H * g /\ H * g \in Nat /\ H * 0 = 0
  <2>1. PICK h \in Nat : h = entry.halves
    BY <1>1
  <2>2. g * (50 * h) = (50 * h) * g /\ (50 * h) * g \in Nat /\ (50 * h) * 0 = 0
    BY <1>1, Z3
  <2> QED BY <1>2, <2>1, <2>2
<1>6. e * g \in Nat /\ e * ((n + 1) \div 2) \in Nat
  <2>1. (n + 1) \div 2 \in Nat /\ 0 * g = 0 /\ 1 * g = g
    BY <1>1
  <2>2. 0 * ((n + 1) \div 2) = 0 /\ 1 * ((n + 1) \div 2) = (n + 1) \div 2
    BY <2>1
  <2> QED BY <1>1, <2>1, <2>2
<1>7. \A x \in Int : \A z \in Nat : Near(x, x, z)
  BY DEF Near
<1>8. Near(g * s.cents, H * g - H * 0, e * g)
  BY <1>5, <1>6, <1>7
<1>9. ASSUME NEW i \in 1..n PROVE Near(g * kept[i], Reach(entry, i, g) - Reach(entry, i, 0), e * g)
  <2>1. PICK h \in Nat : h = tiers[i].halves
    BY <1>3
  <2>2. Reach(entry, i, g) - Reach(entry, i, 0) = g * (50 * tiers[i].halves)
    BY <1>0, ReachWhole
  <2>3. g * (50 * h) \in Int
    BY <1>1
  <2>4. kept[i] = 50 * h
    BY <1>4, <2>1
  <2> QED BY <1>6, <1>7, <2>1, <2>2, <2>3, <2>4
<1>10. SumFunctionOnSet(kept, 1..n) = s.cents
  <2>1. \A i \in 1..n : half[i] \in Int /\ kept[i] = 50 * half[i]
    BY <1>2, <1>3 DEF Halves
  <2>2. IsFiniteSet(1..n)
    BY <1>1, FS_Interval
  <2>3. entry.halves = SumFunctionOnSet(half, 1..n)
    BY <1>0 DEF IsEntry
  <2>4. 50 \in Int
    OBVIOUS
  <2> HIDE DEF kept, half
  <2>5. SumFunctionOnSet(kept, 1..n) = 50 * SumFunctionOnSet(half, 1..n)
    <3>1. PICK c, u, v : c = 50 /\ u = half /\ v = kept
      OBVIOUS
    <3>2. c \in Int /\ \A i \in 1..n : u[i] \in Int /\ v[i] = c * u[i]
      BY <2>1, <3>1
    <3>3. SumFunctionOnSet(v, 1..n) = c * SumFunctionOnSet(u, 1..n)
      BY <1>1, <2>2, <3>2, SumScaled, SMTT(30)
    <3> QED BY <3>1, <3>3
  <2> QED BY <2>3, <2>5
<1>11. Near(SumFunctionOnSet(kept, 1..n), s.cents, e * ((n + 1) \div 2))
  <2>1. s.cents \in Int
    BY <1>1
  <2> QED BY <1>6, <1>7, <1>10, <2>1
<1>12. /\ DOMAIN s.tiers = 1..n
       /\ \A i \in 1..n : s.tiers[i] = [cents |-> kept[i], rate |-> tiers[i].rate]
  BY <1>0, <1>2
<1> HIDE DEF kept
<1>13. ASSUME NEW i \in 1..n
       PROVE  s.tiers[i] \in Part /\ s.tiers[i].cents = kept[i] /\ s.tiers[i].rate = tiers[i].rate
  <2>1. kept[i] \in Nat /\ tiers[i].rate \in Int
    BY <1>3, <1>4
  <2>2. PICK x, y : x = kept[i] /\ y = tiers[i].rate
    OBVIOUS
  <2>3. [cents |-> x, rate |-> y] \in Part
    BY <2>1, <2>2 DEF Part
  <2>4. s.tiers[i] = [cents |-> x, rate |-> y]
    BY <1>12, <2>2
  <2> QED BY <2>2, <2>3, <2>4
<1>14. s.tiers \in Seq(Part) /\ Len(s.tiers) = n
  <2>1. s.tiers = [i \in 1..n |-> s.tiers[i]]
    BY <1>0, <1>2
  <2>2. s.tiers \in [1..n -> Part]
    BY <1>13, <2>1
  <2> QED BY <1>1, <2>2, SeqMade, Zenon
<1>15. ASSUME NEW w \in Weights
       PROVE  Weighted(s.tiers, w) = SumFunctionOnSet([i \in 1..n |-> kept[i] * w[tiers[i].rate]], 1..n)
  <2>1. Weighing(s.tiers, w) = [i \in 1..n |-> kept[i] * w[tiers[i].rate]]
    BY <1>12, <1>13 DEF Weighing
  <2> QED BY <1>12, <2>1 DEF Weighted
<1>16. \E at \in [1..Len(s.tiers) -> 1..n] :
          /\ \A j \in 1..Len(s.tiers) : s.tiers[j].rate = tiers[at[j]].rate
          /\ \A i, j \in 1..Len(s.tiers) : i < j => at[i] < at[j]
  <2> DEFINE at == [i \in 1..n |-> i]
  <2>1. at \in [1..n -> 1..n] /\ \A j \in 1..n : at[j] = j
    OBVIOUS
  <2> HIDE DEF at
  <2>2. \A j \in 1..n : s.tiers[j].rate = tiers[at[j]].rate
    BY <1>13, <2>1
  <2>3. \A i, j \in 1..n : i < j => at[i] < at[j]
    BY <2>1
  <2> QED BY <1>14, <2>1, <2>2, <2>3
<1>17. kept \in [1..n -> Nat]
  <2>1. kept = [i \in 1..n |-> kept[i]]
    BY DEF kept
  <2> QED BY <1>4, <2>1
<1>18. s.cents \in Nat
  BY <1>1
<1>19. /\ s.cents \in Nat /\ s.tiers \in Seq(Part)
       /\ Near(g * s.cents, H * g - H * 0, e * g)
  BY <1>8, <1>14, <1>18
<1>20. \E k \in [1..n -> Nat] :
          /\ \A i \in 1..n : Near(g * k[i], Reach(entry, i, g) - Reach(entry, i, 0), e * g)
          /\ Near(SumFunctionOnSet(k, 1..n), s.cents, e * ((n + 1) \div 2))
          /\ \A w \in Weights :
               Weighted(s.tiers, w) = SumFunctionOnSet([i \in 1..n |-> k[i] * w[tiers[i].rate]], 1..n)
  BY <1>9, <1>11, <1>15, <1>17
<1>21. \E k \in [1..n -> Nat] :
          /\ \A i \in 1..n : Near(g * k[i], Reach(entry, i, g) - Reach(entry, i, 0), e * g)
          /\ Near(SumFunctionOnSet(k, 1..n), s.cents, e * ((n + 1) \div 2))
          /\ \A w \in Weights :
               Weighted(s.tiers, w) = SumFunctionOnSet([i \in 1..n |-> k[i] * w[entry.tiers[i].rate]], 1..n)
  BY <1>0, <1>20
<1>22. \E at \in [1..Len(s.tiers) -> 1..n] :
          /\ \A j \in 1..Len(s.tiers) : s.tiers[j].rate = entry.tiers[at[j]].rate
          /\ \A i, j \in 1..Len(s.tiers) : i < j => at[i] < at[j]
          /\ \/ 0 = 0 /\ g = g
             \/ \A j \in 1..Len(s.tiers) : H * 0 < ends[at[j]] /\ ends[at[j] - 1] < H * g
  BY <1>0, <1>16
<1> QED BY <1>0, <1>19, <1>21, <1>22 DEF IsPiece

\* sliceForPeriod cuts out the days the entry and the window have in common.
LEMMA SliceIsPiece ==
  ASSUME NEW entry, IsEntry(entry), NEW window, IsSpan(window), window.from <= window.to,
         NEW a, a = Before(entry, window.from), NEW b, b = Before(entry, window.to + 1)
  PROVE  /\ a \in Nat /\ b \in Nat /\ a <= b /\ b <= DaysOf(entry)
         /\ a = b => sliceForPeriod(entry, window) = <<>>
         /\ a < b => /\ sliceForPeriod(entry, window) = <<sliceForPeriod(entry, window)[1]>>
                     /\ IsPiece(sliceForPeriod(entry, window)[1], entry, a, b)
<1> DEFINE span == Overlap(entry, window)
           g == DaysOf(entry)
           days == DaysOf(span)
           cents == Rounded(days * entry.halves * 50, g)
           s == sliceForPeriod(entry, window)[1]
<1>1. /\ a \in Nat /\ b \in Nat /\ a <= b /\ b <= g /\ g \in Nat \ {0}
      /\ days = b - a
      /\ a < b => span.from - entry.from = a
  BY WindowCut DEF IsEntry
<1>2. sliceForPeriod(entry, window)
        = IF days = 0 THEN <<>>
          ELSE IF days = g
            THEN <<[from |-> span.from, to |-> span.to, allocation |-> "whole",
                    cents |-> 50 * entry.halves,
                    tiers |-> [i \in DOMAIN entry.tiers |->
                                 [cents |-> 50 * entry.tiers[i].halves,
                                  rate |-> entry.tiers[i].rate]]]>>
          ELSE <<[from |-> span.from, to |-> span.to, allocation |-> "chronological",
                  cents |-> cents,
                  tiers |-> takeBreakdown(entry.tiers, daysBefore(entry, span), cents * g, g)]>>
  BY DEF sliceForPeriod
<1> HIDE DEF span, g, days
<1>3. a = b => sliceForPeriod(entry, window) = <<>>
  BY <1>1, <1>2
<1>4. ASSUME a < b
      PROVE  /\ sliceForPeriod(entry, window) = <<s>>
             /\ IsPiece(s, entry, a, b)
  <2>1. CASE days = g
    <3> DEFINE r == [from |-> span.from, to |-> span.to, allocation |-> "whole",
                    cents |-> 50 * entry.halves,
                    tiers |-> [i \in DOMAIN entry.tiers |->
                                 [cents |-> 50 * entry.tiers[i].halves,
                                  rate |-> entry.tiers[i].rate]]]
    <3>1. sliceForPeriod(entry, window) = <<r>>
      BY <1>1, <1>2, <2>1
    <3>2. r.cents = 50 * entry.halves
      OBVIOUS
    <3>3. r.tiers = [i \in DOMAIN entry.tiers |->
                       [cents |-> 50 * entry.tiers[i].halves, rate |-> entry.tiers[i].rate]]
      OBVIOUS
    <3> HIDE DEF r
    <3>4. IsPiece(r, entry, 0, g)
      BY <3>2, <3>3, WholePiece DEF g
    <3>5. a = 0 /\ b = g
      BY <1>1, <2>1
    <3> QED BY <3>1, <3>4, <3>5
  <2>2. CASE days # g
    <3> DEFINE r == [from |-> span.from, to |-> span.to, allocation |-> "chronological",
                  cents |-> cents,
                  tiers |-> takeBreakdown(entry.tiers, daysBefore(entry, span), cents * g, g)]
    <3>1. sliceForPeriod(entry, window) = <<r>>
      <4>1. days # 0
        BY <1>1, <1>4
      <4> HIDE DEF cents
      <4> QED BY <1>2, <2>2, <4>1
    <3>2. r.cents = cents /\ r.tiers = takeBreakdown(entry.tiers, daysBefore(entry, span), cents * g, g)
      OBVIOUS
    <3> HIDE DEF r
    <3>3. daysBefore(entry, span) = a * entry.halves * 50
      BY <1>1, <1>4 DEF daysBefore
    <3>4. cents = Rounded((b - a) * entry.halves * 50, g)
      BY <1>1
    <3>5. IsCut(r, entry, a, b)
      <4> HIDE DEF cents
      <4> QED BY <3>2, <3>3, <3>4 DEF IsCut, g
    <3>6. IsPiece(r, entry, a, b)
      BY <1>1, <1>4, <3>5, CutPiece DEF g
    <3> QED BY <3>1, <3>6
  <2> QED BY <2>1, <2>2
<1> QED BY <1>1, <1>3, <1>4 DEF g

-----------------------------------------------------------------------------
(***************************************************************************)
(* An entry and the months it meets.                                       *)
(***************************************************************************)
\* Months that follow each other and cover the entry.
IsCalendar(months, entry) ==
  LET last == Len(months)
  IN  /\ last \in Nat \ {0} /\ DOMAIN months = 1..last
      /\ \A m \in 1..last : IsSpan(months[m]) /\ months[m].from <= months[m].to
      /\ \A m \in 1..(last - 1) : months[m + 1].from = months[m].to + 1
      /\ months[1].from <= entry.from /\ entry.to <= months[last].to

\* The days of the entry up to the end of every month.
UpToMonth(entry, months) ==
  [k \in 0..Len(months) |-> IF k = 0 THEN 0 ELSE Before(entry, months[k].to + 1)]

LEMMA MonthsCut ==
  ASSUME NEW entry, IsEntry(entry), NEW months, IsCalendar(months, entry),
         NEW last, last = Len(months), NEW met, met = UpToMonth(entry, months)
  PROVE  /\ last \in Nat \ {0} /\ DOMAIN months = 1..last
         /\ met[0] = 0 /\ met[last] = DaysOf(entry)
         /\ \A k \in 0..last : met[k] \in Nat
         /\ \A m \in 1..last :
              /\ m \in 0..last /\ m - 1 \in 0..last
              /\ met[m - 1] <= met[m] /\ met[m] <= DaysOf(entry)
              /\ met[m - 1] = met[m] => Cut(entry, months)[m] = <<>>
              /\ met[m - 1] < met[m] =>
                   /\ Cut(entry, months)[m] = <<Cut(entry, months)[m][1]>>
                   /\ IsPiece(Cut(entry, months)[m][1], entry, met[m - 1], met[m])
<1>1. last \in Nat \ {0} /\ DOMAIN months = 1..last
  BY DEF IsCalendar
<1>2. /\ \A m \in 1..last : IsSpan(months[m]) /\ months[m].from <= months[m].to
      /\ \A m \in 1..(last - 1) : months[m + 1].from = months[m].to + 1
      /\ months[1].from <= entry.from /\ entry.to <= months[last].to
  BY DEF IsCalendar
<1>3. entry.from \in Int /\ entry.to \in Int /\ entry.from <= entry.to
  BY DEF IsEntry, IsSpan
<1>4. \A m \in 1..last : m \in 0..last /\ m - 1 \in 0..last /\ m # 0
  BY <1>1
<1>5. met[0] = 0 /\ \A m \in 1..last : met[m] = Before(entry, months[m].to + 1)
  <2>1. 0 \in 0..last
    BY <1>1
  <2> QED BY <1>4, <2>1 DEF UpToMonth
<1>6. ASSUME NEW m \in 1..last
      PROVE  met[m - 1] = Before(entry, months[m].from)
  <2>1. CASE m = 1
    <3>1. Before(entry, months[1].from) = 0
      BY <1>2 DEF Before
    <3> QED BY <1>5, <2>1, <3>1
  <2>2. CASE m # 1
    <3>1. m - 1 \in 1..(last - 1) /\ m - 1 \in 1..last /\ (m - 1) + 1 = m
      BY <1>1, <2>2
    <3>2. PICK j \in 1..(last - 1) : j = m - 1 /\ j \in 1..last /\ j + 1 = m
      BY <3>1
    <3>3. months[m].from = months[j].to + 1
      BY <1>2, <3>2
    <3>4. met[j] = Before(entry, months[j].to + 1)
      BY <1>5, <3>2
    <3> QED BY <3>2, <3>3, <3>4
  <2> QED BY <2>1, <2>2
<1>7. met[last] = DaysOf(entry)
  <2>1. PICK m \in 1..last : m = last
    BY <1>1
  <2>2. PICK day : day = months[m].to + 1
    OBVIOUS
  <2>3. day > entry.to /\ day > entry.from /\ day \in Int
    <3>1. months[m].to \in Int /\ entry.to <= months[m].to
      BY <1>2, <2>1 DEF IsSpan
    <3> QED BY <1>3, <2>2, <3>1
  <2>4. Before(entry, day) = DaysOf(entry)
    BY <1>3, <2>3 DEF Before
  <2> QED BY <1>5, <2>1, <2>2, <2>4
<1>8. ASSUME NEW m \in 1..last
      PROVE  /\ met[m - 1] \in Nat /\ met[m] \in Nat /\ met[m - 1] <= met[m] /\ met[m] <= DaysOf(entry)
             /\ met[m - 1] = met[m] => Cut(entry, months)[m] = <<>>
             /\ met[m - 1] < met[m] =>
                   /\ Cut(entry, months)[m] = <<Cut(entry, months)[m][1]>>
                   /\ IsPiece(Cut(entry, months)[m][1], entry, met[m - 1], met[m])
  <2>1. PICK a, b, w : a = met[m - 1] /\ b = met[m] /\ w = months[m]
    OBVIOUS
  <2>2. a = Before(entry, w.from) /\ b = Before(entry, w.to + 1)
    BY <1>5, <1>6, <2>1
  <2>3. IsSpan(w) /\ w.from <= w.to
    BY <1>2, <2>1
  <2>4. /\ a \in Nat /\ b \in Nat /\ a <= b /\ b <= DaysOf(entry)
        /\ a = b => sliceForPeriod(entry, w) = <<>>
        /\ a < b => /\ sliceForPeriod(entry, w) = <<sliceForPeriod(entry, w)[1]>>
                    /\ IsPiece(sliceForPeriod(entry, w)[1], entry, a, b)
    BY <2>2, <2>3, SliceIsPiece
  <2>5. Cut(entry, months)[m] = sliceForPeriod(entry, w)
    BY <1>1, <2>1 DEF Cut
  <2> QED BY <2>1, <2>4, <2>5
<1>9. \A k \in 0..last : met[k] \in Nat
  <2>1. \A k \in 0..last : k = 0 \/ k \in 1..last
    BY <1>1
  <2> QED BY <1>5, <1>8, <2>1
<1> QED BY <1>1, <1>4, <1>5, <1>7, <1>8, <1>9

\* The slices together keep what the whole entry has of something.
LEMMA KeptTogether ==
  ASSUME NEW last \in Nat, NEW hit \in SUBSET (1..last), NEW g \in Nat \ {0}, NEW e \in {0, 1},
         NEW r, \A k \in 0..last : r[k] \in Int, \A m \in (1..last) \ hit : r[m] = r[m - 1],
         NEW kept, \A m \in hit : kept[m] \in Nat /\ Near(g * kept[m], r[m] - r[m - 1], e * g),
         NEW total \in Int, r[last] - r[0] = g * total
  PROVE  Near(SumFunctionOnSet(kept, hit), total, e * Cardinality(hit))
<1> DEFINE d == [m \in 1..last |-> r[m] - r[m - 1]]
           gk == [m \in hit |-> g * kept[m]]
           K == SumFunctionOnSet(kept, hit)
           n == Cardinality(hit)
<1>1. IsFiniteSet(1..last) /\ IsFiniteSet(hit) /\ IsFiniteSet((1..last) \ hit) /\ n \in Nat
  <2>1. IsFiniteSet(1..last)
    BY FS_Interval
  <2>2. IsFiniteSet(hit) /\ IsFiniteSet((1..last) \ hit)
    BY <2>1, FS_Subset
  <2> QED BY <2>1, <2>2, FS_CardinalityType
<1>2. ASSUME NEW m \in 1..last PROVE d[m] = r[m] - r[m - 1] /\ d[m] \in Int /\ r[m] \in Int /\ r[m - 1] \in Int
  <2>1. m \in 0..last /\ m - 1 \in 0..last
    OBVIOUS
  <2>2. r[m] \in Int /\ r[m - 1] \in Int /\ d[m] = r[m] - r[m - 1]
    BY <2>1
  <2> HIDE DEF d
  <2> QED BY <2>2
<1> HIDE DEF d
<1>3. SumFunctionOnSet(d, 1..last) = g * total
  <2>1. \A m \in 1..last : d[m] = r[m] - r[m - 1]
    BY <1>2
  <2>2. SumFunctionOnSet(d, 1..last) = r[last] - r[0]
    BY <2>1, SumTelescopes, SMTT(40)
  <2> QED BY <2>2
<1>4. SumFunctionOnSet(d, (1..last) \ hit) = 0
  <2>1. \A m \in (1..last) \ hit : d[m] = 0
    BY <1>2
  <2> QED BY <1>1, <2>1, SumZero
<1>5. SumFunctionOnSet(d, hit) = g * total
  <2>1. \A m \in 1..last : d[m] \in Int
    BY <1>2
  <2>2. SumFunctionOnSet(d, 1..last) = SumFunctionOnSet(d, hit) + SumFunctionOnSet(d, (1..last) \ hit)
    BY <1>1, <2>1, SumUnion
  <2>3. SumFunctionOnSet(d, hit) \in Int
    <3>1. \A m \in hit : d[m] \in Int
      BY <2>1
    <3> QED BY <1>1, <3>1, SumType
  <2> QED BY <1>3, <1>4, <2>2, <2>3
<1>6. \A m \in hit : /\ kept[m] \in Int /\ gk[m] = g * kept[m] /\ gk[m] \in Int /\ d[m] \in Int
                     /\ gk[m] - d[m] <= e * g /\ d[m] - gk[m] <= e * g
  <2> SUFFICES ASSUME NEW m \in hit
               PROVE /\ kept[m] \in Int /\ gk[m] = g * kept[m] /\ gk[m] \in Int /\ d[m] \in Int
                     /\ gk[m] - d[m] <= e * g /\ d[m] - gk[m] <= e * g
    OBVIOUS
  <2>1. m \in 1..last /\ kept[m] \in Nat /\ Near(g * kept[m], r[m] - r[m - 1], e * g)
    OBVIOUS
  <2>2. d[m] = r[m] - r[m - 1] /\ d[m] \in Int
    BY <1>2, <2>1
  <2>3. gk[m] = g * kept[m] /\ g * kept[m] \in Int
    BY <2>1
  <2> QED BY <2>1, <2>2, <2>3 DEF Near
<1> HIDE DEF gk
<1>7. SumFunctionOnSet(gk, hit) = g * K /\ K \in Int
  <2>1. \A m \in hit : kept[m] \in Int /\ gk[m] = g * kept[m]
    BY <1>6
  <2> HIDE DEF n
  <2>2. SumFunctionOnSet(gk, hit) = g * SumFunctionOnSet(kept, hit)
    <3>1. g \in Int /\ IsFiniteSet(hit)
      BY <1>1
    <3> QED BY <2>1, <3>1, SumScaled, Zenon
  <2>3. SumFunctionOnSet(kept, hit) \in Int
    BY <1>1, <2>1, SumType
  <2> QED BY <2>2, <2>3
<1>8. /\ SumFunctionOnSet(gk, hit) - SumFunctionOnSet(d, hit) <= (e * g) * n
      /\ SumFunctionOnSet(d, hit) - SumFunctionOnSet(gk, hit) <= (e * g) * n
  <2>1. \A m \in hit : /\ gk[m] \in Int /\ d[m] \in Int
                       /\ gk[m] - d[m] <= e * g /\ d[m] - gk[m] <= e * g
    BY <1>6
  <2>2. e * g \in Int
    OBVIOUS
  <2> QED BY <1>1, <2>1, <2>2, SumClose
<1> HIDE DEF K, n
<1>9. (e * g) * n = (e * n) * g /\ e * n \in Int
  <2>1. CASE e = 0
    BY <1>1, <2>1
  <2>2. CASE e = 1
    BY <1>1, <2>2
  <2> QED BY <2>1, <2>2
<1>10. g * (K - total) = g * K - g * total /\ g * (total - K) = g * total - g * K
  BY <1>7
<1>11. PICK x, y, z \in Int : x = g * K /\ y = g * total /\ z = (e * n) * g
  <2>1. g * K \in Int /\ g * total \in Int /\ (e * n) * g \in Int
    BY <1>7, <1>9
  <2> QED BY <2>1
<1>12. x - y <= z /\ y - x <= z
  BY <1>5, <1>7, <1>8, <1>9, <1>11
<1>13. g * (K - total) < (e * n) * g + g /\ g * (total - K) < (e * n) * g + g
  <2>1. g * (K - total) = x - y /\ g * (total - K) = y - x
    BY <1>10, <1>11
  <2>2. x - y < z + g /\ y - x < z + g
    BY <1>12
  <2> QED BY <1>11, <2>1, <2>2
<1>14. K - total <= e * n /\ total - K <= e * n
  <2>1. K - total \in Int /\ total - K \in Int
    BY <1>7
  <2> QED BY <1>9, <1>13, <2>1, ProductBound
<1> QED BY <1>14 DEF Near, K, n

\* The sums of CompensationMeaning.
LEMMA CentsInIsSum ==
  ASSUME NEW slice, NEW hit, IsFiniteSet(hit), NEW f,
         \A m \in hit : f[m] = slice[m][1].cents /\ f[m] \in Int
  PROVE  CentsIn(slice, hit) = SumFunctionOnSet(f, hit)
<1> DEFINE summed(h) == [s \in SUBSET hit |-> IF s = {} THEN 0
                  ELSE f[CHOOSE x \in s : TRUE] + h[s \ {CHOOSE x \in s : TRUE}]]
           folded(h) == [s \in SUBSET hit |-> IF s = {} THEN 0
                  ELSE slice[CHOOSE x \in s : TRUE][1].cents + h[s \ {CHOOSE x \in s : TRUE}]]
           iter == CHOOSE h : h = folded(h)
<1>1. CentsIn(slice, hit) = iter[hit]
  BY DEF CentsIn, MapThenSumSet, MapThenFoldSet
<1>2. \A s \in SUBSET hit : s # {} => f[CHOOSE x \in s : TRUE] = slice[CHOOSE x \in s : TRUE][1].cents
  OBVIOUS
<1>3. ASSUME NEW h PROVE summed(h) = folded(h)
  BY <1>2
<1>4. ASSUME NEW h PROVE AddsUp(h, f, hit) <=> h = summed(h)
  BY DEF AddsUp
<1>5. PICK g : AddsUp(g, f, hit)
  BY SumUnfolds
<1> HIDE DEF summed, folded
<1>6. iter = folded(iter)
  <2>1. g = folded(g)
    BY <1>3, <1>4, <1>5
  <2> QED BY <2>1
<1>7. AddsUp(iter, f, hit)
  BY <1>3, <1>4, <1>6
<1> HIDE DEF iter
<1> QED BY <1>1, <1>7, SumUnfolds

LEMMA CentsInAtIsSum ==
  ASSUME NEW slice, NEW hit, IsFiniteSet(hit), NEW rate, NEW f,
         \A m \in hit : f[m] = CentsAt(slice[m][1].tiers, rate) /\ f[m] \in Int
  PROVE  CentsInAt(slice, hit, rate) = SumFunctionOnSet(f, hit)
<1> DEFINE summed(h) == [s \in SUBSET hit |-> IF s = {} THEN 0
                  ELSE f[CHOOSE x \in s : TRUE] + h[s \ {CHOOSE x \in s : TRUE}]]
           folded(h) == [s \in SUBSET hit |-> IF s = {} THEN 0
                  ELSE CentsAt(slice[CHOOSE x \in s : TRUE][1].tiers, rate)
                         + h[s \ {CHOOSE x \in s : TRUE}]]
           iter == CHOOSE h : h = folded(h)
<1>1. CentsInAt(slice, hit, rate) = iter[hit]
  BY DEF CentsInAt, MapThenSumSet, MapThenFoldSet
<1>2. \A s \in SUBSET hit : s # {} => f[CHOOSE x \in s : TRUE]
                                         = CentsAt(slice[CHOOSE x \in s : TRUE][1].tiers, rate)
  OBVIOUS
<1>3. ASSUME NEW h PROVE summed(h) = folded(h)
  BY <1>2
<1>4. ASSUME NEW h PROVE AddsUp(h, f, hit) <=> h = summed(h)
  BY DEF AddsUp
<1>5. PICK g : AddsUp(g, f, hit)
  BY SumUnfolds
<1> HIDE DEF summed, folded
<1>6. iter = folded(iter)
  <2>1. g = folded(g)
    BY <1>3, <1>4, <1>5
  <2> QED BY <2>1
<1>7. AddsUp(iter, f, hit)
  BY <1>3, <1>4, <1>6
<1> HIDE DEF iter
<1> QED BY <1>1, <1>7, SumUnfolds

\* The weights that count all parts, and those at a rate.
All == [r \in Int |-> 1]
Only(rate) == [r \in Int |-> IF r = rate THEN 1 ELSE 0]

LEMMA CentsOfIsSum ==
  ASSUME NEW parts \in Seq(Part)
  PROVE  CentsOf(parts) = Weighted(parts, All) /\ All \in Weights
<1> DEFINE f == Weighing(parts, All)
           K == DOMAIN parts
           summed(h) == [s \in SUBSET K |-> IF s = {} THEN 0
                  ELSE f[CHOOSE x \in s : TRUE] + h[s \ {CHOOSE x \in s : TRUE}]]
           folded(h) == [s \in SUBSET K |-> IF s = {} THEN 0
                  ELSE parts[CHOOSE x \in s : TRUE].cents + h[s \ {CHOOSE x \in s : TRUE}]]
           iter == CHOOSE h : h = folded(h)
<1>0. All \in Weights
  BY DEF All, Weights
<1>1. CentsOf(parts) = iter[K]
  BY DEF CentsOf, MapThenSumSet, MapThenFoldSet
<1>2. IsFiniteSet(K) /\ \A j \in K : f[j] \in Int /\ f[j] = parts[j].cents
  <2>1. /\ K = 1..Len(parts) /\ Len(parts) \in Nat
        /\ \A j \in K : /\ parts[j].cents \in Nat /\ parts[j].rate \in Int
                        /\ f[j] = parts[j].cents * All[parts[j].rate]
    BY <1>0, WeighingType
  <2>2. \A j \in K : All[parts[j].rate] = 1
    BY <2>1 DEF All
  <2>3. IsFiniteSet(K)
    BY <2>1, FS_Interval
  <2> HIDE DEF f, K
  <2> QED BY <2>1, <2>2, <2>3
<1> HIDE DEF f, K
<1>3. ASSUME NEW h PROVE summed(h) = folded(h)
  <2>1. \A s \in SUBSET K : s # {} => f[CHOOSE x \in s : TRUE] = parts[CHOOSE x \in s : TRUE].cents
    BY <1>2
  <2> QED BY <2>1
<1>4. ASSUME NEW h PROVE AddsUp(h, f, K) <=> h = summed(h)
  BY DEF AddsUp
<1>5. PICK g : AddsUp(g, f, K)
  BY <1>2, SumUnfolds
<1> HIDE DEF summed, folded
<1>6. iter = folded(iter)
  <2>1. g = folded(g)
    BY <1>3, <1>4, <1>5
  <2> QED BY <2>1
<1>7. AddsUp(iter, f, K)
  BY <1>3, <1>4, <1>6
<1> HIDE DEF iter
<1>8. CentsOf(parts) = SumFunctionOnSet(f, K)
  BY <1>1, <1>2, <1>7, SumUnfolds
<1> QED BY <1>0, <1>8 DEF Weighted, f, K

LEMMA CentsAtIsSum ==
  ASSUME NEW parts \in Seq(Part), NEW rate \in Int
  PROVE  CentsAt(parts, rate) = Weighted(parts, Only(rate)) /\ Only(rate) \in Weights
<1> DEFINE f == Weighing(parts, Only(rate))
           D == DOMAIN parts
           K == {i \in D : parts[i].rate = rate}
           summed(h) == [s \in SUBSET K |-> IF s = {} THEN 0
                  ELSE f[CHOOSE x \in s : TRUE] + h[s \ {CHOOSE x \in s : TRUE}]]
           folded(h) == [s \in SUBSET K |-> IF s = {} THEN 0
                  ELSE parts[CHOOSE x \in s : TRUE].cents + h[s \ {CHOOSE x \in s : TRUE}]]
           iter == CHOOSE h : h = folded(h)
<1>0. Only(rate) \in Weights
  BY DEF Only, Weights
<1>1. CentsAt(parts, rate) = iter[K]
  BY DEF CentsAt, MapThenSumSet, MapThenFoldSet
<1>2. /\ IsFiniteSet(D) /\ \A j \in D : f[j] \in Int
      /\ \A j \in D : f[j] = IF parts[j].rate = rate THEN parts[j].cents ELSE 0
  <2>1. /\ D = 1..Len(parts) /\ Len(parts) \in Nat
        /\ \A j \in D : /\ parts[j].cents \in Nat /\ parts[j].rate \in Int
                        /\ f[j] = parts[j].cents * Only(rate)[parts[j].rate]
    BY <1>0, WeighingType
  <2>2. \A j \in D : Only(rate)[parts[j].rate] = IF parts[j].rate = rate THEN 1 ELSE 0
    BY <2>1 DEF Only
  <2>3. IsFiniteSet(D)
    BY <2>1, FS_Interval
  <2> HIDE DEF f, D
  <2>4. ASSUME NEW j \in D PROVE f[j] \in Int /\ f[j] = IF parts[j].rate = rate THEN parts[j].cents ELSE 0
    <3>1. PICK x \in Nat : x = parts[j].cents
      BY <2>1
    <3>2. f[j] = x * Only(rate)[parts[j].rate] /\ x * 1 = x /\ x * 0 = 0
      BY <2>1, <3>1
    <3> QED BY <2>2, <3>1, <3>2
  <2> QED BY <2>3, <2>4
<1> HIDE DEF f, D
<1>9. IsFiniteSet(K) /\ (\A j \in K : f[j] \in Int /\ f[j] = parts[j].cents) /\ K \in SUBSET D
  BY <1>2, FS_Subset
<1>10. \A j \in D \ K : f[j] = 0
  BY <1>2
<1> HIDE DEF K
<1>3. ASSUME NEW h PROVE summed(h) = folded(h)
  <2>1. \A s \in SUBSET K : s # {} => f[CHOOSE x \in s : TRUE] = parts[CHOOSE x \in s : TRUE].cents
    BY <1>9
  <2> QED BY <2>1
<1>4. ASSUME NEW h PROVE AddsUp(h, f, K) <=> h = summed(h)
  BY DEF AddsUp
<1>5. PICK g : AddsUp(g, f, K)
  BY <1>9, SumUnfolds
<1> HIDE DEF summed, folded
<1>6. iter = folded(iter)
  <2>1. g = folded(g)
    BY <1>3, <1>4, <1>5
  <2> QED BY <2>1
<1>7. AddsUp(iter, f, K)
  BY <1>3, <1>4, <1>6
<1> HIDE DEF iter
<1>8. CentsAt(parts, rate) = SumFunctionOnSet(f, K)
  BY <1>1, <1>9, <1>7, SumUnfolds
<1>11. SumFunctionOnSet(f, D) = SumFunctionOnSet(f, K) + 0
  <2>1. SumFunctionOnSet(f, D) = SumFunctionOnSet(f, K) + SumFunctionOnSet(f, D \ K)
    BY <1>2, <1>9, SumUnion
  <2>2. IsFiniteSet(D \ K)
    BY <1>2, FS_Subset
  <2>3. SumFunctionOnSet(f, D \ K) = 0
    BY <1>10, <2>2, SumZero
  <2> QED BY <2>1, <2>3
<1>12. SumFunctionOnSet(f, K) \in Int
  BY <1>9, SumType
<1> QED BY <1>0, <1>8, <1>11, <1>12 DEF Weighted, f, D

\* What a piece has at the rate of a tier, and in all.
LEMMA PieceKeeps ==
  ASSUME NEW entry, IsEntry(entry), ToldApart(entry), NEW a, NEW b, NEW s, IsPiece(s, entry, a, b),
         NEW n, n = Len(entry.tiers), NEW g, g = DaysOf(entry), NEW e, e = Slack(entry)
  PROVE  /\ \A i \in 1..n :
              /\ CentsAt(s.tiers, entry.tiers[i].rate) \in Nat
              /\ Near(g * CentsAt(s.tiers, entry.tiers[i].rate),
                      Reach(entry, i, b) - Reach(entry, i, a), e * g)
         /\ Near(CentsOf(s.tiers), s.cents, e * ((n + 1) \div 2))
<1>1. n \in Nat /\ DOMAIN entry.tiers = 1..n /\ \A i \in 1..n : entry.tiers[i].rate \in Int
  BY EntryGrains
<1>2. \A i, j \in 1..n : entry.tiers[i].rate = entry.tiers[j].rate => i = j
  BY <1>1 DEF ToldApart
<1>3. s.tiers \in Seq(Part)
  BY DEF IsPiece
<1>4. PICK kept \in [1..n -> Nat] :
          /\ \A i \in 1..n : Near(g * kept[i], Reach(entry, i, b) - Reach(entry, i, a), e * g)
          /\ Near(SumFunctionOnSet(kept, 1..n), s.cents, e * ((n + 1) \div 2))
          /\ \A w \in Weights :
               Weighted(s.tiers, w) = SumFunctionOnSet([i \in 1..n |-> kept[i] * w[entry.tiers[i].rate]], 1..n)
  BY DEF IsPiece
<1>5. IsFiniteSet(1..n)
  BY <1>1, FS_Interval
<1>6. ASSUME NEW i \in 1..n PROVE CentsAt(s.tiers, entry.tiers[i].rate) = kept[i]
  <2> DEFINE w == Only(entry.tiers[i].rate)
             f == [j \in 1..n |-> kept[j] * w[entry.tiers[j].rate]]
  <2>1. CentsAt(s.tiers, entry.tiers[i].rate) = Weighted(s.tiers, w) /\ w \in Weights
    BY <1>1, <1>3, CentsAtIsSum
  <2>2. \A j \in 1..n : w[entry.tiers[j].rate] = IF j = i THEN 1 ELSE 0
    BY <1>1, <1>2 DEF Only
  <2> HIDE DEF w
  <2>3. \A j \in 1..n : f[j] = IF j = i THEN kept[i] ELSE 0
    <3> SUFFICES ASSUME NEW j \in 1..n PROVE f[j] = IF j = i THEN kept[i] ELSE 0
      OBVIOUS
    <3>1. f[j] = kept[j] * w[entry.tiers[j].rate] /\ kept[j] \in Nat
      BY <1>4
    <3> HIDE DEF f
    <3>2. kept[j] * 1 = kept[j] /\ kept[j] * 0 = 0
      BY <3>1
    <3> QED BY <2>2, <3>1, <3>2
  <2>4. Weighted(s.tiers, w) = SumFunctionOnSet(f, 1..n)
    BY <1>4, <2>1
  <2> HIDE DEF f
  <2>5. \A j \in 1..n : f[j] \in Int
    BY <1>4, <2>3
  <2>6. SumFunctionOnSet(f, 1..n) = f[i] + SumFunctionOnSet(f, (1..n) \ {i})
    <3>1. PICK S, u : S = 1..n /\ u = f
      OBVIOUS
    <3>2. IsFiniteSet(S) /\ i \in S /\ \A j \in S : u[j] \in Int
      BY <1>5, <2>5, <3>1
    <3>3. SumFunctionOnSet(u, S) = u[i] + SumFunctionOnSet(u, S \ {i})
      BY <3>2, SumTakeOut
    <3> QED BY <3>1, <3>3
  <2>7. SumFunctionOnSet(f, (1..n) \ {i}) = 0
    <3>1. IsFiniteSet((1..n) \ {i}) /\ \A j \in (1..n) \ {i} : f[j] = 0
      BY <1>5, <2>3, FS_Subset
    <3> QED BY <3>1, SumZero
  <2>8. f[i] = kept[i] /\ f[i] \in Int
    BY <2>3, <2>5
  <2> QED BY <2>1, <2>4, <2>6, <2>7, <2>8
<1>7. CentsOf(s.tiers) = SumFunctionOnSet(kept, 1..n)
  <2> DEFINE f == [j \in 1..n |-> kept[j] * All[entry.tiers[j].rate]]
  <2>1. CentsOf(s.tiers) = Weighted(s.tiers, All) /\ All \in Weights
    BY <1>3, CentsOfIsSum
  <2>2. Weighted(s.tiers, All) = SumFunctionOnSet(f, 1..n)
    BY <1>4, <2>1
  <2>3. \A j \in 1..n : kept[j] \in Int /\ f[j] = kept[j]
    <3> SUFFICES ASSUME NEW j \in 1..n PROVE kept[j] \in Int /\ f[j] = kept[j]
      OBVIOUS
    <3>1. kept[j] \in Nat /\ f[j] = kept[j] * All[entry.tiers[j].rate]
      BY <1>4
    <3>2. All[entry.tiers[j].rate] = 1
      BY <1>1 DEF All
    <3> HIDE DEF f
    <3>3. kept[j] * 1 = kept[j]
      BY <3>1
    <3> QED BY <3>1, <3>2, <3>3
  <2> HIDE DEF f
  <2>4. SumFunctionOnSet(kept, 1..n) = SumFunctionOnSet(f, 1..n)
    BY <1>5, <2>3, SumSame
  <2> QED BY <2>1, <2>2, <2>4
<1>8. \A i \in 1..n : kept[i] \in Nat
  BY <1>4
<1>9. ASSUME NEW i \in 1..n
      PROVE  /\ CentsAt(s.tiers, entry.tiers[i].rate) \in Nat
             /\ Near(g * CentsAt(s.tiers, entry.tiers[i].rate),
                      Reach(entry, i, b) - Reach(entry, i, a), e * g)
  BY <1>4, <1>6, <1>8
<1> QED BY <1>4, <1>7, <1>9

LEMMA NearAbs ==
  ASSUME NEW x \in Int, NEW y \in Int, NEW c \in Int, Near(x, y, c)
  PROVE  Abs(x - y) <= c
BY DEF Near, Abs

LEMMA PartCents ==
  ASSUME NEW parts \in Seq(Part), NEW w \in Weights
  PROVE  Weighted(parts, w) \in Int
<1>1. [cents |-> 0, rate |-> 0] \in Part
  BY DEF Part
<1> QED BY <1>1, WeightedAppend

\* Where the parts of a piece come from.
\* The tiers its parts are taken from have a share of its days, unless it is
\* the whole entry, and come in the order of the parts.
TiersReached(parts, entry, a, b) ==
  \A i \in DOMAIN parts, x \in 1..Len(entry.tiers) :
    parts[i].rate = entry.tiers[x].rate =>
      \/ a = 0 /\ b = DaysOf(entry)
      \/ /\ PerDay(entry) * a < Ends(entry.tiers, DaysOf(entry))[x]
         /\ Ends(entry.tiers, DaysOf(entry))[x - 1] < PerDay(entry) * b
TiersOrdered(parts, entry) ==
  \A i, j \in DOMAIN parts, x, y \in 1..Len(entry.tiers) :
    /\ parts[i].rate = entry.tiers[x].rate /\ parts[j].rate = entry.tiers[y].rate
    /\ i < j
    => x < y

LEMMA PieceOrder ==
  ASSUME NEW entry, IsEntry(entry), ToldApart(entry), NEW a, NEW b, NEW s, IsPiece(s, entry, a, b)
  PROVE  TiersReached(s.tiers, entry, a, b) /\ TiersOrdered(s.tiers, entry)
<1>0. PICK n, g, H, ends : /\ n = Len(entry.tiers) /\ g = DaysOf(entry) /\ H = PerDay(entry)
                           /\ ends = Ends(entry.tiers, g)
  OBVIOUS
<1>1. \A p, q \in 1..n : entry.tiers[p].rate = entry.tiers[q].rate => p = q
  <2>1. DOMAIN entry.tiers = 1..n
    BY <1>0, EntryGrains
  <2> QED BY <2>1 DEF ToldApart
<1>2. s.tiers \in Seq(Part)
  BY DEF IsPiece
<1>3. PICK D : D = DOMAIN s.tiers /\ D = 1..Len(s.tiers)
  BY <1>2
<1>4. PICK at \in [1..Len(s.tiers) -> 1..n] :
        /\ \A p \in 1..Len(s.tiers) : s.tiers[p].rate = entry.tiers[at[p]].rate
        /\ \A p, q \in 1..Len(s.tiers) : p < q => at[p] < at[q]
        /\ \/ a = 0 /\ b = g
           \/ \A p \in 1..Len(s.tiers) : H * a < ends[at[p]] /\ ends[at[p] - 1] < H * b
  BY <1>0 DEF IsPiece
<1>5. /\ \A p \in D : at[p] \in 1..n /\ s.tiers[p].rate = entry.tiers[at[p]].rate
      /\ \A p, q \in D : p < q => at[p] < at[q]
  BY <1>3, <1>4
<1>6. (a = 0 /\ b = g) \/ \A p \in D : H * a < ends[at[p]] /\ ends[at[p] - 1] < H * b
  BY <1>3, <1>4
<1>7. \A p \in D, x \in 1..n : s.tiers[p].rate = entry.tiers[x].rate => x = at[p]
  BY <1>1, <1>5
<1>8. ASSUME NEW i \in D, NEW x \in 1..n, s.tiers[i].rate = entry.tiers[x].rate
      PROVE  (a = 0 /\ b = g) \/ (H * a < ends[x] /\ ends[x - 1] < H * b)
  BY <1>6, <1>7, <1>8
<1>9. ASSUME NEW i \in D, NEW j \in D, NEW x \in 1..n, NEW y \in 1..n,
             s.tiers[i].rate = entry.tiers[x].rate, s.tiers[j].rate = entry.tiers[y].rate, i < j
      PROVE  x < y
  <2>1. x = at[i] /\ y = at[j]
    BY <1>7, <1>9
  <2> QED BY <1>5, <1>9, <2>1
<1>10. TiersReached(s.tiers, entry, a, b)
  BY <1>0, <1>3, <1>8 DEF TiersReached
<1>11. TiersOrdered(s.tiers, entry)
  BY <1>0, <1>3, <1>9 DEF TiersOrdered
<1> QED BY <1>10, <1>11

\* The slices share out the entry.
LEMMA EntrySharedOut ==
  ASSUME NEW entry, IsEntry(entry), ToldApart(entry), NEW months, IsCalendar(months, entry)
  PROVE  SharedOut(entry, months)
<1>0. PICK n, g, ends, H, e, last, met, slice :
        /\ n = Len(entry.tiers) /\ g = DaysOf(entry) /\ ends = Ends(entry.tiers, g)
        /\ H = PerDay(entry) /\ e = Slack(entry) /\ last = Len(months)
        /\ met = UpToMonth(entry, months) /\ slice = Cut(entry, months)
  OBVIOUS
<1> DEFINE hit == {m \in 1..last : slice[m] # <<>>}
<1>1. n \in Nat /\ g \in Nat \ {0} /\ H \in Nat /\ e \in {0, 1} /\ entry.halves \in Nat
  <2>1. n \in Nat /\ g \in Nat \ {0} /\ H \in Nat /\ entry.halves \in Nat
    BY <1>0, EntryGrains
  <2> QED BY <1>0, <2>1 DEF Slack
<1>2. last \in Nat /\ last \in 0..last /\ 0 \in 0..last /\ DOMAIN months = 1..last
      /\ met[0] = 0 /\ met[last] = g
  <2>1. last \in Nat \ {0} /\ DOMAIN months = 1..last /\ met[0] = 0 /\ met[last] = g
    BY <1>0, MonthsCut
  <2> QED BY <2>1
<1>3. \A k \in 0..last : met[k] \in Nat
  BY <1>0, MonthsCut
<1>4. \A m \in 1..last : m \in 0..last /\ m - 1 \in 0..last /\ met[m - 1] <= met[m] /\ met[m] <= g
  BY <1>0, MonthsCut
<1>5. ASSUME NEW m \in 1..last
      PROVE  /\ m \notin hit => met[m] = met[m - 1]
             /\ m \in hit => met[m - 1] < met[m] /\ IsPiece(slice[m][1], entry, met[m - 1], met[m])
  <2>1. /\ met[m - 1] = met[m] => slice[m] = <<>>
        /\ met[m - 1] < met[m] => /\ slice[m] = <<slice[m][1]>>
                                  /\ IsPiece(slice[m][1], entry, met[m - 1], met[m])
    BY <1>0, MonthsCut
  <2>2. met[m - 1] \in Nat /\ met[m] \in Nat /\ met[m - 1] <= met[m]
    BY <1>3, <1>4
  <2>3. CASE met[m - 1] = met[m]
    BY <2>1, <2>2, <2>3
  <2>4. CASE met[m - 1] < met[m]
    <3>1. slice[m] # <<>>
      BY <2>1, <2>4
    <3> QED BY <2>1, <2>4, <3>1
  <2> QED BY <2>2, <2>3, <2>4
<1>6. hit \in SUBSET (1..last) /\ IsFiniteSet(hit) /\ Cardinality(hit) \in Nat
  <2>1. IsFiniteSet(1..last)
    BY <1>2, FS_Interval
  <2> QED BY <2>1, FS_Subset, FS_CardinalityType
<1>7. hit = {m \in DOMAIN months : slice[m] # <<>>}
  BY <1>2
<1> HIDE DEF hit
<1>8. \A m \in (1..last) \ hit : met[m] = met[m - 1]
  BY <1>5
<1>9. \A m \in hit : m \in 1..last /\ met[m - 1] < met[m] /\ IsPiece(slice[m][1], entry, met[m - 1], met[m])
  BY <1>5, <1>6
<1>10. \A x \in Int : e * x = Allowed(entry, x)
  <2>1. \A x \in Int : 0 * x = 0 /\ 1 * x = x
    OBVIOUS
  <2>2. e = IF entry.halves = 2 * DaysOf(entry) THEN 0 ELSE 1
    BY <1>0 DEF Slack
  <2> QED BY <2>1, <2>2 DEF Allowed
<1>11. Abs(CentsIn(slice, hit) - 50 * entry.halves) <= Allowed(entry, Cardinality(hit))
  <2> DEFINE kept == [m \in hit |-> slice[m][1].cents]
             r == [k \in 0..last |-> H * met[k]]
  <2>1. \A k \in 0..last : r[k] = H * met[k] /\ r[k] \in Int
    <3>1. \A x \in Nat : H * x \in Int
      BY <1>1
    <3> QED BY <1>3, <3>1
  <2>2. ASSUME NEW m \in hit
        PROVE  kept[m] = slice[m][1].cents /\ kept[m] \in Nat /\ Near(g * kept[m], r[m] - r[m - 1], e * g)
    <3>1. kept[m] = slice[m][1].cents
      OBVIOUS
    <3>2. slice[m][1].cents \in Nat /\ Near(g * slice[m][1].cents, H * met[m] - H * met[m - 1], e * g)
      BY <1>0, <1>9 DEF IsPiece
    <3>3. r[m] = H * met[m] /\ r[m - 1] = H * met[m - 1]
      BY <1>4, <1>9, <2>1
    <3> HIDE DEF kept, r
    <3> QED BY <3>1, <3>2, <3>3
  <2> HIDE DEF kept, r
  <2>3. \A m \in (1..last) \ hit : r[m] = r[m - 1]
    <3> SUFFICES ASSUME NEW m \in (1..last) \ hit PROVE r[m] = r[m - 1]
      OBVIOUS
    <3>1. met[m] = met[m - 1] /\ m \in 0..last /\ m - 1 \in 0..last
      BY <1>4, <1>8
    <3>2. r[m] = H * met[m] /\ r[m - 1] = H * met[m - 1]
      BY <2>1, <3>1
    <3> QED BY <3>1, <3>2, Zenon
  <2>4. PICK total \in Int : total = 50 * entry.halves /\ r[last] - r[0] = g * total
    <3>1. PICK h \in Nat : h = entry.halves
      BY <1>1
    <3>2. H = 50 * h
      BY <1>0, <3>1 DEF PerDay
    <3>3. r[last] = H * g /\ r[0] = H * 0
      BY <1>2, <2>1
    <3>4. (50 * h) * g - (50 * h) * 0 = g * (50 * h)
      BY <1>1
    <3>5. r[last] - r[0] = g * (50 * h) /\ 50 * h \in Int
      BY <3>2, <3>3, <3>4
    <3> QED BY <3>1, <3>5
  <2>5. Near(SumFunctionOnSet(kept, hit), total, e * Cardinality(hit))
    <3>1. \A m \in hit : kept[m] \in Nat /\ Near(g * kept[m], r[m] - r[m - 1], e * g)
      BY <2>2
    <3>2. \A k \in 0..last : r[k] \in Int
      BY <2>1
    <3>3. PICK u, v, L, G, c : u = kept /\ v = r /\ L = hit /\ G = g /\ c = e
      OBVIOUS
    <3>4. /\ last \in Nat /\ L \in SUBSET (1..last) /\ G \in Nat \ {0} /\ c \in {0, 1}
          /\ \A k \in 0..last : v[k] \in Int
          /\ \A m \in (1..last) \ L : v[m] = v[m - 1]
          /\ \A m \in L : u[m] \in Nat /\ Near(G * u[m], v[m] - v[m - 1], c * G)
          /\ total \in Int /\ v[last] - v[0] = G * total
      BY <1>1, <1>2, <1>6, <2>3, <2>4, <3>1, <3>2, <3>3
    <3>5. Near(SumFunctionOnSet(u, L), total, c * Cardinality(L))
      BY <3>4, KeptTogether, Zenon
    <3> QED BY <3>3, <3>5
  <2>6. SumFunctionOnSet(kept, hit) \in Int /\ \A m \in hit : kept[m] = slice[m][1].cents /\ kept[m] \in Int
    <3>1. \A m \in hit : kept[m] = slice[m][1].cents /\ kept[m] \in Int
      BY <2>2
    <3> QED BY <1>6, <3>1, SumType
  <2>7. CentsIn(slice, hit) = SumFunctionOnSet(kept, hit)
    BY <1>6, <2>6, CentsInIsSum
  <2>8. e * Cardinality(hit) \in Int /\ e * Cardinality(hit) = Allowed(entry, Cardinality(hit))
    BY <1>1, <1>6, <1>10
  <2> QED BY <2>4, <2>5, <2>6, <2>7, <2>8, NearAbs
<1>12. ASSUME NEW i \in 1..n
       PROVE  Abs(CentsInAt(slice, hit, entry.tiers[i].rate) - 50 * entry.tiers[i].halves)
                <= Allowed(entry, Cardinality(hit))
  <2> DEFINE rate == entry.tiers[i].rate
             kept == [m \in hit |-> CentsAt(slice[m][1].tiers, rate)]
             r == [k \in 0..last |-> Reach(entry, i, met[k])]
  <2>0. /\ \A x \in Nat : Reach(entry, i, x) \in Int
        /\ Reach(entry, i, g) - Reach(entry, i, 0) = g * (50 * entry.tiers[i].halves)
    BY <1>0, ReachWhole
  <2>1. \A k \in 0..last : r[k] = Reach(entry, i, met[k]) /\ r[k] \in Int
    BY <1>3, <2>0
  <2>2. ASSUME NEW m \in hit
        PROVE  kept[m] = CentsAt(slice[m][1].tiers, rate) /\ kept[m] \in Nat
               /\ Near(g * kept[m], r[m] - r[m - 1], e * g)
    <3>1. kept[m] = CentsAt(slice[m][1].tiers, rate)
      OBVIOUS
    <3>2. /\ CentsAt(slice[m][1].tiers, rate) \in Nat
          /\ Near(g * CentsAt(slice[m][1].tiers, rate), Reach(entry, i, met[m]) - Reach(entry, i, met[m - 1]), e * g)
      BY <1>0, <1>9, PieceKeeps
    <3>3. r[m] = Reach(entry, i, met[m]) /\ r[m - 1] = Reach(entry, i, met[m - 1])
      BY <1>4, <1>9, <2>1
    <3> HIDE DEF kept, r
    <3> QED BY <3>1, <3>2, <3>3
  <2> HIDE DEF kept, r
  <2>3. \A m \in (1..last) \ hit : r[m] = r[m - 1]
    <3> SUFFICES ASSUME NEW m \in (1..last) \ hit PROVE r[m] = r[m - 1]
      OBVIOUS
    <3>1. met[m] = met[m - 1] /\ m \in 0..last /\ m - 1 \in 0..last
      BY <1>4, <1>8
    <3>2. r[m] = Reach(entry, i, met[m]) /\ r[m - 1] = Reach(entry, i, met[m - 1])
      BY <2>1, <3>1
    <3> QED BY <3>1, <3>2, Zenon
  <2>4. PICK total \in Int : total = 50 * entry.tiers[i].halves /\ r[last] - r[0] = g * total
    <3>1. entry.tiers[i].halves \in Nat
      BY <1>0, EntryGrains
    <3>2. r[last] = Reach(entry, i, g) /\ r[0] = Reach(entry, i, 0)
      BY <1>2, <2>1
    <3>3. 50 * entry.tiers[i].halves \in Int
      BY <3>1
    <3> QED BY <2>0, <3>2, <3>3
  <2>5. Near(SumFunctionOnSet(kept, hit), total, e * Cardinality(hit))
    <3>1. \A m \in hit : kept[m] \in Nat /\ Near(g * kept[m], r[m] - r[m - 1], e * g)
      BY <2>2
    <3>2. \A k \in 0..last : r[k] \in Int
      BY <2>1
    <3>3. PICK u, v, L, G, c : u = kept /\ v = r /\ L = hit /\ G = g /\ c = e
      OBVIOUS
    <3>4. /\ last \in Nat /\ L \in SUBSET (1..last) /\ G \in Nat \ {0} /\ c \in {0, 1}
          /\ \A k \in 0..last : v[k] \in Int
          /\ \A m \in (1..last) \ L : v[m] = v[m - 1]
          /\ \A m \in L : u[m] \in Nat /\ Near(G * u[m], v[m] - v[m - 1], c * G)
          /\ total \in Int /\ v[last] - v[0] = G * total
      BY <1>1, <1>2, <1>6, <2>3, <2>4, <3>1, <3>2, <3>3
    <3>5. Near(SumFunctionOnSet(u, L), total, c * Cardinality(L))
      BY <3>4, KeptTogether, Zenon
    <3> QED BY <3>3, <3>5
  <2>6. SumFunctionOnSet(kept, hit) \in Int
        /\ \A m \in hit : kept[m] = CentsAt(slice[m][1].tiers, rate) /\ kept[m] \in Int
    <3>1. \A m \in hit : kept[m] = CentsAt(slice[m][1].tiers, rate) /\ kept[m] \in Int
      BY <2>2
    <3> QED BY <1>6, <3>1, SumType
  <2> HIDE DEF rate
  <2>7. CentsInAt(slice, hit, rate) = SumFunctionOnSet(kept, hit)
    <3>1. IsFiniteSet(hit) /\ \A m \in hit : kept[m] = CentsAt(slice[m][1].tiers, rate) /\ kept[m] \in Int
      BY <1>6, <2>6
    <3>2. PICK u, p, L, z : u = kept /\ p = slice /\ L = hit /\ z = rate
      OBVIOUS
    <3>3. IsFiniteSet(L) /\ \A m \in L : u[m] = CentsAt(p[m][1].tiers, z) /\ u[m] \in Int
      BY <3>1, <3>2
    <3>4. CentsInAt(p, L, z) = SumFunctionOnSet(u, L)
      BY <3>3, CentsInAtIsSum, SMTT(40)
    <3> QED BY <3>2, <3>4
  <2>8. e * Cardinality(hit) \in Int /\ e * Cardinality(hit) = Allowed(entry, Cardinality(hit))
    BY <1>1, <1>6, <1>10
  <2>9. Abs(SumFunctionOnSet(kept, hit) - total) <= Allowed(entry, Cardinality(hit))
    BY <2>5, <2>6, <2>8, NearAbs
  <2> QED BY <2>4, <2>7, <2>9 DEF rate
<1>13. ASSUME NEW m \in hit
       PROVE  Abs(CentsOf(slice[m][1].tiers) - slice[m][1].cents) <= Allowed(entry, (n + 1) \div 2)
  <2>1. Near(CentsOf(slice[m][1].tiers), slice[m][1].cents, e * ((n + 1) \div 2))
    BY <1>0, <1>9, PieceKeeps
  <2>2. slice[m][1].tiers \in Seq(Part) /\ slice[m][1].cents \in Nat
    BY <1>9 DEF IsPiece
  <2>3. CentsOf(slice[m][1].tiers) \in Int
    <3>1. CentsOf(slice[m][1].tiers) = Weighted(slice[m][1].tiers, All) /\ All \in Weights
      BY <2>2, CentsOfIsSum
    <3> QED BY <2>2, <3>1, PartCents
  <2>4. (n + 1) \div 2 \in Int
    BY <1>1
  <2>5. e * ((n + 1) \div 2) = Allowed(entry, (n + 1) \div 2) /\ e * ((n + 1) \div 2) \in Int
    BY <1>1, <1>10, <2>4
  <2> QED BY <2>1, <2>2, <2>3, <2>5, NearAbs
<1>14. \A i, j \in 0..last : i <= j => met[i] <= met[j]
  <2>1. \A k \in 0..last : met[k] \in Int
    BY <1>3
  <2>2. \A k \in 1..last : met[k - 1] <= met[k]
    BY <1>4
  <2> QED BY <1>2, <2>1, <2>2, EndsInOrder
<1>15. ASSUME NEW m \in hit, NEW k \in hit, NEW a \in 1..n, NEW b \in 1..n,
              NEW i \in DOMAIN slice[m][1].tiers, NEW j \in DOMAIN slice[k][1].tiers,
              m < k \/ (m = k /\ i < j),
              slice[m][1].tiers[i].rate = entry.tiers[a].rate,
              slice[k][1].tiers[j].rate = entry.tiers[b].rate
       PROVE  a <= b
  <2>1. PICK s, t, ma, mb, ka, kb :
          /\ s = slice[m][1] /\ t = slice[k][1]
          /\ ma = met[m - 1] /\ mb = met[m] /\ ka = met[k - 1] /\ kb = met[k]
    OBVIOUS
  <2>2. IsPiece(s, entry, ma, mb) /\ IsPiece(t, entry, ka, kb)
    BY <1>9, <2>1
  <2>3. CASE m = k /\ i < j
    <3>1. s.tiers[i].rate = entry.tiers[a].rate /\ s.tiers[j].rate = entry.tiers[b].rate
          /\ i \in DOMAIN s.tiers /\ j \in DOMAIN s.tiers
      BY <1>15, <2>1, <2>3
    <3>2. \A p, q \in DOMAIN s.tiers, x, y \in 1..n :
            /\ s.tiers[p].rate = entry.tiers[x].rate /\ s.tiers[q].rate = entry.tiers[y].rate /\ p < q
            => x < y
      <4>1. TiersOrdered(s.tiers, entry)
        BY <2>2, PieceOrder
      <4> QED BY <1>0, <4>1 DEF TiersOrdered
    <3>3. a < b
      BY <2>3, <3>1, <3>2
    <3> QED BY <1>1, <3>3
  <2>4. CASE m < k
    <3>1. /\ i \in DOMAIN s.tiers /\ s.tiers[i].rate = entry.tiers[a].rate
          /\ j \in DOMAIN t.tiers /\ t.tiers[j].rate = entry.tiers[b].rate
      BY <1>15, <2>1
    <3>2. (ma = 0 /\ mb = g) \/ ends[a - 1] < H * mb
      <4>1. \A p \in DOMAIN s.tiers, x \in 1..n : s.tiers[p].rate = entry.tiers[x].rate =>
              (ma = 0 /\ mb = g) \/ (H * ma < ends[x] /\ ends[x - 1] < H * mb)
        <5>1. TiersReached(s.tiers, entry, ma, mb)
          BY <2>2, PieceOrder
        <5> QED BY <1>0, <5>1 DEF TiersReached
      <4> QED BY <3>1, <4>1
    <3>3. (ka = 0 /\ kb = g) \/ H * ka < ends[b]
      <4>1. \A p \in DOMAIN t.tiers, x \in 1..n : t.tiers[p].rate = entry.tiers[x].rate =>
              (ka = 0 /\ kb = g) \/ (H * ka < ends[x] /\ ends[x - 1] < H * kb)
        <5>1. TiersReached(t.tiers, entry, ka, kb)
          BY <2>2, PieceOrder
        <5> QED BY <1>0, <5>1 DEF TiersReached
      <4> QED BY <3>1, <4>1
    <3>4. m \in 1..last /\ k \in 1..last /\ m \in 0..last /\ k - 1 \in 0..last /\ m <= k - 1
      <4>1. m \in 1..last /\ k \in 1..last
        BY <1>9
      <4> QED BY <1>2, <2>4, <4>1
    <3>5. ma \in Nat /\ mb \in Nat /\ ka \in Nat /\ kb \in Nat
      BY <1>3, <1>4, <2>1, <3>4
    <3>6. ma < mb /\ ka < kb /\ kb <= g
      BY <1>4, <1>9, <2>1, <3>4
    <3>7. mb <= ka
      BY <1>14, <2>1, <3>4
    <3>8. ends[a - 1] < H * mb /\ H * ka < ends[b]
      <4>1. mb # g /\ ka # 0
        BY <1>1, <3>5, <3>6, <3>7
      <4> QED BY <3>2, <3>3, <4>1
    <3>9. PICK x, y \in Nat : x = H * mb /\ y = H * ka /\ x <= y
      <4>1. H \in Nat
        BY <1>1
      <4>2. H * mb \in Nat /\ H * ka \in Nat /\ H * mb <= H * ka
        BY <3>5, <3>7, <4>1, LesserScaled, Z3
      <4> QED BY <4>2
    <3>10. a - 1 \in 0..n /\ b \in 0..n /\ a \in Int /\ b \in Int
      BY <1>1
    <3>11. ends[a - 1] \in Nat /\ ends[b] \in Nat /\ (b <= a - 1 => ends[b] <= ends[a - 1])
      <4>1. (\A p \in 0..n : ends[p] \in Nat) /\ \A p, q \in 0..n : p <= q => ends[p] <= ends[q]
        BY <1>0, EntryGrains
      <4> QED BY <3>10, <4>1
    <3>12. ~(b <= a - 1)
      BY <3>8, <3>9, <3>11
    <3> QED BY <3>10, <3>12
  <2> QED BY <1>15, <2>3, <2>4
<1>16. DOMAIN entry.tiers = 1..n /\ n = Len(entry.tiers) /\ slice = Cut(entry, months)
  BY <1>0, EntryGrains
<1>17. \A i \in DOMAIN entry.tiers :
         Abs(CentsInAt(slice, hit, entry.tiers[i].rate) - 50 * entry.tiers[i].halves)
           <= Allowed(entry, Cardinality(hit))
  BY <1>12, <1>16
<1>18. InOrder(entry, slice, hit)
  BY <1>15, <1>16 DEF InOrder
<1>19. \A m \in hit : Abs(CentsOf(slice[m][1].tiers) - slice[m][1].cents)
                         <= Allowed(entry, (Len(entry.tiers) + 1) \div 2)
  BY <1>13, <1>16
<1>20. Abs(CentsIn(slice, hit) - 50 * entry.halves) <= Allowed(entry, Cardinality(hit))
  BY <1>11
<1> QED BY <1>7, <1>16, <1>17, <1>18, <1>19, <1>20, Zenon DEF SharedOut

\* The consumptions of the samples are such entries.
LEMMA SampleEntries ==
  ASSUME NEW span \in Spans(LastDay), NEW halves \in 1..(2 * DaysOf(span)),
         NEW entry \in Consumptions(span, halves)
  PROVE  /\ IsEntry(entry) /\ ToldApart(entry) /\ IsCalendar(Months, entry)
         /\ \A i \in DOMAIN entry.tiers : entry.tiers[i].rate \in Rates
<1>1. /\ span.from \in 1..9 /\ span.to \in 1..9 /\ span.from <= span.to
  BY DEF Spans, LastDay
<1>2. DaysOf(span) \in Nat
  BY <1>1 DEF DaysOf
<1>3. halves \in Nat
  BY <1>2
<1>4. PICK t \in Tiers(halves) :
        entry = [from |-> span.from, to |-> span.to, halves |-> halves, tiers |-> t]
  BY DEF Consumptions
<1>5. /\ entry.from = span.from /\ entry.to = span.to /\ entry.halves = halves /\ entry.tiers = t
  BY <1>4
<1>6. IsCalendar(Months, entry)
  BY <1>1, <1>5 DEF IsCalendar, Months, IsSpan
<1> DEFINE Good ==
           /\ t \in Seq(Tier) /\ halves = SumFunctionOnSet(Halves(t), 1..Len(t))
           /\ \A i, j \in DOMAIN t : t[i].rate = t[j].rate => i = j
           /\ \A i \in DOMAIN t : t[i].rate \in Rates
<1>7. Good
  <2>1. ASSUME NEW r \in Rates, t = <<[halves |-> halves, rate |-> r]>> PROVE Good
    <3>1. r \in Int /\ r \in Rates
      BY DEF Rates
    <3>2. /\ t \in Seq(Tier) /\ DOMAIN t = {1} /\ Len(t) = 1 /\ t[1].halves = halves
          /\ t[1].rate = r
      BY <1>3, <2>1, <3>1 DEF Tier
    <3>3. 1..Len(t) = {1} /\ Halves(t)[1] = halves
      BY <3>2 DEF Halves
    <3>4. SumFunctionOnSet(Halves(t), {1}) = halves
      <4>1. PICK f : f = Halves(t)
        OBVIOUS
      <4>2. SumFunctionOnSet(f, {1}) = f[1]
        <5>1. f[1] \in Int
          BY <1>3, <3>3, <4>1
        <5> QED BY <5>1, SumOfSingleton, Zenon
      <4> QED BY <3>3, <4>1, <4>2
    <3> QED BY <3>1, <3>2, <3>3, <3>4
  <2>2. ASSUME NEW first \in 1..(halves - 1), NEW r \in {<<100, 0>>, <<50, 100>>},
               t = <<[halves |-> first, rate |-> r[1]], [halves |-> halves - first, rate |-> r[2]]>>
        PROVE Good
    <3>1. r[1] \in Int /\ r[2] \in Int /\ r[1] # r[2] /\ r[1] \in Rates /\ r[2] \in Rates
      BY DEF Rates
    <3>2. first \in Nat /\ halves - first \in Nat /\ first + (halves - first) = halves
      BY <1>3
    <3>3. PICK x, y : x = r[1] /\ y = r[2]
      OBVIOUS
    <3>4. PICK u \in Nat, v \in Nat : u = first /\ v = halves - first
      BY <3>2
    <3>5. t = <<[halves |-> u, rate |-> x], [halves |-> v, rate |-> y]>>
      BY <2>2, <3>3, <3>4
    <3>6. /\ t \in Seq(Tier) /\ DOMAIN t = {1, 2} /\ Len(t) = 2
          /\ t[1].halves = u /\ t[2].halves = v /\ t[1].rate = x /\ t[2].rate = y
      BY <3>1, <3>3, <3>5 DEF Tier
    <3>7. 1..Len(t) = {1, 2} /\ Halves(t)[1] = u /\ Halves(t)[2] = v
      BY <3>6 DEF Halves
    <3>8. SumFunctionOnSet(Halves(t), {1, 2}) = u + v
      <4>1. PICK f : f = Halves(t)
        OBVIOUS
      <4>2. 1 # 2 /\ f[1] \in Int /\ f[2] \in Int
        BY <3>7, <4>1
      <4>3. SumFunctionOnSet(f, {1, 2}) = f[1] + f[2]
        BY <4>2, SumOfPair, Zenon
      <4> QED BY <3>7, <4>1, <4>3
    <3>9. /\ \A i, j \in DOMAIN t : t[i].rate = t[j].rate => i = j
          /\ \A i \in DOMAIN t : t[i].rate \in Rates
      BY <3>1, <3>3, <3>6
    <3>10. u + v = halves
      BY <3>2, <3>4
    <3> QED BY <3>6, <3>7, <3>8, <3>9, <3>10
  <2> QED BY <1>4, <2>1, <2>2 DEF Tiers
<1>8. IsEntry(entry)
  BY <1>1, <1>5, <1>7 DEF IsEntry, IsSpan
<1>9. ToldApart(entry) /\ \A i \in DOMAIN entry.tiers : entry.tiers[i].rate \in Rates
  BY <1>5, <1>7 DEF ToldApart
<1> QED BY <1>6, <1>8, <1>9

\* sliceForPeriod and takeBreakdown: over months that follow each other the
\* slices of a consumption keep its days and those of each of its tiers, in
\* the order of the tiers, whatever their number and whatever half or free
\* days it holds; those of a run's sample too.
THEOREM SlicesShareOut ==
  /\ \A entry, months : IsEntry(entry) /\ ToldApart(entry) /\ IsCalendar(months, entry)
       => SharedOut(entry, months)
  /\ Spec => []SlicesShareEntry
<1>1. \A entry, months : IsEntry(entry) /\ ToldApart(entry) /\ IsCalendar(months, entry) =>
       SharedOut(entry, months)
  BY EntrySharedOut
<1>2. SharesEntry
  <2> SUFFICES ASSUME NEW span \in Spans(LastDay), NEW halves \in 1..(2 * DaysOf(span)),
                      NEW entry \in Consumptions(span, halves)
               PROVE SharedOut(entry, Months)
    BY DEF SharesEntry
  <2> QED BY <1>1, SampleEntries
<1>3. SlicesShareEntry
  BY <1>2 DEF SlicesShareEntry
<1> QED BY <1>1, <1>3, PTL

-----------------------------------------------------------------------------
(***************************************************************************)
(* The charge of leave.                                                    *)
(***************************************************************************)
LeavePart == [cents : Nat, rate : 0..FullRate]
LeaveRow(types) == [type : types, rate : 0..FullRate, cents : Nat]

LeaveSlice(types) == [type : types, tiers : Seq(LeavePart)]

\* Slices of leave of some types.
IsLeave(slices, types) == slices \in Seq(LeaveSlice(types))

LEMMA RowsAdded ==
  ASSUME NEW types, NEW s \in LeaveSlice(types),
         NEW acc \in Seq(LeaveRow(types))
  PROVE  /\ tierRows(s) \in Seq(LeaveRow(types)) /\ acc \o tierRows(s) \in Seq(LeaveRow(types))
         /\ Len(tierRows(s)) = Len(s.tiers) /\ Len(s.tiers) \in Nat /\ DOMAIN s.tiers = 1..Len(s.tiers)
         /\ \A t \in 1..Len(s.tiers) :
              /\ tierRows(s)[t].rate = s.tiers[t].rate /\ tierRows(s)[t].cents = s.tiers[t].cents
              /\ s.tiers[t].rate \in 0..FullRate /\ s.tiers[t].cents \in Nat
<1>1. s.type \in types /\ s.tiers \in Seq(LeavePart)
  BY DEF LeaveSlice
<1>2. PICK n \in Nat : n = Len(s.tiers) /\ DOMAIN s.tiers = 1..n
  BY <1>1
<1>3. \A t \in 1..n : s.tiers[t] \in LeavePart
  BY <1>1, <1>2
<1>4. \A t \in 1..n : s.tiers[t].rate \in 0..FullRate /\ s.tiers[t].cents \in Nat
  BY <1>3 DEF LeavePart
<1>5. tierRows(s) = [t \in 1..n |-> [type |-> s.type, rate |-> s.tiers[t].rate, cents |-> s.tiers[t].cents]]
  BY <1>2 DEF tierRows
<1>6. \A t \in 1..n : /\ tierRows(s)[t] \in LeaveRow(types) /\ tierRows(s)[t].rate = s.tiers[t].rate
                      /\ tierRows(s)[t].cents = s.tiers[t].cents
  BY <1>1, <1>4, <1>5 DEF LeaveRow
<1>7. tierRows(s) \in [1..n -> LeaveRow(types)]
  <2>1. tierRows(s) = [t \in 1..n |-> tierRows(s)[t]]
    BY <1>5
  <2> QED BY <1>6, <2>1
<1>8. tierRows(s) \in Seq(LeaveRow(types)) /\ Len(tierRows(s)) = n
  BY <1>7, SeqMade
<1> QED BY <1>2, <1>4, <1>6, <1>8

\* The rows that have been collected after each slice.
Collected(v, slices, types) ==
  /\ v \in [0..Len(slices) -> Seq(LeaveRow(types))]
  /\ v[0] = <<>>
  /\ \A k \in 1..Len(slices) : v[k] = v[k - 1] \o tierRows(slices[k])
  /\ leaveRows(slices) = v[Len(slices)]

LEMMA RowsSliceBySlice ==
  ASSUME NEW types, NEW slices, IsLeave(slices, types)
  PROVE  \E v : Collected(v, slices, types)
<1> DEFINE n == Len(slices)
           V == Seq(LeaveRow(types))
           step == [k \in 1..n |-> [a \in V |-> a \o tierRows(slices[k])]]
           TakesUp(h) == h = [s \in SUBSET (DOMAIN slices) |-> IF s = {} THEN <<>>
                                ELSE h[s \ {Max(s)}] \o tierRows(slices[Max(s)])]
           iter == CHOOSE h : TakesUp(h)
<1>1. n \in Nat /\ DOMAIN slices = 1..n
      /\ \A k \in 1..n : slices[k] \in LeaveSlice(types)
  <2> HIDE DEF V, step, TakesUp, iter
  <2> QED BY SeqEntries DEF IsLeave
<1>2. leaveRows(slices) = iter[1..n]
  <2>1. leaveRows(slices) = iter[DOMAIN slices]
    BY DEF leaveRows, FoldLeft, MapThenFoldSet
  <2> HIDE DEF iter, n
  <2> QED BY <1>1, <2>1
<1>3. <<>> \in V
  OBVIOUS
<1>4. LeftFold(n, V, <<>>, step)
  <2>1. ASSUME NEW k \in 1..n, NEW a \in V PROVE a \o tierRows(slices[k]) \in V
    BY <1>1, RowsAdded
  <2> HIDE DEF n, V
  <2> QED BY <1>1, <1>3, <2>1 DEF LeftFold
<1> HIDE DEF n, V, step
<1>5. \E g, v : OneLeftFold(g, v, n, V, <<>>, step)
  BY <1>4, LeftFoldPasses
<1> PICK g, v : OneLeftFold(g, v, n, V, <<>>, step)
  BY <1>5
<1>6. \A s \in SUBSET (1..n) : s # {} => Max(s) \in 1..n
  <2> SUFFICES ASSUME NEW s \in SUBSET (1..n), s # {} PROVE Max(s) \in 1..n
    OBVIOUS
  <2>1. Max(s) \in s
    BY <1>1, LastOne
  <2> QED BY <2>1
<1>7. \A k \in 1..n : \A a \in V : step[k][a] = a \o tierRows(slices[k])
  BY DEF step
<1>8. TakesUp(g)
  <2>1. g = [s \in SUBSET (1..n) |-> g[s]] /\ g[{}] = <<>>
    BY DEF OneLeftFold, FoldsLeft
  <2>2. ASSUME NEW s \in SUBSET (1..n), s # {}
        PROVE  g[s] = g[s \ {Max(s)}] \o tierRows(slices[Max(s)])
    <3>1. s \ {Max(s)} \in SUBSET (1..n)
      OBVIOUS
    <3>2. g[s \ {Max(s)}] \in V
      BY <3>1 DEF OneLeftFold
    <3>3. g[s] = step[Max(s)][g[s \ {Max(s)}]]
      BY <2>2, <3>2 DEF OneLeftFold, FoldsLeft
    <3> QED BY <1>6, <1>7, <2>2, <3>2, <3>3
  <2>3. \A s \in SUBSET (DOMAIN slices) : g[s] = IF s = {} THEN <<>>
                                ELSE g[s \ {Max(s)}] \o tierRows(slices[Max(s)])
    BY <1>1, <2>1, <2>2
  <2> QED BY <1>1, <2>1, <2>3
<1>9. TakesUp(iter)
  <2> HIDE DEF TakesUp
  <2> QED BY <1>8
<1> HIDE DEF iter
<1>10. FoldsLeft(iter, n, V, <<>>, step)
  <2>1. iter = [s \in SUBSET (1..n) |-> iter[s]] /\ iter[{}] = <<>>
    BY <1>1, <1>9
  <2>2. ASSUME NEW s \in SUBSET (1..n), s # {}, iter[s \ {Max(s)}] \in V
        PROVE  iter[s] = step[Max(s)][iter[s \ {Max(s)}]]
    <3>1. iter[s] = iter[s \ {Max(s)}] \o tierRows(slices[Max(s)])
      BY <1>1, <1>9, <2>2
    <3> HIDE DEF TakesUp
    <3> QED BY <1>6, <1>7, <2>2, <3>1
  <2> QED BY <2>1, <2>2 DEF FoldsLeft
<1>11. iter = g
  BY <1>10 DEF OneLeftFold
<1>12. /\ v \in [0..n -> V] /\ v[0] = <<>>
       /\ \A k \in 1..n : v[k] = step[k][v[k - 1]]
  BY DEF OneLeftFold, Passes
<1>13. ASSUME NEW k \in 1..n PROVE v[k] = v[k - 1] \o tierRows(slices[k])
  <2>1. k - 1 \in 0..n
    BY <1>1
  <2>2. v[k - 1] \in V
    BY <1>12, <2>1
  <2> QED BY <1>7, <1>12, <2>2
<1>14. leaveRows(slices) = v[n]
  BY <1>2, <1>11 DEF OneLeftFold
<1>15. Collected(v, slices, types)
  BY <1>12, <1>13, <1>14 DEF Collected, n, V
<1> QED BY <1>15

\* What each row leaves unpaid, in hundredths of a day and percent.
Owed(rows) == [i \in DOMAIN rows |-> rows[i].cents * (FullRate - rows[i].rate)]

LEMMA OwedType ==
  ASSUME NEW types, NEW rows \in Seq(LeaveRow(types))
  PROVE  /\ Len(rows) \in Nat /\ DOMAIN rows = 1..Len(rows) /\ IsFiniteSet(1..Len(rows))
         /\ \A i \in 1..Len(rows) :
              /\ rows[i] \in LeaveRow(types)
              /\ rows[i].cents \in Nat /\ rows[i].rate \in 0..FullRate /\ rows[i].type \in types
              /\ Owed(rows)[i] = rows[i].cents * (FullRate - rows[i].rate) /\ Owed(rows)[i] \in Nat
<1>1. Len(rows) \in Nat /\ DOMAIN rows = 1..Len(rows) /\ \A i \in 1..Len(rows) : rows[i] \in LeaveRow(types)
  BY SeqEntries
<1>2. IsFiniteSet(1..Len(rows))
  BY <1>1, FS_Interval
<1>3. ASSUME NEW i \in 1..Len(rows)
      PROVE  /\ rows[i].cents \in Nat /\ rows[i].rate \in 0..FullRate /\ rows[i].type \in types
             /\ Owed(rows)[i] = rows[i].cents * (FullRate - rows[i].rate) /\ Owed(rows)[i] \in Nat
  <2>1. rows[i].cents \in Nat /\ rows[i].rate \in 0..FullRate /\ rows[i].type \in types
    BY <1>1 DEF LeaveRow
  <2>2. PICK d \in Nat : d = FullRate - rows[i].rate
    <3>1. FullRate = 100
      BY DEF FullRate
    <3>2. PICK q \in 0..100 : q = rows[i].rate
      BY <2>1, <3>1
    <3>3. PICK z \in Nat : z = 100 - q
      OBVIOUS
    <3> QED BY <3>1, <3>2, <3>3
  <2>5. PICK c \in Nat : c = rows[i].cents
    BY <2>1
  <2>3. Owed(rows)[i] = rows[i].cents * (FullRate - rows[i].rate)
    BY <1>1 DEF Owed
  <2>4. c * d \in Nat
    OBVIOUS
  <2> QED BY <2>1, <2>2, <2>3, <2>4, <2>5
<1> QED BY <1>1, <1>2, <1>3

LEMMA UnpaidByIsSum ==
  ASSUME NEW types, NEW s \in LeaveSlice(types)
  PROVE  /\ UnpaidBy(s) = SumFunctionOnSet(Owed(tierRows(s)), 1..Len(tierRows(s)))
         /\ UnpaidBy(s) \in Nat
<1> DEFINE f == Owed(tierRows(s))
           K == DOMAIN s.tiers
           folded(h) == [S \in SUBSET K |-> IF S = {} THEN 0
                  ELSE s.tiers[CHOOSE x \in S : TRUE].cents * (FullRate - s.tiers[CHOOSE x \in S : TRUE].rate)
                         + h[S \ {CHOOSE x \in S : TRUE}]]
           iter == CHOOSE h : h = folded(h)
<1>1. UnpaidBy(s) = iter[K]
  BY DEF UnpaidBy, MapThenSumSet, MapThenFoldSet
<1>2. /\ K = 1..Len(tierRows(s)) /\ IsFiniteSet(K)
      /\ \A t \in K : f[t] \in Nat /\ f[t] = s.tiers[t].cents * (FullRate - s.tiers[t].rate)
  <2>1. <<>> \in Seq(LeaveRow(types))
    OBVIOUS
  <2>2. /\ tierRows(s) \in Seq(LeaveRow(types)) /\ K = 1..Len(tierRows(s))
        /\ \A t \in K : /\ tierRows(s)[t].rate = s.tiers[t].rate /\ tierRows(s)[t].cents = s.tiers[t].cents
    BY <2>1, RowsAdded
  <2> HIDE DEF K
  <2>3. /\ IsFiniteSet(K)
        /\ \A t \in K : /\ Owed(tierRows(s))[t] = tierRows(s)[t].cents * (FullRate - tierRows(s)[t].rate)
                        /\ Owed(tierRows(s))[t] \in Nat
    BY <2>2, OwedType
  <2> QED BY <2>2, <2>3
<1> HIDE DEF f, K
<1>3. ASSUME NEW h PROVE AddsUp(h, f, K) <=> h = folded(h)
  <2>1. \A S \in SUBSET K : S # {} => f[CHOOSE x \in S : TRUE]
          = s.tiers[CHOOSE x \in S : TRUE].cents * (FullRate - s.tiers[CHOOSE x \in S : TRUE].rate)
    <3> SUFFICES ASSUME NEW S \in SUBSET K, S # {}
                 PROVE f[CHOOSE x \in S : TRUE]
                         = s.tiers[CHOOSE x \in S : TRUE].cents * (FullRate - s.tiers[CHOOSE x \in S : TRUE].rate)
      OBVIOUS
    <3>1. PICK y \in K : y = CHOOSE x \in S : TRUE
      OBVIOUS
    <3> QED BY <1>2, <3>1
  <2> QED BY <2>1 DEF AddsUp
<1> HIDE DEF folded
<1>4. \A x \in K : f[x] \in Int
  BY <1>2
<1>5. PICK g : AddsUp(g, f, K)
  BY <1>2, <1>4, SumUnfolds
<1>6. iter = folded(iter)
  <2>1. g = folded(g)
    BY <1>3, <1>5
  <2> QED BY <2>1
<1>7. AddsUp(iter, f, K)
  BY <1>3, <1>6
<1> HIDE DEF iter
<1>8. UnpaidBy(s) = SumFunctionOnSet(f, K)
  BY <1>1, <1>2, <1>4, <1>7, SumUnfolds
<1>9. SumFunctionOnSet(f, K) \in Nat
  BY <1>2, SumNat
<1> QED BY <1>2, <1>8, <1>9 DEF f

\* Slice by slice and in all.
LEMMA UnpaidOfIsSum ==
  ASSUME NEW slices, NEW n \in Nat, DOMAIN slices = 1..n, NEW f,
         \A i \in 1..n : f[i] \in Int /\ f[i] = UnpaidBy(slices[i])
  PROVE  UnpaidOf(slices) = SumFunctionOnSet(f, 1..n)
<1> DEFINE K == DOMAIN slices
           folded(h) == [S \in SUBSET K |-> IF S = {} THEN 0
                  ELSE UnpaidBy(slices[CHOOSE x \in S : TRUE]) + h[S \ {CHOOSE x \in S : TRUE}]]
           iter == CHOOSE h : h = folded(h)
<1>1. UnpaidOf(slices) = iter[K]
  BY DEF UnpaidOf, MapThenSumSet, MapThenFoldSet
<1>2. K = 1..n /\ IsFiniteSet(K) /\ \A i \in K : f[i] \in Int /\ f[i] = UnpaidBy(slices[i])
  BY FS_Interval
<1> HIDE DEF K
<1>3. ASSUME NEW h PROVE AddsUp(h, f, K) <=> h = folded(h)
  <2>1. \A S \in SUBSET K : S # {} => f[CHOOSE x \in S : TRUE] = UnpaidBy(slices[CHOOSE x \in S : TRUE])
    BY <1>2
  <2> QED BY <2>1 DEF AddsUp
<1> HIDE DEF folded
<1>5. PICK g : AddsUp(g, f, K)
  BY <1>2, SumUnfolds
<1>6. iter = folded(iter)
  <2>1. g = folded(g)
    BY <1>3, <1>5
  <2> QED BY <2>1
<1>7. AddsUp(iter, f, K)
  BY <1>3, <1>6
<1> HIDE DEF iter
<1>8. UnpaidOf(slices) = SumFunctionOnSet(f, K)
  BY <1>1, <1>2, <1>7, SumUnfolds
<1> QED BY <1>2, <1>8

\* The rows owe what the slices leave unpaid.
LEMMA RowsOwe ==
  ASSUME NEW types, NEW slices, IsLeave(slices, types)
  PROVE  /\ leaveRows(slices) \in Seq(LeaveRow(types))
         /\ UnpaidOf(slices) = SumFunctionOnSet(Owed(leaveRows(slices)), 1..Len(leaveRows(slices)))
<1>0. PICK n \in Nat : n = Len(slices) /\ DOMAIN slices = 1..n
                       /\ \A k \in 1..n : slices[k] \in LeaveSlice(types)
  BY SeqEntries DEF IsLeave
<1>1. PICK v : Collected(v, slices, types)
  BY RowsSliceBySlice
<1>2. /\ \A k \in 0..n : v[k] \in Seq(LeaveRow(types))
      /\ v[0] = <<>> /\ leaveRows(slices) = v[n]
      /\ \A k \in 1..n : v[k] = v[k - 1] \o tierRows(slices[k])
  BY <1>0, <1>1 DEF Collected
<1>3. PICK f : f = [i \in 1..n |-> UnpaidBy(slices[i])]
  OBVIOUS
<1>4. \A i \in 1..n : f[i] \in Int /\ f[i] = UnpaidBy(slices[i])
  BY <1>0, <1>3, UnpaidByIsSum
<1>5. UnpaidOf(slices) = SumFunctionOnSet(f, 1..n)
  BY <1>0, <1>4, UnpaidOfIsSum
<1> DEFINE sum(k) == SumFunctionOnSet(Owed(v[k]), 1..Len(v[k]))
           p == [k \in 0..n |-> sum(k)]
<1>6. \A k \in 0..n : p[k] = sum(k) /\ p[k] \in Int
  <2> SUFFICES ASSUME NEW k \in 0..n PROVE sum(k) \in Int
    OBVIOUS
  <2>1. PICK r \in Seq(LeaveRow(types)) : r = v[k]
    BY <1>2
  <2>2. IsFiniteSet(1..Len(r)) /\ \A i \in 1..Len(r) : Owed(r)[i] \in Int
    BY OwedType
  <2>3. SumFunctionOnSet(Owed(r), 1..Len(r)) \in Int
    BY <2>2, SumType
  <2> QED BY <2>1, <2>3
<1>7. ASSUME NEW k \in 1..n PROVE f[k] = p[k] - p[k - 1]
  <2>1. k \in 0..n /\ k - 1 \in 0..n
    BY <1>0
  <2>2. PICK r \in Seq(LeaveRow(types)) : r = v[k - 1]
    BY <1>2, <2>1
  <2>3. PICK t : t = tierRows(slices[k]) /\ t \in Seq(LeaveRow(types)) /\ r \o t \in Seq(LeaveRow(types))
    BY <1>0, RowsAdded
  <2>4. v[k] = r \o t
    BY <1>2, <2>2, <2>3
  <2>5. SumFunctionOnSet(Owed(r \o t), 1..Len(r \o t))
          = SumFunctionOnSet(Owed(r), 1..Len(r)) + SumFunctionOnSet(Owed(t), 1..Len(t))
    <3>1. PICK a, b, c \in Nat : a = Len(r) /\ b = Len(t) /\ c = Len(r \o t) /\ c = a + b
      <4>1. Len(r) \in Nat /\ Len(t) \in Nat
        BY <2>3, OwedType
      <4>2. Len(r \o t) = Len(r) + Len(t)
        BY <2>3
      <4> QED BY <4>1, <4>2
    <3>2. PICK w : w = r \o t
      OBVIOUS
    <3>3. (\A i \in 1..a : w[i] = r[i]) /\ \A j \in 1..b : w[a + j] = t[j]
      BY <2>3, <3>1, <3>2
    <3>4. PICK F, G, H : F = Owed(w) /\ G = Owed(r) /\ H = Owed(t)
      OBVIOUS
    <3>5. \A i \in 1..a : F[i] \in Int /\ G[i] = F[i]
      <4> SUFFICES ASSUME NEW i \in 1..a PROVE F[i] \in Int /\ G[i] = F[i]
        OBVIOUS
      <4>1. i \in 1..c
        BY <3>1
      <4>2. F[i] = w[i].cents * (FullRate - w[i].rate) /\ F[i] \in Nat
        BY <2>3, <3>1, <3>2, <3>4, <4>1, OwedType
      <4>3. G[i] = r[i].cents * (FullRate - r[i].rate)
        BY <3>1, <3>4, OwedType
      <4> QED BY <3>3, <4>2, <4>3
    <3>6. \A j \in 1..b : F[a + j] \in Int /\ H[j] = F[a + j]
      <4> SUFFICES ASSUME NEW j \in 1..b PROVE F[a + j] \in Int /\ H[j] = F[a + j]
        OBVIOUS
      <4>1. a + j \in 1..c
        BY <3>1
      <4>2. F[a + j] = w[a + j].cents * (FullRate - w[a + j].rate) /\ F[a + j] \in Nat
        BY <2>3, <3>1, <3>2, <3>4, <4>1, OwedType
      <4>3. H[j] = t[j].cents * (FullRate - t[j].rate)
        BY <2>3, <3>1, <3>4, OwedType
      <4> QED BY <3>3, <4>2, <4>3
    <3>7. SumFunctionOnSet(F, 1..(a + b)) = SumFunctionOnSet(G, 1..a) + SumFunctionOnSet(H, 1..b)
      <4>1. EndToEnd(F, a, G, b, H)
        BY <3>5, <3>6 DEF EndToEnd
      <4> QED BY <4>1, SumConcat
    <3> QED BY <3>1, <3>2, <3>4, <3>7
  <2>6. f[k] = SumFunctionOnSet(Owed(t), 1..Len(t)) /\ f[k] \in Int
    BY <1>0, <1>4, <2>3, UnpaidByIsSum
  <2>7. p[k] = SumFunctionOnSet(Owed(r \o t), 1..Len(r \o t)) /\ p[k - 1] = SumFunctionOnSet(Owed(r), 1..Len(r))
    BY <1>6, <2>1, <2>2, <2>4
  <2>8. p[k - 1] \in Int
    BY <1>6, <2>1
  <2> QED BY <2>5, <2>6, <2>7, <2>8
<1>8. p[0] = 0
  <2>1. 0 \in 0..n /\ 1..Len(v[0]) = {}
    BY <1>2
  <2> QED BY <1>6, <2>1, SumEmpty
<1> HIDE DEF p
<1>9. SumFunctionOnSet(f, 1..n) = p[n] - p[0]
  BY <1>6, <1>7, SumTelescopes
<1>10. n \in 0..n
  BY <1>0
<1> QED BY <1>2, <1>5, <1>6, <1>8, <1>9, <1>10

CentsAlong(rows) == [i \in DOMAIN rows |-> rows[i].cents]

LEMMA ShortfallIs ==
  ASSUME NEW types, NEW rows \in Seq(LeaveRow(types)), NEW i \in 1..Len(rows)
  PROVE  /\ alike(rows, i) \in SUBSET (1..Len(rows)) /\ IsFiniteSet(alike(rows, i))
         /\ SumFunctionOnSet(CentsAlong(rows), alike(rows, i)) \in Nat
         /\ shortfallAt(rows, i) = [type |-> rows[i].type, rate |-> rows[i].rate,
                                    cents |-> SumFunctionOnSet(CentsAlong(rows), alike(rows, i))]
<1> DEFINE f == CentsAlong(rows)
           K == alike(rows, i)
           folded(h) == [S \in SUBSET K |-> IF S = {} THEN 0
                  ELSE rows[CHOOSE x \in S : TRUE].cents + h[S \ {CHOOSE x \in S : TRUE}]]
           iter == CHOOSE h : h = folded(h)
<1>1. shortfallAt(rows, i) = [rows[i] EXCEPT !.cents = iter[K]]
  BY DEF shortfallAt, MapThenSumSet, MapThenFoldSet
<1>2. /\ Len(rows) \in Nat /\ DOMAIN rows = 1..Len(rows) /\ IsFiniteSet(1..Len(rows))
      /\ \A j \in 1..Len(rows) : rows[j].cents \in Nat
      /\ rows[i] \in LeaveRow(types)
  BY OwedType
<1>3. K \in SUBSET (1..Len(rows)) /\ IsFiniteSet(K)
  <2>1. K \in SUBSET (1..Len(rows))
    BY <1>2 DEF alike
  <2> QED BY <1>2, <2>1, FS_Subset
<1>4. \A j \in K : f[j] \in Nat /\ f[j] = rows[j].cents
  BY <1>2, <1>3 DEF CentsAlong
<1> HIDE DEF f, K
<1>5. ASSUME NEW h PROVE AddsUp(h, f, K) <=> h = folded(h)
  <2>1. \A S \in SUBSET K : S # {} => f[CHOOSE x \in S : TRUE] = rows[CHOOSE x \in S : TRUE].cents
    BY <1>4
  <2> QED BY <2>1 DEF AddsUp
<1> HIDE DEF folded
<1>6. \A x \in K : f[x] \in Int
  BY <1>4
<1>7. PICK g : AddsUp(g, f, K)
  BY <1>3, <1>6, SumUnfolds
<1>8. iter = folded(iter)
  <2>1. g = folded(g)
    BY <1>5, <1>7
  <2> QED BY <2>1
<1>9. AddsUp(iter, f, K)
  BY <1>5, <1>8
<1> HIDE DEF iter
<1>10. iter[K] = SumFunctionOnSet(f, K)
  BY <1>3, <1>6, <1>9, SumUnfolds
<1>11. SumFunctionOnSet(f, K) \in Nat
  BY <1>3, <1>4, SumNat
<1>12. [rows[i] EXCEPT !.cents = SumFunctionOnSet(f, K)]
         = [type |-> rows[i].type, rate |-> rows[i].rate, cents |-> SumFunctionOnSet(f, K)]
  <2>1. PICK c, row : c = SumFunctionOnSet(f, K) /\ row = rows[i] /\ row \in LeaveRow(types)
    BY <1>2
  <2>2. [row EXCEPT !.cents = c] = [type |-> row.type, rate |-> row.rate, cents |-> c]
    BY <2>1 DEF LeaveRow
  <2> QED BY <2>1, <2>2
<1> QED BY <1>1, <1>3, <1>10, <1>11, <1>12 DEF f, K

\* A shortfall holds all rows of its type and rate, and no row is in two.
LEMMA ShortfallsOwe ==
  ASSUME NEW types, NEW rows \in Seq(LeaveRow(types)), NEW D, D = 1..Len(rows),
         NEW K, K = {shortfallAt(rows, i) : i \in D},
         NEW h, \A v \in K : h[v] = (FullRate - v.rate) * v.cents
  PROVE  /\ IsFiniteSet(K)
         /\ \A v \in K : v.rate \in 0..FullRate /\ v.cents \in Nat
         /\ SumFunctionOnSet(h, K) = SumFunctionOnSet(Owed(rows), D)
<1>1. PICK key : key = [i \in D |-> shortfallAt(rows, i)]
  OBVIOUS
<1>2. PICK cents, owed : cents = CentsAlong(rows) /\ owed = Owed(rows)
  OBVIOUS
<1>3. /\ IsFiniteSet(D) /\ DOMAIN rows = D
      /\ \A i \in D : /\ rows[i].cents \in Nat /\ rows[i].rate \in 0..FullRate
                      /\ owed[i] = rows[i].cents * (FullRate - rows[i].rate) /\ owed[i] \in Int
                      /\ cents[i] = rows[i].cents
  <2>1. /\ IsFiniteSet(D) /\ DOMAIN rows = D
        /\ \A i \in D : /\ rows[i].cents \in Nat /\ rows[i].rate \in 0..FullRate
                        /\ owed[i] = rows[i].cents * (FullRate - rows[i].rate) /\ owed[i] \in Nat
    BY <1>2, OwedType
  <2>2. \A i \in D : cents[i] = rows[i].cents
    BY <1>2, <2>1 DEF CentsAlong
  <2> QED BY <2>1, <2>2
<1>4. ASSUME NEW i \in D
      PROVE  /\ key[i] \in K /\ alike(rows, i) \in SUBSET D /\ IsFiniteSet(alike(rows, i))
             /\ key[i].type = rows[i].type /\ key[i].rate = rows[i].rate
             /\ key[i].cents = SumFunctionOnSet(cents, alike(rows, i)) /\ key[i].cents \in Nat
             /\ key[i] = [type |-> rows[i].type, rate |-> rows[i].rate,
                          cents |-> SumFunctionOnSet(cents, alike(rows, i))]
  <2>1. /\ alike(rows, i) \in SUBSET D /\ IsFiniteSet(alike(rows, i))
        /\ SumFunctionOnSet(cents, alike(rows, i)) \in Nat
        /\ shortfallAt(rows, i) = [type |-> rows[i].type, rate |-> rows[i].rate,
                                   cents |-> SumFunctionOnSet(cents, alike(rows, i))]
    BY <1>2, ShortfallIs
  <2>2. key[i] = shortfallAt(rows, i) /\ key[i] \in K
    BY <1>1
  <2> QED BY <2>1, <2>2
<1>6. \A v \in K : \E i \in D : key[i] = v
  BY <1>1
<1>5. IsFiniteSet(K)
  <2>1. key \in [D -> K]
    BY <1>1
  <2>2. key \in Surjection(D, K)
    BY <1>6, <2>1 DEF Surjection
  <2> QED BY <1>3, <2>2, FS_Surjection, Zenon
<1>12. \A i \in D : /\ key[i] \in K /\ key[i].type = rows[i].type /\ key[i].rate = rows[i].rate
                    /\ key[i].cents \in Nat
  BY <1>4
<1>7. ASSUME NEW i \in D PROVE {x \in D : key[x] = key[i]} = alike(rows, i)
  <2>1. \A x \in D : x \in alike(rows, i) <=> rows[x].type = rows[i].type /\ rows[x].rate = rows[i].rate
    BY <1>3 DEF alike
  <2>2. ASSUME NEW x \in D, x \in alike(rows, i) PROVE key[x] = key[i]
    <3>1. rows[x].type = rows[i].type /\ rows[x].rate = rows[i].rate
      BY <2>1, <2>2
    <3>2. alike(rows, x) = alike(rows, i)
      BY <3>1 DEF alike
    <3>3. PICK c : c = SumFunctionOnSet(cents, alike(rows, i))
      OBVIOUS
    <3>4. /\ key[x] = [type |-> rows[x].type, rate |-> rows[x].rate, cents |-> c]
          /\ key[i] = [type |-> rows[i].type, rate |-> rows[i].rate, cents |-> c]
      BY <1>4, <3>2, <3>3
    <3> QED BY <3>1, <3>4
  <2>3. ASSUME NEW x \in D, key[x] = key[i] PROVE x \in alike(rows, i)
    <3>1. PICK u, w : u = key[x] /\ w = key[i] /\ u = w
      BY <2>3
    <3>2. u.type = rows[x].type /\ u.rate = rows[x].rate /\ w.type = rows[i].type /\ w.rate = rows[i].rate
      BY <1>12, <3>1
    <3>3. rows[x].type = rows[i].type /\ rows[x].rate = rows[i].rate
      BY <3>1, <3>2
    <3> QED BY <2>1, <3>3
  <2> QED BY <1>4, <2>2, <2>3
<1>8. ASSUME NEW i \in D PROVE h[key[i]] = SumFunctionOnSet(owed, {x \in D : key[x] = key[i]})
  <2>1. PICK S, q, c : S = alike(rows, i) /\ q = rows[i].rate /\ c = FullRate - q
    OBVIOUS
  <2>2. c \in Int
    <3>1. FullRate = 100 /\ q \in 0..FullRate
      BY <1>3, <2>1 DEF FullRate
    <3> QED BY <2>1, <3>1
  <2>3. ASSUME NEW x \in S PROVE cents[x] \in Int /\ owed[x] = c * cents[x]
    <3>1. x \in D /\ rows[x].rate = q
      BY <1>4, <2>1 DEF alike
    <3>2. cents[x] \in Nat /\ owed[x] = cents[x] * c
      BY <1>3, <2>1, <3>1
    <3> QED BY <2>2, <3>2
  <2>4. IsFiniteSet(S)
    BY <1>4, <2>1
  <2>5. SumFunctionOnSet(owed, S) = c * SumFunctionOnSet(cents, S)
    BY <2>2, <2>3, <2>4, SumScaled, SMTT(40)
  <2>6. h[key[i]] = c * key[i].cents
    BY <1>4, <2>1
  <2> QED BY <1>4, <1>7, <2>1, <2>5, <2>6
<1>9. \A v \in K : h[v] = SumFunctionOnSet(owed, {x \in D : key[x] = v})
  <2> SUFFICES ASSUME NEW v \in K PROVE h[v] = SumFunctionOnSet(owed, {x \in D : key[x] = v})
    OBVIOUS
  <2>1. PICK i \in D : key[i] = v
    BY <1>6
  <2>2. h[key[i]] = SumFunctionOnSet(owed, {x \in D : key[x] = key[i]})
    BY <1>8
  <2> QED BY <2>1, <2>2, Zenon
<1>10. SumFunctionOnSet(h, K) = SumFunctionOnSet(owed, D)
  <2>1. Gathers(h, K, owed, D, key)
    BY <1>9, <1>12 DEF Gathers
  <2>2. IsFiniteSet(D) /\ IsFiniteSet(K) /\ \A x \in D : owed[x] \in Int
    BY <1>3, <1>5
  <2>3. PICK S, L, u, f, k : /\ S = D /\ L = K /\ u = h /\ f = owed /\ k = key
                              /\ Gathers(u, L, f, S, k) /\ IsFiniteSet(S) /\ IsFiniteSet(L)
                              /\ \A x \in S : f[x] \in Int
    BY <2>1, <2>2, Zenon
  <2>4. SumFunctionOnSet(u, L) = SumFunctionOnSet(f, S)
    BY <2>3, SumByKey, SMTT(60)
  <2> QED BY <2>3, <2>4
<1>11. \A v \in K : v.rate \in 0..FullRate /\ v.cents \in Nat
  <2> SUFFICES ASSUME NEW v \in K PROVE v.rate \in 0..FullRate /\ v.cents \in Nat
    OBVIOUS
  <2>1. PICK i \in D : key[i] = v
    BY <1>6
  <2>2. key[i].rate = rows[i].rate /\ key[i].cents \in Nat /\ rows[i].rate \in 0..FullRate
    BY <1>3, <1>12
  <2> QED BY <2>1, <2>2
<1> QED BY <1>2, <1>5, <1>10, <1>11

\* What the lines of leave come to.
LEMMA LeaveLinesIsSum ==
  ASSUME NEW slices, NEW basic, NEW days, NEW C,
         C = {s \in shortfallsOf(slices) : isChargeable(s)}, IsFiniteSet(C),
         NEW f, \A s \in C : f[s] \in Int /\ f[s] = shortfallMinor(s, basic, days)
  PROVE  LeaveLines(slices, basic, days) = SumFunctionOnSet(f, C)
<1> DEFINE folded(h) == [S \in SUBSET C |-> IF S = {} THEN 0
                  ELSE shortfallMinor(CHOOSE x \in S : TRUE, basic, days) + h[S \ {CHOOSE x \in S : TRUE}]]
           iter == CHOOSE h : h = folded(h)
<1>1. LeaveLines(slices, basic, days) = iter[C]
  BY DEF LeaveLines, MapThenSumSet, MapThenFoldSet
<1>3. ASSUME NEW h PROVE AddsUp(h, f, C) <=> h = folded(h)
  <2>1. \A S \in SUBSET C : S # {} => f[CHOOSE x \in S : TRUE] = shortfallMinor(CHOOSE x \in S : TRUE, basic, days)
    OBVIOUS
  <2> QED BY <2>1 DEF AddsUp
<1> HIDE DEF folded
<1>5. PICK g : AddsUp(g, f, C)
  BY SumUnfolds
<1>6. iter = folded(iter)
  <2>1. g = folded(g)
    BY <1>3, <1>5
  <2> QED BY <2>1
<1>7. AddsUp(iter, f, C)
  BY <1>3, <1>6
<1> HIDE DEF iter
<1> QED BY <1>1, <1>7, SumUnfolds

\* One line is what its shortfall owes, rounded once.
LEMMA LineRounds ==
  ASSUME NEW basic \in Nat, NEW days \in Nat \ {0}, NEW s, s.rate \in 0..FullRate, s.cents \in Nat,
         NEW owed, owed = (FullRate - s.rate) * s.cents, NEW u, u = 100 * FullRate * days,
         NEW q, q = shortfallMinor(s, basic, days)
  PROVE  /\ q \in Nat /\ owed \in Nat
         /\ 2 * u * q - 2 * basic * owed <= u /\ 2 * basic * owed - 2 * u * q <= u
         /\ ~isChargeable(s) => owed = 0
<1>0. FullRate = 100
  BY DEF FullRate
<1>1. PICK r \in 0..100, c \in Nat : r = s.rate /\ c = s.cents
  BY <1>0
<1>2. PICK d \in Nat : d = 100 - r
  BY <1>1
<1>3. owed = d * c
  BY <1>0, <1>1, <1>2
<1>4. d * c \in Nat
  OBVIOUS
<1>5. PICK o \in Nat : o = owed
  BY <1>3, <1>4
<1>6. PICK w \in Nat : w = basic * o
  <2>1. basic * o \in Nat
    OBVIOUS
  <2> QED BY <2>1
<1>7. u = 10000 * days /\ FullRate * 100 * days = u /\ u \in Nat \ {0}
  BY <1>0
<1>8. q = Rounded(w, u)
  <2>1. q = Rounded(basic * ((FullRate - s.rate) * s.cents), FullRate * 100 * days)
    BY DEF shortfallMinor, Scaled
  <2> QED BY <1>5, <1>6, <1>7, <2>1
<1>9. q \in Nat /\ 2 * (u * q) <= 2 * w + u /\ 2 * w + u < 2 * (u * q) + 2 * u
  <2>1. PICK v \in Nat \ {0} : v = u
    BY <1>7
  <2>2. q = Rounded(w, v)
    BY <1>8, <2>1
  <2>3. q \in Nat /\ 2 * (v * q) <= 2 * w + v /\ 2 * w + v < 2 * (v * q) + 2 * v
    BY <2>2, RoundedBounds, SMTT(40)
  <2> QED BY <2>1, <2>3
<1>10. PICK x \in Nat : x = u * q
  <2>1. u \in Nat /\ q \in Nat
    BY <1>7, <1>9
  <2>2. u * q \in Nat
    BY <2>1, Z3
  <2> QED BY <2>2
<1>11. 2 * u * q = 2 * x /\ 2 * basic * owed = 2 * w
  <2>1. u \in Nat /\ q \in Nat
    BY <1>7, <1>9
  <2>2. \A a, b \in Nat : 2 * a * b = 2 * (a * b)
    OBVIOUS
  <2>3. 2 * u * q = 2 * (u * q) /\ 2 * basic * o = 2 * (basic * o)
    BY <2>1, <2>2
  <2> QED BY <1>5, <1>6, <1>10, <2>3
<1>12. 2 * x - 2 * w <= u /\ 2 * w - 2 * x <= u
  BY <1>7, <1>9, <1>10
<1>13. ASSUME ~isChargeable(s) PROVE owed = 0
  <2>1. ~(r < 100 /\ c > 0)
    BY <1>0, <1>1, <1>13 DEF isChargeable
  <2>2. d = 0 \/ c = 0
    BY <1>1, <1>2, <2>1
  <2> QED BY <1>3, <2>2
<1> QED BY <1>5, <1>9, <1>11, <1>12, <1>13

LEMMA ChargedByLines ==
  ASSUME NEW types, NEW slices, IsLeave(slices, types), NEW basic \in Nat,
         NEW month, DaysOf(month) \in Nat \ {0}
  PROVE  /\ LeaveLines(slices, basic, DaysOf(month)) \in Nat
         /\ ChargedAsOwed(LeaveLines(slices, basic, DaysOf(month)), basic, UnpaidOf(slices), slices, month)
<1>1. PICK days, u, rows, D, K, C :
        /\ days = DaysOf(month) /\ u = 100 * FullRate * days
        /\ rows = leaveRows(slices) /\ D = 1..Len(rows) /\ K = shortfallsOf(slices)
        /\ C = {s \in K : isChargeable(s)}
  OBVIOUS
<1>2. days \in Nat \ {0} /\ u \in Nat
  BY <1>1 DEF FullRate
<1>3. rows \in Seq(LeaveRow(types)) /\ UnpaidOf(slices) = SumFunctionOnSet(Owed(rows), D)
  BY <1>1, RowsOwe
<1>4. K = {shortfallAt(rows, i) : i \in D}
  <2>1. DOMAIN rows = D
    BY <1>1, <1>3, SeqEntries
  <2> QED BY <1>1, <2>1 DEF shortfallsOf
<1>5. PICK h, q : /\ h = [v \in K |-> (FullRate - v.rate) * v.cents]
                  /\ q = [v \in K |-> shortfallMinor(v, basic, days)]
  OBVIOUS
<1>6. /\ \A v \in K : h[v] = (FullRate - v.rate) * v.cents
      /\ \A v \in K : q[v] = shortfallMinor(v, basic, days)
  BY <1>5
<1>7. /\ IsFiniteSet(K)
      /\ \A v \in K : v.rate \in 0..FullRate /\ v.cents \in Nat
      /\ SumFunctionOnSet(h, K) = UnpaidOf(slices)
  <2>1. /\ IsFiniteSet(K)
        /\ \A v \in K : v.rate \in 0..FullRate /\ v.cents \in Nat
        /\ SumFunctionOnSet(h, K) = SumFunctionOnSet(Owed(rows), D)
    <3>1. D = 1..Len(rows) /\ \A v \in K : h[v] = (FullRate - v.rate) * v.cents
      BY <1>1, <1>6
    <3>2. rows \in Seq(LeaveRow(types))
      BY <1>3
    <3> HIDE <1>3
    <3> QED BY <1>4, <3>1, <3>2, ShortfallsOwe, SMTT(60)
  <2> QED BY <1>3, <2>1
<1>8. \A v \in K : /\ q[v] \in Nat /\ h[v] \in Nat
                   /\ 2 * u * q[v] - 2 * basic * h[v] <= u /\ 2 * basic * h[v] - 2 * u * q[v] <= u
                   /\ ~isChargeable(v) => h[v] = 0
  <2> SUFFICES ASSUME NEW v \in K
               PROVE  /\ q[v] \in Nat /\ h[v] \in Nat
                      /\ 2 * u * q[v] - 2 * basic * h[v] <= u /\ 2 * basic * h[v] - 2 * u * q[v] <= u
                      /\ ~isChargeable(v) => h[v] = 0
    OBVIOUS
  <2>1. PICK o, p : o = h[v] /\ p = q[v]
    OBVIOUS
  <2>2. /\ v.rate \in 0..FullRate /\ v.cents \in Nat
        /\ o = (FullRate - v.rate) * v.cents /\ p = shortfallMinor(v, basic, days)
    BY <1>6, <1>7, <2>1
  <2>3. days \in Nat \ {0} /\ u = 100 * FullRate * days
    BY <1>1, <1>2
  <2>4. /\ p \in Nat /\ o \in Nat
        /\ 2 * u * p - 2 * basic * o <= u /\ 2 * basic * o - 2 * u * p <= u
        /\ ~isChargeable(v) => o = 0
    BY <2>2, <2>3, LineRounds, SMTT(60)
  <2> QED BY <2>1, <2>4
<1>9. C \in SUBSET K /\ IsFiniteSet(C) /\ IsFiniteSet(K \ C) /\ Cardinality(C) \in Nat
  <2>1. C \in SUBSET K
    BY <1>1
  <2> QED BY <1>7, <2>1, FS_Subset, FS_CardinalityType
<1>10. (\A v \in K \ C : h[v] = 0) /\ \A v \in K : h[v] \in Int
  BY <1>1, <1>8
<1> DEFINE owed == SumFunctionOnSet(h, C)
           charged == SumFunctionOnSet(q, C)
<1>11. SumFunctionOnSet(h, K) = owed /\ owed \in Int
  <2>1. SumFunctionOnSet(h, K) = SumFunctionOnSet(h, C) + SumFunctionOnSet(h, K \ C)
    BY <1>7, <1>9, <1>10, SumUnion
  <2>2. SumFunctionOnSet(h, K \ C) = 0
    BY <1>9, <1>10, SumZero
  <2>3. SumFunctionOnSet(h, C) \in Int
    <3>1. \A v \in C : h[v] \in Int
      BY <1>9, <1>10
    <3> QED BY <1>9, <3>1, SumType
  <2> QED BY <2>1, <2>2, <2>3
<1>12. LeaveLines(slices, basic, days) = charged /\ charged \in Nat
  <2>1. \A v \in C : q[v] \in Nat /\ q[v] \in Int /\ q[v] = shortfallMinor(v, basic, days)
    BY <1>6, <1>8, <1>9
  <2>2. LeaveLines(slices, basic, days) = SumFunctionOnSet(q, C)
    BY <1>1, <1>9, <2>1, LeaveLinesIsSum
  <2>3. SumFunctionOnSet(q, C) \in Nat
    BY <1>9, <2>1, SumNat
  <2> QED BY <2>2, <2>3
<1>13. /\ (2 * u) * charged - (2 * basic) * owed <= u * Cardinality(C)
       /\ (2 * basic) * owed - (2 * u) * charged <= u * Cardinality(C)
  <2>1. PICK a, b : a = [v \in C |-> (2 * u) * q[v]] /\ b = [v \in C |-> (2 * basic) * h[v]]
    OBVIOUS
  <2>2. PICK y, z \in Int : y = 2 * u /\ z = 2 * basic
    BY <1>2
  <2>3. ASSUME NEW v \in C
        PROVE  /\ a[v] = y * q[v] /\ b[v] = z * h[v] /\ q[v] \in Int /\ h[v] \in Int
               /\ a[v] \in Int /\ b[v] \in Int /\ a[v] - b[v] <= u /\ b[v] - a[v] <= u
    <3>1. v \in K
      BY <1>9
    <3>2. a[v] = 2 * u * q[v] /\ b[v] = 2 * basic * h[v]
      BY <2>1
    <3>3. q[v] \in Nat /\ h[v] \in Nat /\ 2 * u * q[v] - 2 * basic * h[v] <= u
          /\ 2 * basic * h[v] - 2 * u * q[v] <= u
      BY <1>8, <3>1
    <3>4. PICK m, n \in Nat : m = q[v] /\ n = h[v]
      BY <3>3
    <3>5. y * m \in Int /\ z * n \in Int
      OBVIOUS
    <3> QED BY <2>2, <3>2, <3>3, <3>4, <3>5
  <2>4. SumFunctionOnSet(a, C) = y * charged
    <3>1. \A v \in C : q[v] \in Int /\ a[v] = y * q[v]
      BY <2>3
    <3> QED BY <1>9, <2>2, <3>1, SumScaled, SMTT(40)
  <2>5. SumFunctionOnSet(b, C) = z * owed
    <3>1. \A v \in C : h[v] \in Int /\ b[v] = z * h[v]
      BY <2>3
    <3> QED BY <1>9, <2>2, <3>1, SumScaled, SMTT(40)
  <2>6. /\ SumFunctionOnSet(a, C) - SumFunctionOnSet(b, C) <= u * Cardinality(C)
        /\ SumFunctionOnSet(b, C) - SumFunctionOnSet(a, C) <= u * Cardinality(C)
    <3>1. \A v \in C : a[v] \in Int /\ b[v] \in Int /\ a[v] - b[v] <= u /\ b[v] - a[v] <= u
      BY <2>3
    <3>2. PICK c \in Int : c = u
      BY <1>2
    <3>3. \A v \in C : a[v] \in Int /\ b[v] \in Int /\ a[v] - b[v] <= c /\ b[v] - a[v] <= c
      BY <3>1, <3>2
    <3>4. /\ SumFunctionOnSet(a, C) - SumFunctionOnSet(b, C) <= c * Cardinality(C)
          /\ SumFunctionOnSet(b, C) - SumFunctionOnSet(a, C) <= c * Cardinality(C)
      <4>1. IsFiniteSet(C)
        BY <1>9
      <4>2. PICK a0, b0 : a0 = a /\ b0 = b
        OBVIOUS
      <4>3. \A v \in C : a0[v] \in Int /\ b0[v] \in Int /\ a0[v] - b0[v] <= c /\ b0[v] - a0[v] <= c
        BY <3>3, <4>2
      <4>4. /\ SumFunctionOnSet(a0, C) - SumFunctionOnSet(b0, C) <= c * Cardinality(C)
            /\ SumFunctionOnSet(b0, C) - SumFunctionOnSet(a0, C) <= c * Cardinality(C)
        BY <4>1, <4>3, SumClose, Zenon
      <4> QED BY <4>2, <4>4
    <3> QED BY <3>2, <3>4
  <2> QED BY <2>2, <2>4, <2>5, <2>6
<1> HIDE DEF owed, charged
<1>14. 2 * Abs(charged * u - basic * owed) <= u * Cardinality(C)
  <2>1. charged \in Int /\ owed \in Int /\ u \in Int
    BY <1>2, <1>11, <1>12
  <2>2. PICK x, y \in Int : x = u * charged /\ y = basic * owed
    <3>1. u * charged \in Int /\ basic * owed \in Int
      BY <2>1
    <3> QED BY <3>1
  <2>3. (2 * u) * charged = 2 * x /\ (2 * basic) * owed = 2 * y /\ charged * u = x
    <3>1. \A a, b \in Int : (2 * a) * b = 2 * (a * b) /\ a * b = b * a
      OBVIOUS
    <3> QED BY <2>1, <2>2, <3>1
  <2>4. u * Cardinality(C) \in Int
    BY <1>2, <1>9
  <2>5. PICK t \in Int : t = u * Cardinality(C)
    BY <2>4
  <2>6. 2 * x - 2 * y <= t /\ 2 * y - 2 * x <= t
    BY <1>13, <2>3, <2>5
  <2>7. 2 * Abs(x - y) <= t
    BY <2>6 DEF Abs
  <2> QED BY <2>2, <2>3, <2>5, <2>7
<1> QED BY <1>1, <1>7, <1>11, <1>12, <1>14 DEF ChargedAsOwed

\* One list of slices after another.
LEMMA UnpaidTogether ==
  ASSUME NEW types, NEW x, IsLeave(x, types), NEW y, IsLeave(y, types)
  PROVE  /\ IsLeave(x \o y, types)
         /\ UnpaidOf(x) \in Nat /\ UnpaidOf(y) \in Nat
         /\ UnpaidOf(x \o y) = UnpaidOf(x) + UnpaidOf(y)
<1>1. x \in Seq(LeaveSlice(types)) /\ y \in Seq(LeaveSlice(types))
  BY DEF IsLeave
<1>2. PICK w : w \in Seq(LeaveSlice(types)) /\ w = x \o y
  <2>1. PICK R : R = LeaveSlice(types)
    OBVIOUS
  <2>2. x \in Seq(R) /\ y \in Seq(R)
    BY <1>1, <2>1
  <2>3. x \o y \in Seq(R)
    BY <2>2
  <2> QED BY <2>1, <2>3
<1>3. PICK a, b \in Nat : a = Len(x) /\ b = Len(y)
  BY <1>1, SeqEntries
<1>4. /\ DOMAIN x = 1..a /\ DOMAIN y = 1..b /\ DOMAIN w = 1..(a + b)
      /\ \A i \in 1..a : w[i] = x[i] /\ x[i] \in LeaveSlice(types)
      /\ \A j \in 1..b : w[a + j] = y[j] /\ y[j] \in LeaveSlice(types)
      /\ \A k \in 1..(a + b) : w[k] \in LeaveSlice(types)
  <2>1. Len(w) = a + b
    BY <1>1, <1>2, <1>3
  <2>2. DOMAIN x = 1..a /\ DOMAIN y = 1..b /\ DOMAIN w = 1..(a + b)
    BY <1>1, <1>3, <2>1, SeqEntries
  <2>3. /\ \A i \in 1..a : x[i] \in LeaveSlice(types)
        /\ \A j \in 1..b : y[j] \in LeaveSlice(types)
        /\ \A k \in 1..(a + b) : w[k] \in LeaveSlice(types)
    BY <1>1, <1>2, <1>3, <2>1, SeqEntries
  <2>4. (\A i \in 1..a : w[i] = x[i]) /\ \A j \in 1..b : w[a + j] = y[j]
    BY <1>1, <1>2, <1>3
  <2> QED BY <2>2, <2>3, <2>4
<1>5. PICK f, g, h : /\ f = [i \in 1..a |-> UnpaidBy(x[i])] /\ g = [j \in 1..b |-> UnpaidBy(y[j])]
                     /\ h = [k \in 1..(a + b) |-> UnpaidBy(w[k])]
  OBVIOUS
<1>6. /\ \A i \in 1..a : f[i] \in Nat /\ f[i] = UnpaidBy(x[i])
      /\ \A j \in 1..b : g[j] \in Nat /\ g[j] = UnpaidBy(y[j])
      /\ \A k \in 1..(a + b) : h[k] \in Nat /\ h[k] = UnpaidBy(w[k])
  <2>1. \A s \in LeaveSlice(types) : UnpaidBy(s) \in Nat
    BY UnpaidByIsSum
  <2> QED BY <1>4, <1>5, <2>1
<1>7. UnpaidOf(x) = SumFunctionOnSet(f, 1..a) /\ UnpaidOf(x) \in Nat
  <2>1. UnpaidOf(x) = SumFunctionOnSet(f, 1..a)
    <3>1. DOMAIN x = 1..a /\ \A i \in 1..a : f[i] \in Int /\ f[i] = UnpaidBy(x[i])
      BY <1>4, <1>6
    <3> QED BY <3>1, UnpaidOfIsSum
  <2>2. IsFiniteSet(1..a) /\ \A i \in 1..a : f[i] \in Nat
    BY <1>6, FS_Interval
  <2> QED BY <2>1, <2>2, SumNat
<1>8. UnpaidOf(y) = SumFunctionOnSet(g, 1..b) /\ UnpaidOf(y) \in Nat
  <2>1. UnpaidOf(y) = SumFunctionOnSet(g, 1..b)
    <3>1. DOMAIN y = 1..b /\ \A i \in 1..b : g[i] \in Int /\ g[i] = UnpaidBy(y[i])
      BY <1>4, <1>6
    <3> QED BY <3>1, UnpaidOfIsSum
  <2>2. IsFiniteSet(1..b) /\ \A j \in 1..b : g[j] \in Nat
    BY <1>6, FS_Interval
  <2> QED BY <2>1, <2>2, SumNat
<1>9. UnpaidOf(w) = SumFunctionOnSet(h, 1..(a + b))
  <2>1. PICK c \in Nat : c = a + b
    OBVIOUS
  <2>2. DOMAIN w = 1..c /\ \A k \in 1..c : h[k] \in Int /\ h[k] = UnpaidBy(w[k])
    BY <1>4, <1>6, <2>1
  <2> QED BY <2>1, <2>2, UnpaidOfIsSum
<1>10. SumFunctionOnSet(h, 1..(a + b)) = SumFunctionOnSet(f, 1..a) + SumFunctionOnSet(g, 1..b)
  <2>1. \A i \in 1..a : h[i] \in Int /\ f[i] = h[i]
    <3> SUFFICES ASSUME NEW i \in 1..a PROVE h[i] \in Int /\ f[i] = h[i]
      OBVIOUS
    <3>1. i \in 1..(a + b)
      OBVIOUS
    <3> QED BY <1>4, <1>6, <3>1
  <2>2. \A j \in 1..b : h[a + j] \in Int /\ g[j] = h[a + j]
    <3> SUFFICES ASSUME NEW j \in 1..b PROVE h[a + j] \in Int /\ g[j] = h[a + j]
      OBVIOUS
    <3>1. a + j \in 1..(a + b)
      OBVIOUS
    <3> QED BY <1>4, <1>6, <3>1
  <2>3. PICK F, G, H : F = f /\ G = g /\ H = h
    OBVIOUS
  <2>4. EndToEnd(H, a, F, b, G)
    BY <2>1, <2>2, <2>3 DEF EndToEnd
  <2>5. SumFunctionOnSet(H, 1..(a + b)) = SumFunctionOnSet(F, 1..a) + SumFunctionOnSet(G, 1..b)
    BY <2>4, SumConcat
  <2> QED BY <2>3, <2>5
<1>11. IsLeave(x \o y, types)
  BY <1>2 DEF IsLeave
<1> QED BY <1>2, <1>7, <1>8, <1>9, <1>10, <1>11

\* No slice, or one.
LEMMA UnpaidOfFew ==
  ASSUME NEW types
  PROVE  /\ IsLeave(<<>>, types) /\ UnpaidOf(<<>>) = 0
         /\ \A s \in LeaveSlice(types) : IsLeave(<<s>>, types) /\ UnpaidOf(<<s>>) = UnpaidBy(s)
<1>1. IsLeave(<<>>, types)
  BY DEF IsLeave
<1>2. UnpaidOf(<<>>) = 0
  <2>1. PICK f : f = <<>>
    OBVIOUS
  <2>2. DOMAIN f = 1..0 /\ 1..0 = {}
    BY <2>1
  <2>3. \A i \in 1..0 : f[i] \in Int /\ f[i] = UnpaidBy(f[i])
    OBVIOUS
  <2>4. UnpaidOf(f) = SumFunctionOnSet(f, 1..0)
    BY <2>2, <2>3, UnpaidOfIsSum
  <2> QED BY <2>1, <2>2, <2>4, SumEmpty
<1>3. ASSUME NEW s \in LeaveSlice(types)
      PROVE  IsLeave(<<s>>, types) /\ UnpaidOf(<<s>>) = UnpaidBy(s)
  <2>1. IsLeave(<<s>>, types)
    BY DEF IsLeave
  <2>2. PICK f : f = [i \in 1..1 |-> UnpaidBy(s)]
    OBVIOUS
  <2>3. UnpaidBy(s) \in Nat
    BY UnpaidByIsSum
  <2>4. PICK x : x = <<s>>
    OBVIOUS
  <2>5. 1..1 = {1} /\ f[1] = UnpaidBy(s) /\ DOMAIN x = 1..1 /\ x[1] = s
    BY <2>2, <2>4
  <2>6. \A i \in 1..1 : f[i] \in Int /\ f[i] = UnpaidBy(x[i])
    BY <2>3, <2>5
  <2>7. UnpaidOf(x) = SumFunctionOnSet(f, 1..1)
    BY <2>5, <2>6, UnpaidOfIsSum
  <2>8. SumFunctionOnSet(f, {1}) = f[1]
    <3>1. f[1] \in Int
      BY <2>3, <2>5
    <3> QED BY <3>1, SumOfSingleton, Zenon
  <2> QED BY <2>1, <2>4, <2>5, <2>7, <2>8
<1> QED BY <1>1, <1>2, <1>3

\* What a rate leaves unpaid.
Unpaid == [r \in Int |-> FullRate - r]

LEMMA UnpaidIsWeighted ==
  ASSUME NEW types, NEW s \in LeaveSlice(types)
  PROVE  /\ Unpaid \in Weights /\ s.tiers \in Seq(Part)
         /\ UnpaidBy(s) = Weighted(s.tiers, Unpaid)
<1>1. Unpaid \in Weights /\ \A r \in Int : Unpaid[r] = FullRate - r
  BY DEF Unpaid, Weights, FullRate
<1>2. LeavePart \subseteq Part
  BY DEF LeavePart, Part, FullRate
<1>3. s.tiers \in Seq(Part)
  <2>1. s.tiers \in Seq(LeavePart)
    BY DEF LeaveSlice
  <2> QED BY <1>2, <2>1
<1>4. PICK rows, parts : rows = tierRows(s) /\ parts = s.tiers
  OBVIOUS
<1>5. PICK n \in Nat : n = Len(parts) /\ n = Len(rows) /\ DOMAIN parts = 1..n
  <2>1. <<>> \in Seq(LeaveRow(types))
    OBVIOUS
  <2> QED BY <1>4, <2>1, RowsAdded
<1>6. PICK f, g : f = Owed(rows) /\ g = Weighing(parts, Unpaid)
  OBVIOUS
<1>7. \A i \in 1..n : g[i] \in Int /\ f[i] = g[i]
  <2> SUFFICES ASSUME NEW i \in 1..n PROVE g[i] \in Int /\ f[i] = g[i]
    OBVIOUS
  <2>1. <<>> \in Seq(LeaveRow(types))
    OBVIOUS
  <2>2. /\ rows \in Seq(LeaveRow(types))
        /\ rows[i].rate = parts[i].rate /\ rows[i].cents = parts[i].cents
    BY <1>4, <1>5, <2>1, RowsAdded
  <2>3. f[i] = rows[i].cents * (FullRate - rows[i].rate)
    BY <1>5, <1>6, <2>2, OwedType
  <2>4. g[i] \in Int /\ g[i] = parts[i].cents * Unpaid[parts[i].rate] /\ parts[i].rate \in Int
    BY <1>1, <1>3, <1>4, <1>5, <1>6, WeighingType
  <2> QED BY <1>1, <2>2, <2>3, <2>4
<1>8. SumFunctionOnSet(f, 1..n) = SumFunctionOnSet(g, 1..n)
  <2>1. IsFiniteSet(1..n)
    BY FS_Interval
  <2> QED BY <1>7, <2>1, SumSame
<1>9. UnpaidBy(s) = SumFunctionOnSet(f, 1..n)
  BY <1>4, <1>5, <1>6, UnpaidByIsSum
<1>10. Weighted(s.tiers, Unpaid) = SumFunctionOnSet(g, 1..n)
  BY <1>4, <1>5, <1>6 DEF Weighted
<1> QED BY <1>1, <1>3, <1>8, <1>9, <1>10

\* The half days of p+1..q that lie after A and up to B.
Between(p, q, A, B) == {n \in (p + 1)..q : A < n /\ n <= B}

LEMMA HalvesBetween ==
  ASSUME NEW p \in Nat, NEW q \in Nat, p <= q, NEW A \in Nat, NEW B \in Nat, A <= B
  PROVE  Cardinality(Between(p, q, A, B)) = (Lesser(q, B) - Lesser(p, B)) - (Lesser(q, A) - Lesser(p, A))
<1> DEFINE S == Between(p, q, A, B)
<1>1. PICK lo \in Nat : lo = (IF p < A THEN A ELSE p) + 1
  OBVIOUS
<1>2. PICK hi \in Nat : hi = Lesser(q, B)
  BY DEF Lesser
<1>3. S = lo..hi
  <2>1. ASSUME NEW n PROVE n \in S <=> n \in lo..hi
    BY <1>1, <1>2 DEF Lesser, Between
  <2> QED BY <2>1
<1> HIDE DEF S
<1>4. Cardinality(lo..hi) = IF lo > hi THEN 0 ELSE hi - lo + 1
  BY FS_Interval
<1>5. (IF lo > hi THEN 0 ELSE hi - lo + 1)
        = (Lesser(q, B) - Lesser(p, B)) - (Lesser(q, A) - Lesser(p, A))
  BY <1>1, <1>2 DEF Lesser
<1> QED BY <1>3, <1>4, <1>5 DEF S

\* The half days of an entry of whole days that lie in a month.
LEMMA CoversHalf ==
  ASSUME NEW entry, IsSpan(entry), entry.from <= entry.to, NEW month, IsSpan(month),
         NEW a, a = Before(entry, month.from), NEW b, b = Before(entry, month.to + 1),
         NEW n \in 1..(2 * DaysOf(entry))
  PROVE  Covers(month, entry.from + ((n - 1) \div 2)) <=> (2 * a < n /\ n <= 2 * b)
<1>1. PICK f, t, u, v \in Int : f = entry.from /\ t = entry.to /\ u = month.from /\ v = month.to
  BY DEF IsSpan
<1>2. DaysOf(entry) = t - f + 1 /\ f <= t
  BY <1>1 DEF DaysOf
<1>3. PICK d \in Int : d = (n - 1) \div 2 /\ 2 * d <= n - 1 /\ n - 1 <= 2 * d + 1
  OBVIOUS
<1>4. 0 <= d /\ d <= t - f /\ n \in Int
  BY <1>2, <1>3
<1>5. /\ a = IF u <= f THEN 0 ELSE IF u > t THEN t - f + 1 ELSE u - f
      /\ b = IF v + 1 <= f THEN 0 ELSE IF v + 1 > t THEN t - f + 1 ELSE v + 1 - f
  BY <1>1, <1>2 DEF Before
<1>6. a \in Int /\ b \in Int
  BY <1>5
<1>7. u <= f + d <=> a <= d
  BY <1>2, <1>4, <1>5
<1>8. f + d <= v <=> d < b
  BY <1>2, <1>4, <1>5
<1>9. (a <= d <=> 2 * a < n) /\ (d < b <=> n <= 2 * b)
  BY <1>3, <1>4, <1>6
<1>10. Covers(month, entry.from + ((n - 1) \div 2)) <=> (u <= f + d /\ f + d <= v)
  BY <1>1, <1>3 DEF Covers
<1> QED BY <1>7, <1>8, <1>9, <1>10

\* The ends of the tiers, in half days.
Cumulated(entry) == [k \in 0..Len(entry.tiers) |-> SumFunctionOnSet(Halves(entry.tiers), 1..k)]

LEMMA HalvesUpToIsSum ==
  ASSUME NEW entry, IsEntry(entry), NEW k \in 0..Len(entry.tiers)
  PROVE  HalvesUpTo(entry, k) = Cumulated(entry)[k]
<1> DEFINE f == Halves(entry.tiers)
           K == 1..k
           folded(h) == [S \in SUBSET K |-> IF S = {} THEN 0
                  ELSE entry.tiers[CHOOSE x \in S : TRUE].halves + h[S \ {CHOOSE x \in S : TRUE}]]
           iter == CHOOSE h : h = folded(h)
<1>1. HalvesUpTo(entry, k) = iter[K]
  BY DEF HalvesUpTo, MapThenSumSet, MapThenFoldSet
<1>2. IsFiniteSet(K) /\ \A i \in K : f[i] \in Int /\ f[i] = entry.tiers[i].halves
  <2>1. Len(entry.tiers) \in Nat /\ DOMAIN entry.tiers = 1..Len(entry.tiers)
        /\ \A i \in 1..Len(entry.tiers) : entry.tiers[i].halves \in Nat
    BY EntryGrains
  <2>2. \A i \in 1..Len(entry.tiers) : f[i] = entry.tiers[i].halves
    BY <2>1 DEF Halves
  <2>3. IsFiniteSet(K) /\ K \subseteq 1..Len(entry.tiers)
    BY <2>1, FS_Interval
  <2> HIDE DEF f, K
  <2> QED BY <2>1, <2>2, <2>3
<1>9. Cumulated(entry)[k] = SumFunctionOnSet(f, K)
  BY DEF Cumulated
<1> HIDE DEF K, f
<1>3. ASSUME NEW h PROVE AddsUp(h, f, K) <=> h = folded(h)
  <2>1. \A S \in SUBSET K : S # {} => f[CHOOSE x \in S : TRUE] = entry.tiers[CHOOSE x \in S : TRUE].halves
    BY <1>2
  <2> QED BY <2>1 DEF AddsUp
<1> HIDE DEF folded
<1>5. PICK g : AddsUp(g, f, K)
  BY <1>2, SumUnfolds
<1>6. iter = folded(iter)
  <2>1. g = folded(g)
    BY <1>3, <1>5
  <2> QED BY <2>1
<1>7. AddsUp(iter, f, K)
  BY <1>3, <1>6
<1> HIDE DEF iter
<1>8. iter[K] = SumFunctionOnSet(f, K)
  BY <1>2, <1>7, SumUnfolds
<1> QED BY <1>1, <1>8, <1>9

\* What the tiers of an entry leave unpaid in a month.
LEMMA UnpaidInMonthIsSum ==
  ASSUME NEW entry, NEW month, NEW n \in Nat, DOMAIN entry.tiers = 1..n, NEW f,
         \A i \in 1..n : f[i] \in Int /\ f[i] = UnpaidOfTier(entry, i, month)
  PROVE  UnpaidInMonth(entry, month) = SumFunctionOnSet(f, 1..n)
<1> DEFINE K == DOMAIN entry.tiers
           folded(h) == [S \in SUBSET K |-> IF S = {} THEN 0
                  ELSE UnpaidOfTier(entry, CHOOSE x \in S : TRUE, month) + h[S \ {CHOOSE x \in S : TRUE}]]
           iter == CHOOSE h : h = folded(h)
<1>1. UnpaidInMonth(entry, month) = iter[K]
  BY DEF UnpaidInMonth, MapThenSumSet, MapThenFoldSet
<1>2. K = 1..n /\ IsFiniteSet(K) /\ \A i \in K : f[i] \in Int /\ f[i] = UnpaidOfTier(entry, i, month)
  BY FS_Interval
<1> HIDE DEF K
<1>3. ASSUME NEW h PROVE AddsUp(h, f, K) <=> h = folded(h)
  <2>1. \A S \in SUBSET K : S # {} => f[CHOOSE x \in S : TRUE]
          = UnpaidOfTier(entry, CHOOSE x \in S : TRUE, month)
    <3> SUFFICES ASSUME NEW S \in SUBSET K, S # {}
                 PROVE f[CHOOSE x \in S : TRUE]
                         = UnpaidOfTier(entry, CHOOSE x \in S : TRUE, month)
      OBVIOUS
    <3>1. PICK y \in K : y = CHOOSE x \in S : TRUE
      OBVIOUS
    <3> QED BY <1>2, <3>1
  <2> DEFINE summed == [S \in SUBSET K |-> IF S = {} THEN 0
                  ELSE f[CHOOSE x \in S : TRUE] + h[S \ {CHOOSE x \in S : TRUE}]]
  <2>2. summed = folded(h)
    BY <2>1
  <2>3. AddsUp(h, f, K) <=> h = summed
    BY DEF AddsUp
  <2> HIDE DEF summed, folded
  <2> QED BY <2>2, <2>3
<1> HIDE DEF folded
<1>5. PICK g : AddsUp(g, f, K)
  BY <1>2, SumUnfolds
<1>6. iter = folded(iter)
  <2>1. g = folded(g)
    BY <1>3, <1>5
  <2> QED BY <2>1
<1>7. AddsUp(iter, f, K)
  BY <1>3, <1>6
<1> HIDE DEF iter
<1>8. iter[K] = SumFunctionOnSet(f, K)
  BY <1>2, <1>7, SumUnfolds
<1> QED BY <1>1, <1>2, <1>8

LEMMA CumulatedGrows ==
  ASSUME NEW entry, IsEntry(entry), NEW n, n = Len(entry.tiers), NEW c, c = Cumulated(entry)
  PROVE  /\ n \in Nat
         /\ \A k \in 0..n : /\ c[k] \in Nat /\ c[k] <= entry.halves
                            /\ Ends(entry.tiers, DaysOf(entry))[k] = 50 * DaysOf(entry) * c[k]
         /\ \A k \in 1..n : c[k - 1] <= c[k]
<1>1. PICK f : f = Halves(entry.tiers)
  OBVIOUS
<1>2. n \in Nat /\ \A i \in 1..n : f[i] \in Nat
  <2>1. n \in Nat /\ DOMAIN entry.tiers = 1..n /\ \A i \in 1..n : entry.tiers[i].halves \in Nat
    BY EntryGrains
  <2> QED BY <1>1, <2>1 DEF Halves
<1>3. \A k \in 0..n : c[k] = SumFunctionOnSet(f, 1..k)
  BY <1>1, <1>2 DEF Cumulated
<1>4. \A k \in 0..n : c[k] \in Nat
  <2> SUFFICES ASSUME NEW k \in 0..n PROVE c[k] \in Nat
    OBVIOUS
  <2>1. k \in Int /\ 1 \in Int /\ 1..k \subseteq 1..n
    BY <1>2
  <2>2. IsFiniteSet(1..k)
    BY <2>1, FS_Interval
  <2>3. \A i \in 1..k : f[i] \in Nat
    BY <1>2, <2>1
  <2> QED BY <1>3, <2>2, <2>3, SumNat
<1>5. \A k \in 1..n : c[k - 1] <= c[k]
  <2> SUFFICES ASSUME NEW k \in 1..n PROVE c[k - 1] <= c[k]
    OBVIOUS
  <2>1. k \in 0..n /\ k - 1 \in 0..n
    BY <1>2
  <2>2. \A i \in 1..n : f[i] \in Int
    BY <1>2
  <2>3. SumFunctionOnSet(f, 1..k) = f[k] + SumFunctionOnSet(f, 1..(k - 1))
    BY <1>2, <2>2, SumUpTo
  <2>4. c[k] = f[k] + c[k - 1] /\ c[k] \in Nat /\ c[k - 1] \in Nat /\ f[k] \in Nat
    BY <1>2, <1>3, <1>4, <2>1, <2>3
  <2> QED BY <2>4
<1>6. \A i, j \in 0..n : i <= j => c[i] <= c[j]
  <2>1. \A k \in 0..n : c[k] \in Int
    BY <1>4
  <2> QED BY <1>2, <1>5, <2>1, EndsInOrder
<1>7. c[n] = entry.halves
  <2>1. n \in 0..n
    BY <1>2
  <2> QED BY <1>1, <1>3, <2>1 DEF IsEntry
<1>8. \A k \in 0..n : c[k] <= entry.halves
  <2>1. n \in 0..n /\ \A k \in 0..n : k <= n
    BY <1>2
  <2> QED BY <1>6, <1>7, <2>1
<1>9. \A k \in 0..n : Ends(entry.tiers, DaysOf(entry))[k] = 50 * DaysOf(entry) * c[k]
  BY <1>1, <1>3 DEF Ends
<1> QED BY <1>2, <1>4, <1>5, <1>8, <1>9

\* An entry that counts every calendar day whole.
IsWhole(entry) == IsEntry(entry) /\ entry.halves = 2 * DaysOf(entry)

\* What a tier of such an entry has between two of its days.
LEMMA TierReach ==
  ASSUME NEW entry, IsWhole(entry), NEW i \in 1..Len(entry.tiers), NEW x \in Nat
  PROVE  Reach(entry, i, x)
           = (50 * DaysOf(entry)) * (Lesser(Cumulated(entry)[i], 2 * x) - Lesser(Cumulated(entry)[i - 1], 2 * x))
<1>0. PICK g, c : /\ g = DaysOf(entry) /\ c = Cumulated(entry)
                  /\ IsEntry(entry) /\ entry.halves = 2 * g
  BY DEF IsWhole
<1>1. g \in Nat \ {0} /\ Len(entry.tiers) \in Nat
  BY <1>0, EntryGrains
<1>2. i \in 0..Len(entry.tiers) /\ i - 1 \in 0..Len(entry.tiers)
  BY <1>1
<1>3. PICK h \in Nat \ {0} : h = 50 * g
  BY <1>1
<1>4. PICK p, q \in Nat : p = c[i - 1] /\ q = c[i]
  BY <1>0, <1>2, CumulatedGrows
<1>5. Ends(entry.tiers, g)[i] = h * q /\ Ends(entry.tiers, g)[i - 1] = h * p
  <2>1. \A k \in 0..Len(entry.tiers) : Ends(entry.tiers, DaysOf(entry))[k] = 50 * DaysOf(entry) * c[k]
    BY <1>0, CumulatedGrows
  <2>2. PICK e : e = Ends(entry.tiers, g)
    OBVIOUS
  <2>3. \A k \in 0..Len(entry.tiers) : e[k] = h * c[k]
    BY <1>0, <1>3, <2>1, <2>2
  <2>4. e[i] = h * q /\ e[i - 1] = h * p
    BY <1>2, <1>4, <2>3
  <2> QED BY <2>2, <2>4
<1>6. PerDay(entry) * x = h * (2 * x)
  <2>1. PerDay(entry) = 2 * h
    BY <1>0, <1>1, <1>3 DEF PerDay
  <2>2. \A u, v \in Int : (2 * u) * v = u * (2 * v)
    OBVIOUS
  <2> QED BY <2>1, <2>2
<1>7. PICK y \in Nat : y = 2 * x
  OBVIOUS
<1>8. Reach(entry, i, x) = Lesser(h * q, h * y) - Lesser(h * p, h * y)
  BY <1>0, <1>5, <1>6, <1>7 DEF Reach
<1>9. Lesser(h * q, h * y) = h * Lesser(q, y) /\ Lesser(h * p, h * y) = h * Lesser(p, y)
  <2>1. p \in Int /\ q \in Int /\ y \in Int
    OBVIOUS
  <2>2. Lesser(h * q, h * y) = h * Lesser(q, y)
    BY <2>1, LesserScaled, Zenon
  <2>3. Lesser(h * p, h * y) = h * Lesser(p, y)
    BY <2>1, LesserScaled, Zenon
  <2> QED BY <2>2, <2>3
<1>10. Lesser(q, y) \in Int /\ Lesser(p, y) \in Int
  BY DEF Lesser
<1>11. h * Lesser(q, y) - h * Lesser(p, y) = h * (Lesser(q, y) - Lesser(p, y))
  <2>1. \A u, v \in Int : h * u - h * v = h * (u - v)
    OBVIOUS
  <2> QED BY <1>10, <2>1
<1> QED BY <1>0, <1>3, <1>4, <1>7, <1>8, <1>9, <1>11

LEMMA TierInMonth ==
  ASSUME NEW entry, IsWhole(entry), NEW g, g = DaysOf(entry),
         NEW month, IsSpan(month), month.from <= month.to,
         NEW a, a = Before(entry, month.from), NEW b, b = Before(entry, month.to + 1),
         NEW i \in 1..Len(entry.tiers), NEW x, x = Cardinality(HalfDaysIn(entry, i, month))
  PROVE  /\ x \in Int
         /\ Reach(entry, i, b) - Reach(entry, i, a) = g * (50 * x)
<1>0. IsEntry(entry) /\ entry.halves = 2 * g
  BY DEF IsWhole
<1>1. PICK c : c = Cumulated(entry)
  OBVIOUS
<1>2. /\ g \in Nat \ {0} /\ Len(entry.tiers) \in Nat
      /\ a \in Nat /\ b \in Nat /\ a <= b
  <2>1. g \in Nat \ {0} /\ Len(entry.tiers) \in Nat
    BY <1>0, EntryGrains
  <2>2. a \in Nat /\ b \in Nat /\ a <= b
    BY <1>0, WindowCut DEF IsEntry
  <2> QED BY <2>1, <2>2
<1>3. i \in 0..Len(entry.tiers) /\ i - 1 \in 0..Len(entry.tiers)
  BY <1>2
<1>4. PICK p, q \in Nat : p = c[i - 1] /\ q = c[i] /\ p <= q /\ q <= 2 * g
  <2>1. /\ \A k \in 0..Len(entry.tiers) : c[k] \in Nat /\ c[k] <= entry.halves
        /\ \A k \in 1..Len(entry.tiers) : c[k - 1] <= c[k]
    BY <1>0, <1>1, CumulatedGrows
  <2> QED BY <1>0, <1>3, <2>1
<1>5. HalfDays(entry, i) = (p + 1)..q
  BY <1>0, <1>1, <1>3, <1>4, HalvesUpToIsSum DEF HalfDays
<1>6. PICK A, B \in Nat : A = 2 * a /\ B = 2 * b /\ A <= B
  BY <1>2
<1>7. HalfDaysIn(entry, i, month) = Between(p, q, A, B)
  <2>1. \A n \in (p + 1)..q : n \in 1..(2 * DaysOf(entry))
    BY <1>2, <1>4
  <2>2. \A n \in (p + 1)..q :
          Covers(month, entry.from + ((n - 1) \div 2)) <=> (A < n /\ n <= B)
    <3>1. IsSpan(entry) /\ entry.from <= entry.to
      BY <1>0 DEF IsEntry
    <3> QED BY <1>6, <2>1, <3>1, CoversHalf
  <2> QED BY <1>5, <2>2 DEF HalfDaysIn, Between
<1>8. x = (Lesser(q, B) - Lesser(p, B)) - (Lesser(q, A) - Lesser(p, A))
  BY <1>4, <1>6, <1>7, HalvesBetween
<1>9. PICK y, z \in Int : y = Lesser(q, B) - Lesser(p, B) /\ z = Lesser(q, A) - Lesser(p, A)
  <2>1. \A u, v \in Nat : Lesser(u, v) \in Nat
    BY DEF Lesser
  <2>2. Lesser(q, B) \in Nat /\ Lesser(p, B) \in Nat /\ Lesser(q, A) \in Nat /\ Lesser(p, A) \in Nat
    BY <2>1
  <2>3. Lesser(q, B) - Lesser(p, B) \in Int /\ Lesser(q, A) - Lesser(p, A) \in Int
    BY <2>2
  <2> QED BY <2>3
<1>10. Reach(entry, i, b) = (50 * g) * y /\ Reach(entry, i, a) = (50 * g) * z
  <2>1. \A t \in Nat : Reach(entry, i, t) = (50 * g) * (Lesser(c[i], 2 * t) - Lesser(c[i - 1], 2 * t))
    BY <1>1, TierReach
  <2>2. /\ Reach(entry, i, b) = (50 * g) * (Lesser(q, B) - Lesser(p, B))
        /\ Reach(entry, i, a) = (50 * g) * (Lesser(q, A) - Lesser(p, A))
    BY <1>2, <1>4, <1>6, <2>1
  <2> QED BY <1>9, <2>2
<1>11. (50 * g) * y - (50 * g) * z = g * (50 * (y - z))
  <2>1. \A u, v, w \in Int : (50 * u) * v - (50 * u) * w = u * (50 * (v - w))
    OBVIOUS
  <2> QED BY <1>2, <2>1
<1> QED BY <1>8, <1>9, <1>10, <1>11

\* The rates of the tiers are percentages.
RatesPaid(entry) == \A i \in 1..Len(entry.tiers) : entry.tiers[i].rate \in 0..FullRate

\* The parts of such an entry in a month are parts of leave.
LEMMA PartsOfLeave ==
  ASSUME NEW entry, RatesPaid(entry), NEW a, NEW b, NEW s, IsPiece(s, entry, a, b)
  PROVE  s.tiers \in Seq(LeavePart)
<1>1. PICK parts : parts = s.tiers /\ parts \in Seq(Part)
  BY DEF IsPiece
<1>2. PICK l \in Nat : l = Len(parts) /\ DOMAIN parts = 1..l /\ \A j \in 1..l : parts[j] \in Part
  BY <1>1, SeqEntries
<1>3. PICK at \in [1..l -> 1..Len(entry.tiers)] : \A j \in 1..l : parts[j].rate = entry.tiers[at[j]].rate
  BY <1>1, <1>2 DEF IsPiece
<1>4. \A j \in 1..l : parts[j] \in LeavePart
  <2> SUFFICES ASSUME NEW j \in 1..l PROVE parts[j] \in LeavePart
    OBVIOUS
  <2>1. parts[j].rate \in 0..FullRate
    <3>1. at[j] \in 1..Len(entry.tiers)
      OBVIOUS
    <3> QED BY <1>3, <3>1 DEF RatesPaid
  <2>2. PICK p : p = parts[j] /\ p \in Part
    BY <1>2
  <2> QED BY <2>1, <2>2 DEF Part, LeavePart
<1>5. PICK f \in [1..l -> LeavePart] : f = parts
  <2>1. parts = [j \in 1..l |-> parts[j]]
    BY <1>1, <1>2
  <2>2. parts \in [1..l -> LeavePart]
    BY <1>4, <2>1
  <2> QED BY <2>2
<1>6. f \in Seq(LeavePart)
  BY SeqMade
<1> QED BY <1>1, <1>5, <1>6

\* What a tier leaves unpaid is what the days kept of it do.
LEMMA TierUnpaid ==
  ASSUME NEW entry, IsWhole(entry), RatesPaid(entry),
         NEW month, IsSpan(month), month.from <= month.to,
         NEW a, a = Before(entry, month.from), NEW b, b = Before(entry, month.to + 1),
         NEW i \in 1..Len(entry.tiers)
  PROVE  /\ UnpaidOfTier(entry, i, month) \in Int
         /\ a = b => UnpaidOfTier(entry, i, month) = 0
         /\ \A k \in Nat : Near(DaysOf(entry) * k, Reach(entry, i, b) - Reach(entry, i, a), 0) =>
              k * Unpaid[entry.tiers[i].rate] = UnpaidOfTier(entry, i, month)
<1>1. PICK x, r, g, A, B : /\ x = Cardinality(HalfDaysIn(entry, i, month)) /\ r = entry.tiers[i].rate
                           /\ g = DaysOf(entry) /\ A = Reach(entry, i, a) /\ B = Reach(entry, i, b)
  OBVIOUS
<1>2. x \in Int /\ B - A = g * (50 * x)
  BY <1>1, TierInMonth
<1>3. g \in Nat \ {0}
  BY <1>1, EntryGrains DEF IsWhole
<1>4. PICK d \in Int : d = FullRate - r /\ Unpaid[r] = d
  <2>1. r \in 0..100 /\ FullRate = 100
    BY <1>1 DEF RatesPaid, FullRate
  <2>2. r \in Int /\ FullRate - r \in Int
    BY <2>1
  <2> QED BY <2>2 DEF Unpaid
<1>5. PICK u \in Int : u = UnpaidOfTier(entry, i, month) /\ u = 50 * d * x
  <2>1. UnpaidOfTier(entry, i, month) = 50 * d * x
    BY <1>1, <1>4 DEF UnpaidOfTier
  <2>2. 50 * d * x \in Int
    BY <1>2
  <2> QED BY <2>1, <2>2
<1>6. ASSUME NEW k \in Nat, Near(g * k, B - A, 0) PROVE k * d = u
  <2>1. PICK y \in Int : y = 50 * x
    BY <1>2
  <2>2. PICK p, q \in Int : p = g * k /\ q = g * y
    <3>1. g * k \in Int /\ g * y \in Int
      BY <1>3
    <3> QED BY <3>1
  <2>3. p = q
    <3>1. p - q <= 0 /\ q - p <= 0
      BY <1>2, <1>6, <2>1, <2>2 DEF Near
    <3> QED BY <3>1
  <2>4. k = y
    <3>1. \A m \in Nat \ {0}, v, w \in Int : m * v = m * w => v = w
      OBVIOUS
    <3> QED BY <1>3, <2>2, <2>3, <3>1
  <2>5. \A v, w \in Int : (50 * v) * w = 50 * w * v
    OBVIOUS
  <2> QED BY <1>2, <1>5, <2>1, <2>4, <2>5
<1>7. ASSUME a = b PROVE u = 0
  <2>1. A = B
    BY <1>1, <1>7
  <2>2. A \in Int
    <3>1. a \in Nat
      BY WindowCut DEF IsWhole, IsEntry
    <3> QED BY <1>1, <3>1, ReachWhole DEF IsWhole
  <2>3. B - A = 0
    BY <2>1, <2>2
  <2>4. Near(g * 0, B - A, 0)
    <3>1. g * 0 = 0
      BY <1>3
    <3> QED BY <2>3, <3>1 DEF Near
  <2>5. 0 * d = u
    BY <1>6, <2>4
  <2> QED BY <2>5
<1> QED BY <1>1, <1>4, <1>5, <1>6, <1>7

\* The slice of an entry in a month leaves unpaid what its days there do.
LEMMA LeaveOfMonth ==
  ASSUME NEW entry, IsWhole(entry), RatesPaid(entry), NEW type,
         NEW month, IsSpan(month), month.from <= month.to
  PROVE  /\ IsLeave(LeaveOf(type, entry, month), {type})
         /\ UnpaidOf(LeaveOf(type, entry, month)) = UnpaidInMonth(entry, month)
<1>1. PICK a, b, n : a = Before(entry, month.from) /\ b = Before(entry, month.to + 1) /\ n = Len(entry.tiers)
  OBVIOUS
<1>2. /\ a <= b /\ a \in Nat /\ b \in Nat
      /\ a = b => sliceForPeriod(entry, month) = <<>>
      /\ a < b => /\ sliceForPeriod(entry, month) = <<sliceForPeriod(entry, month)[1]>>
                  /\ IsPiece(sliceForPeriod(entry, month)[1], entry, a, b)
  <2>1. IsEntry(entry)
    BY DEF IsWhole
  <2> QED BY <1>1, <2>1, SliceIsPiece
<1>3. n \in Nat /\ DOMAIN entry.tiers = 1..n
  BY <1>1, EntryGrains DEF IsWhole
<1>4. PICK f : f = [i \in 1..n |-> UnpaidOfTier(entry, i, month)]
  OBVIOUS
<1>5. \A i \in 1..n :
        /\ f[i] \in Int /\ f[i] = UnpaidOfTier(entry, i, month) /\ (a = b => f[i] = 0)
        /\ \A k \in Nat : Near(DaysOf(entry) * k, Reach(entry, i, b) - Reach(entry, i, a), 0) =>
             k * Unpaid[entry.tiers[i].rate] = f[i]
  <2> SUFFICES ASSUME NEW i \in 1..n
               PROVE  /\ f[i] \in Int /\ f[i] = UnpaidOfTier(entry, i, month) /\ (a = b => f[i] = 0)
                      /\ \A k \in Nat : Near(DaysOf(entry) * k, Reach(entry, i, b) - Reach(entry, i, a), 0) =>
                           k * Unpaid[entry.tiers[i].rate] = f[i]
    OBVIOUS
  <2>1. f[i] = UnpaidOfTier(entry, i, month)
    BY <1>4
  <2>2. i \in 1..Len(entry.tiers)
    BY <1>1
  <2>3. /\ UnpaidOfTier(entry, i, month) \in Int
        /\ a = b => UnpaidOfTier(entry, i, month) = 0
        /\ \A k \in Nat : Near(DaysOf(entry) * k, Reach(entry, i, b) - Reach(entry, i, a), 0) =>
              k * Unpaid[entry.tiers[i].rate] = UnpaidOfTier(entry, i, month)
    BY <1>1, <2>2, TierUnpaid
  <2> QED BY <2>1, <2>3
<1>6. UnpaidInMonth(entry, month) = SumFunctionOnSet(f, 1..n)
  <2>1. \A i \in 1..n : f[i] \in Int /\ f[i] = UnpaidOfTier(entry, i, month)
    BY <1>5
  <2> QED BY <1>3, <2>1, UnpaidInMonthIsSum
<1>7. CASE a = b
  <2>1. LeaveOf(type, entry, month) = <<>>
    <3>1. DOMAIN sliceForPeriod(entry, month) = {}
      BY <1>2, <1>7
    <3> QED BY <3>1 DEF LeaveOf
  <2>2. SumFunctionOnSet(f, 1..n) = 0
    <3>1. IsFiniteSet(1..n) /\ \A i \in 1..n : f[i] = 0
      BY <1>3, <1>5, <1>7, FS_Interval
    <3> QED BY <3>1, SumZero
  <2> QED BY <1>6, <2>1, <2>2, UnpaidOfFew
<1>8. CASE a < b
  <2>1. PICK s : /\ s = sliceForPeriod(entry, month)[1] /\ sliceForPeriod(entry, month) = <<s>>
                 /\ IsPiece(s, entry, a, b)
    BY <1>2, <1>8
  <2>2. PICK t : t = [type |-> type, tiers |-> s.tiers]
    OBVIOUS
  <2>3. t \in LeaveSlice({type}) /\ t.tiers = s.tiers
    <3>1. s.tiers \in Seq(LeavePart)
      BY <2>1, PartsOfLeave
    <3>2. PICK R, parts : R = Seq(LeavePart) /\ parts = s.tiers /\ parts \in R
      BY <3>1
    <3>3. t \in [type : {type}, tiers : R] /\ t.tiers = parts
      BY <2>2, <3>2
    <3> QED BY <3>2, <3>3 DEF LeaveSlice
  <2>4. LeaveOf(type, entry, month) = <<t>>
    <3>1. PICK z : z = sliceForPeriod(entry, month) /\ z = <<s>>
      BY <2>1
    <3>2. DOMAIN z = {1} /\ z[1].tiers = s.tiers
      BY <3>1
    <3>3. LeaveOf(type, entry, month) = [i \in {1} |-> t]
      BY <2>2, <3>1, <3>2 DEF LeaveOf
    <3>4. <<t>> = [i \in {1} |-> t]
      OBVIOUS
    <3> QED BY <3>3, <3>4
  <2>5. UnpaidBy(t) = Weighted(s.tiers, Unpaid) /\ Unpaid \in Weights
    BY <2>3, UnpaidIsWeighted
  <2>6. PICK kept \in [1..n -> Nat] :
          /\ \A i \in 1..n : Near(DaysOf(entry) * kept[i], Reach(entry, i, b) - Reach(entry, i, a),
                                  Slack(entry) * DaysOf(entry))
          /\ \A w \in Weights :
               Weighted(s.tiers, w) = SumFunctionOnSet([i \in 1..n |-> kept[i] * w[entry.tiers[i].rate]], 1..n)
    BY <1>1, <2>1 DEF IsPiece
  <2>7. PICK h : /\ h = [i \in 1..n |-> kept[i] * Unpaid[entry.tiers[i].rate]]
                 /\ Weighted(s.tiers, Unpaid) = SumFunctionOnSet(h, 1..n)
    BY <2>5, <2>6
  <2>8. Slack(entry) * DaysOf(entry) = 0
    <3>1. Slack(entry) = 0 /\ DaysOf(entry) \in Nat
      BY EntryGrains DEF IsWhole, Slack
    <3> QED BY <3>1
  <2>9. \A i \in 1..n : f[i] \in Int /\ h[i] = f[i]
    <3> SUFFICES ASSUME NEW i \in 1..n PROVE f[i] \in Int /\ h[i] = f[i]
      OBVIOUS
    <3>1. h[i] = kept[i] * Unpaid[entry.tiers[i].rate]
      BY <2>7
    <3>2. Near(DaysOf(entry) * kept[i], Reach(entry, i, b) - Reach(entry, i, a), 0) /\ kept[i] \in Nat
      BY <2>6, <2>8
    <3> QED BY <1>5, <3>1, <3>2
  <2>10. SumFunctionOnSet(f, 1..n) = SumFunctionOnSet(h, 1..n)
    <3>1. IsFiniteSet(1..n)
      BY <1>3, FS_Interval
    <3> QED BY <2>9, <3>1, SumSame
  <2>11. IsLeave(<<t>>, {type}) /\ UnpaidOf(<<t>>) = UnpaidBy(t)
    BY <2>3, UnpaidOfFew
  <2> QED BY <1>6, <2>4, <2>5, <2>7, <2>10, <2>11
<1> QED BY <1>2, <1>7, <1>8

\* Of a month without assignments, decisions and loans the leave is deducted.
LEMMA OnlyLeave ==
  ASSUME NEW types, NEW slices, IsLeave(slices, types), NEW window, DaysOf(window) \in Nat \ {0},
         NEW spans, NEW m, m = Month(window, spans, <<>>, <<slices>>)
  PROVE  computeCompensation(m)[1].deductions = LeaveLines(slices, Basic, DaysOf(window))
<1>1. /\ m.window = window /\ m.basic = <<Basic>> /\ m.leave = <<slices>>
      /\ m.assignments = <<>> /\ m.adjustments = <<>> /\ m.loans = <<>>
  BY DEF Month
<1>2. DOMAIN m.assignments = {} /\ DOMAIN m.adjustments = {} /\ DOMAIN m.loans = {}
  BY <1>1
<1>3. InForce(m) = {}
  BY <1>2 DEF InForce
<1>4. ~Refused(m)
  <2>1. Currencies(m) = {}
    BY <1>2 DEF Currencies
  <2>2. m.basic # <<>>
    <3>1. PICK z : z = m.basic /\ z = <<Basic>>
      BY <1>1
    <3>2. DOMAIN z = {1} /\ DOMAIN <<>> = {}
      BY <3>1
    <3> QED BY <3>1, <3>2
  <2> QED BY <1>3, <2>1, <2>2 DEF Refused
<1>5. computeCompensation(m)[1].deductions
        = AssignedTotal(m, "deduction") + LeaveTotal(m) + DecidedTotal(m, "deduction") + LoanTotal(m)
  BY <1>4 DEF computeCompensation
<1>6. AssignedTotal(m, "deduction") = 0
  <2>1. Assignments(m, "deduction") = {}
    BY <1>3 DEF Assignments
  <2>2. AssignedTotal(m, "deduction") = SumFunctionOnSet(AssignedPrice(m), {})
    BY <2>1, AssignedIsSum, FS_EmptySet
  <2> QED BY <2>2, SumEmpty
<1>7. DecidedTotal(m, "deduction") = 0
  <2>1. Decisions(m, "deduction") = {}
    BY <1>2 DEF Decisions
  <2>2. DecidedTotal(m, "deduction") = SumFunctionOnSet(Decided(m), {})
    BY <2>1, DecidedIsSum, FS_EmptySet
  <2> QED BY <2>2, SumEmpty
<1>8. LoanTotal(m) = 0
  <2>1. LoanTotal(m) = SumFunctionOnSet(Owing(m), {})
    BY <1>2, LoanIsSum, FS_EmptySet
  <2> QED BY <2>1, SumEmpty
<1>9. PICK cost \in Nat : cost = LeaveLines(slices, Basic, DaysOf(window))
  <2>1. Basic \in Nat
    BY DEF Basic
  <2> QED BY <2>1, ChargedByLines
<1>10. LeaveTotal(m) = cost
  <2>1. DOMAIN m.leave = {1} /\ m.leave[1] = slices /\ m.basic[1] = Basic
    BY <1>1
  <2>2. LeaveTotal(m) = sumMinorUnits([i \in {1} |-> cost])
    BY <1>1, <1>9, <2>1 DEF LeaveTotal
  <2>3. [i \in {1} |-> cost] = <<cost>>
    OBVIOUS
  <2> QED BY <2>2, <2>3, SumOfOne
<1> QED BY <1>5, <1>6, <1>7, <1>8, <1>9, <1>10

\* The entries and the other leave of the samples.
LEMMA SampleLeave ==
  ASSUME NEW span \in Spans(LastDay), NEW entry \in Consumptions(span, 2 * DaysOf(span))
  PROVE  IsWhole(entry) /\ RatesPaid(entry)
<1>1. DaysOf(span) \in Nat \ {0}
  BY DEF Spans, DaysOf, LastDay
<1>2. PICK d \in Nat \ {0} : d = DaysOf(span)
  BY <1>1
<1>3. 2 * d \in 1..(2 * d)
  OBVIOUS
<1>4. IsEntry(entry) /\ \A i \in DOMAIN entry.tiers : entry.tiers[i].rate \in Rates
  BY <1>2, <1>3, SampleEntries
<1>5. entry.halves = 2 * DaysOf(entry)
  <2>1. PICK t : entry = [from |-> span.from, to |-> span.to, halves |-> 2 * DaysOf(span), tiers |-> t]
    BY DEF Consumptions
  <2>2. entry.from = span.from /\ entry.to = span.to /\ entry.halves = 2 * DaysOf(span)
    BY <2>1
  <2>3. DaysOf(entry) = DaysOf(span)
    BY <2>2 DEF DaysOf
  <2> QED BY <2>2, <2>3
<1>6. RatesPaid(entry)
  <2>1. DOMAIN entry.tiers = 1..Len(entry.tiers)
    BY <1>4, EntryGrains
  <2>2. \A r \in Rates : r \in 0..FullRate
    BY DEF Rates, FullRate
  <2> QED BY <1>4, <2>1, <2>2 DEF RatesPaid
<1> QED BY <1>4, <1>5, <1>6 DEF IsWhole

LEMMA OtherLeave ==
  ASSUME NEW other \in {0, 1},
         NEW more, more = [i \in 1..other |-> [type |-> "annual", tiers |-> <<[cents |-> 100, rate |-> 0]>>]]
  PROVE  IsLeave(more, {"annual"})
<1>1. PICK part : part = [cents |-> 100, rate |-> 0] /\ part \in LeavePart
  <2>1. [cents |-> 100, rate |-> 0] \in [cents : Nat, rate : 0..100]
    OBVIOUS
  <2> QED BY <2>1 DEF LeavePart, FullRate
<1>2. PICK R, tiers : R = Seq(LeavePart) /\ tiers = <<part>> /\ tiers \in R
  <2>1. <<part>> \in Seq(LeavePart)
    BY <1>1
  <2> QED BY <2>1
<1>3. PICK s : s = [type |-> "annual", tiers |-> tiers] /\ s \in [type : {"annual"}, tiers : R]
  <2>1. tiers \in R
    BY <1>2
  <2>2. [type |-> "annual", tiers |-> tiers] \in [type : {"annual"}, tiers : R]
    BY <2>1
  <2> QED BY <2>2
<1>4. s \in LeaveSlice({"annual"})
  BY <1>2, <1>3 DEF LeaveSlice
<1>5. more = [i \in 1..other |-> s] /\ other \in Nat
  BY <1>1, <1>2, <1>3
<1>6. more \in [1..other -> LeaveSlice({"annual"})]
  BY <1>4, <1>5
<1> QED BY <1>5, <1>6, SeqMade DEF IsLeave

LEMMA LeaveWiden ==
  ASSUME NEW types, NEW type \in types, NEW x, IsLeave(x, {type})
  PROVE  IsLeave(x, types)
<1>1. LeaveSlice({type}) \subseteq LeaveSlice(types)
  BY DEF LeaveSlice
<1>2. PICK A, B : A = LeaveSlice({type}) /\ B = LeaveSlice(types) /\ A \subseteq B
  BY <1>1
<1>3. x \in Seq(A)
  BY <1>2 DEF IsLeave
<1>4. PICK n \in Nat : n = Len(x) /\ DOMAIN x = 1..n /\ \A k \in 1..n : x[k] \in A
  BY <1>3, SeqEntries
<1>5. x = [k \in 1..n |-> x[k]]
  BY <1>3, <1>4
<1>6. x \in [1..n -> B]
  <2>1. \A k \in 1..n : x[k] \in B
    BY <1>2, <1>4
  <2> QED BY <1>5, <2>1
<1>7. x \in Seq(B)
  BY <1>6, SeqMade
<1> QED BY <1>2, <1>7 DEF IsLeave

LEMMA LeaveAndMore ==
  ASSUME NEW types, NEW entry, NEW type \in types, NEW month, NEW more,
         IsWhole(entry), RatesPaid(entry), IsLeave(more, types),
         IsSpan(month), month.from <= month.to
  PROVE  /\ IsLeave(LeaveOf(type, entry, month) \o more, types)
         /\ UnpaidOf(LeaveOf(type, entry, month) \o more) = UnpaidInMonth(entry, month) + UnpaidOf(more)
<1>1. PICK x : /\ x = LeaveOf(type, entry, month) /\ IsLeave(x, {type})
               /\ UnpaidOf(x) = UnpaidInMonth(entry, month)
  BY LeaveOfMonth
<1>2. IsLeave(x, types)
  BY <1>1, LeaveWiden
<1>3. IsLeave(x \o more, types) /\ UnpaidOf(x \o more) = UnpaidOf(x) + UnpaidOf(more)
  BY <1>2, UnpaidTogether
<1> QED BY <1>1, <1>3

\* shortfallsOf and shortfallMinor, with sliceForPeriod before them: the lines
\* charge what the leave pinned to a month leaves unpaid of the salary, to
\* half a minor unit a line, however the slices repeat their types and rates;
\* the slice of an entry of whole days leaves unpaid what its days in that
\* month do, each at the rate of its own tier, whatever else is pinned; and so
\* it is in a run's sample.
THEOREM LeaveIsCharged ==
  /\ \A types, slices, month : \A basic \in Nat :
       IsLeave(slices, types) /\ DaysOf(month) \in Nat \ {0} =>
         ChargedAsOwed(LeaveLines(slices, basic, DaysOf(month)), basic, UnpaidOf(slices), slices, month)
  /\ \A types, entry, type, month, more :
       /\ IsWhole(entry) /\ RatesPaid(entry) /\ IsLeave(more, types) /\ type \in types
       /\ IsSpan(month) /\ month.from <= month.to
       => /\ IsLeave(LeaveOf(type, entry, month) \o more, types)
          /\ UnpaidOf(LeaveOf(type, entry, month) \o more) = UnpaidInMonth(entry, month) + UnpaidOf(more)
  /\ Spec => []LeaveChargedOnce
<1>1. ASSUME NEW types, NEW slices, NEW month, NEW basic \in Nat,
             IsLeave(slices, types), DaysOf(month) \in Nat \ {0}
      PROVE  ChargedAsOwed(LeaveLines(slices, basic, DaysOf(month)), basic, UnpaidOf(slices), slices, month)
  BY <1>1, ChargedByLines
<1>2. ASSUME NEW types, NEW entry, NEW type \in types, NEW month, NEW more,
             IsWhole(entry), RatesPaid(entry), IsLeave(more, types),
             IsSpan(month), month.from <= month.to
      PROVE  /\ IsLeave(LeaveOf(type, entry, month) \o more, types)
             /\ UnpaidOf(LeaveOf(type, entry, month) \o more) = UnpaidInMonth(entry, month) + UnpaidOf(more)
  BY <1>2, LeaveAndMore
<1>3. ChargedByTheDay
  <2> SUFFICES ASSUME NEW span \in Spans(LastDay), NEW other \in {0, 1},
                      NEW entry \in Consumptions(span, 2 * DaysOf(span)), NEW m \in DOMAIN Months
               PROVE  LET more == [i \in 1..other |->
                                     [type |-> "annual", tiers |-> <<[cents |-> 100, rate |-> 0]>>]]
                          slices == LeaveOf("annual", entry, Months[m]) \o more
                      IN  ChargedAsOwed(
                            computeCompensation(
                              Month(Months[m], <<[from |-> 1, to |-> Forever]>>, <<>>, <<slices>>))[1].deductions,
                            Basic, UnpaidInMonth(entry, Months[m]) + UnpaidOf(more), slices, Months[m])
    BY DEF ChargedByTheDay
  <2>1. PICK month : /\ month = Months[m] /\ IsSpan(month) /\ month.from <= month.to
                     /\ DaysOf(month) \in Nat \ {0}
    BY DEF Months, IsSpan, DaysOf
  <2>2. PICK more : /\ more = [i \in 1..other |->
                                 [type |-> "annual", tiers |-> <<[cents |-> 100, rate |-> 0]>>]]
                    /\ IsLeave(more, {"annual"})
    BY OtherLeave
  <2>3. PICK slices, unpaid : /\ slices = LeaveOf("annual", entry, month) \o more
                              /\ unpaid = UnpaidInMonth(entry, month) + UnpaidOf(more)
    OBVIOUS
  <2>4. IsLeave(slices, {"annual"}) /\ UnpaidOf(slices) = unpaid
    <3>1. "annual" \in {"annual"}
      OBVIOUS
    <3>2. IsWhole(entry) /\ RatesPaid(entry)
      BY SampleLeave
    <3>3. /\ IsLeave(LeaveOf("annual", entry, month) \o more, {"annual"})
          /\ UnpaidOf(LeaveOf("annual", entry, month) \o more) = UnpaidInMonth(entry, month) + UnpaidOf(more)
      BY <2>1, <2>2, <3>1, <3>2, LeaveAndMore
    <3> QED BY <2>3, <3>3
  <2>5. PICK spans, pay : /\ spans = <<[from |-> 1, to |-> Forever]>>
                          /\ pay = computeCompensation(Month(month, spans, <<>>, <<slices>>))[1].deductions
    OBVIOUS
  <2>6. pay = LeaveLines(slices, Basic, DaysOf(month))
    <3>1. PICK filled : filled = Month(month, spans, <<>>, <<slices>>)
      OBVIOUS
    <3>2. computeCompensation(filled)[1].deductions = LeaveLines(slices, Basic, DaysOf(month))
      BY <2>1, <2>4, <3>1, OnlyLeave
    <3> QED BY <2>5, <3>1, <3>2
  <2>7. ChargedAsOwed(pay, Basic, unpaid, slices, month)
    <3>1. Basic \in Nat
      BY DEF Basic
    <3>2. ChargedAsOwed(LeaveLines(slices, Basic, DaysOf(month)), Basic, UnpaidOf(slices), slices, month)
      BY <1>1, <2>1, <2>4, <3>1
    <3> QED BY <2>4, <2>6, <3>2
  <2> QED BY <2>1, <2>2, <2>3, <2>5, <2>7
<1>4. LeaveChargedOnce
  BY <1>3 DEF LeaveChargedOnce
<1>5. \A types, slices, month : \A basic \in Nat :
       IsLeave(slices, types) /\ DaysOf(month) \in Nat \ {0} =>
         ChargedAsOwed(LeaveLines(slices, basic, DaysOf(month)), basic, UnpaidOf(slices), slices, month)
  BY <1>1
<1>6. \A types, entry, type, month, more :
       /\ IsWhole(entry) /\ RatesPaid(entry) /\ IsLeave(more, types) /\ type \in types
       /\ IsSpan(month) /\ month.from <= month.to
       => /\ IsLeave(LeaveOf(type, entry, month) \o more, types)
          /\ UnpaidOf(LeaveOf(type, entry, month) \o more) = UnpaidInMonth(entry, month) + UnpaidOf(more)
  BY <1>2
<1> QED BY <1>4, <1>5, <1>6, PTL
=============================================================================
