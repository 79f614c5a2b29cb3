---------------------------- MODULE AuditLogProofs ----------------------------
(***************************************************************************)
(* The audit log lists the latest rows, for every number of rows, every    *)
(* clock, every cut of the second and every query. The argument: comparing *)
(* two texts written as those of the rows are compares the times they      *)
(* stand for, and comparing any other text with one of a row compares      *)
(* their seconds first.                                                    *)
(***************************************************************************)
EXTENDS AuditLog, FiniteSetTheorems, TLAPS

\* The text of a row is that of its time.
RowsDated == \A i \in DOMAIN rows : rows[i].at = Isoformat(rows[i].time)

\* As long as the clock was not set back, the rows are in the order of their times.
RowsInOrder ==
  ~back => /\ \A i \in DOMAIN rows : rows[i].time <= now
           /\ \A i, j \in DOMAIN rows : i <= j => rows[i].time <= rows[j].time

LogInv == TypeOK /\ RowsDated /\ RowsInOrder

-----------------------------------------------------------------------------
(* Texts and times *)

LEMMA Multiples ==
  ASSUME NEW a \in Nat, NEW b \in Nat, a < b
  PROVE  a * Ticks + Ticks <= b * Ticks
<1>1. PICK k \in Nat : b = a + 1 + k
  <2>1. b - a - 1 \in Nat /\ b = a + 1 + (b - a - 1)
    OBVIOUS
  <2> QED
    BY <2>1
<1>2. Ticks \in Nat
  BY DataAssumption
<1>3. k * Ticks >= 0
  BY <1>2
<1>4. b * Ticks = a * Ticks + Ticks + k * Ticks
  BY <1>1, <1>2
<1> QED
  BY <1>2, <1>3, <1>4

\* A text is a second and a part of it.
LEMMA TextParts ==
  ASSUME NEW x \in Texts
  PROVE  /\ x[1] \in Nat
         /\ \/ x[2] = "+" /\ TimeOf(x) = x[1] * Ticks
            \/ /\ x[2] = "." /\ x[3] \in 1..(Ticks - 1) /\ x[4] = "+"
               /\ TimeOf(x) = x[1] * Ticks + x[3]
<1>1. CASE x \in Nat \X {"+"}
  <2>1. x[1] \in Nat /\ x[2] = "+"
    BY <1>1
  <2>2. TimeOf(x) = x[1] * Ticks
    BY <2>1, DataAssumption DEF TimeOf
  <2> QED
    BY <2>1, <2>2
<1>2. CASE x \in Nat \X {"."} \X (1..(Ticks - 1)) \X {"+"}
  <2>1. x[1] \in Nat /\ x[2] = "." /\ x[3] \in 1..(Ticks - 1) /\ x[4] = "+"
    BY <1>2
  <2> QED
    BY <2>1 DEF TimeOf
<1> QED
  BY <1>1, <1>2 DEF Texts

\* A fraction comes after the zone.
LEMMA Ranks == Rank["+"] = 1 /\ Rank["."] = 3
BY DEF Rank, Marks

\* Texts are in the order of the times they stand for.
LEMMA TextOrder ==
  ASSUME NEW x \in Texts, NEW y \in Texts
  PROVE  TextBefore(x, y) <=> TimeOf(x) < TimeOf(y)
<1>1. Ticks \in Nat /\ Ticks > 0
  BY DataAssumption
<1> DEFINE part(z) == TimeOf(z) - z[1] * Ticks
<1>2. /\ x[1] \in Nat /\ y[1] \in Nat
      /\ x[1] * Ticks \in Nat /\ y[1] * Ticks \in Nat
      /\ TimeOf(x) \in Nat /\ TimeOf(y) \in Nat
      /\ x[1] * Ticks <= TimeOf(x) /\ TimeOf(x) < x[1] * Ticks + Ticks
      /\ y[1] * Ticks <= TimeOf(y) /\ TimeOf(y) < y[1] * Ticks + Ticks
  BY <1>1, TextParts
<1>3. CASE x[1] < y[1]
  <2>1. x[1] * Ticks + Ticks <= y[1] * Ticks
    BY <1>2, <1>3, Multiples
  <2>2. TimeOf(x) < TimeOf(y)
    BY <1>1, <1>2, <2>1
  <2> QED
    BY <1>3, <2>2 DEF TextBefore
<1>4. CASE y[1] < x[1]
  <2>1. y[1] * Ticks + Ticks <= x[1] * Ticks
    BY <1>2, <1>4, Multiples
  <2>2. ~(TimeOf(x) < TimeOf(y))
    BY <1>1, <1>2, <2>1
  <2>3. ~TextBefore(x, y)
    BY <1>2, <1>4 DEF TextBefore
  <2> QED
    BY <2>2, <2>3
<1>5. CASE x[1] = y[1]
  <2>1. TextBefore(x, y) <=>
          \/ Rank[x[2]] < Rank[y[2]]
          \/ /\ x[2] = "." /\ y[2] = "."
             /\ x[3] < y[3] \/ (x[3] = y[3] /\ Rank[x[4]] < Rank[y[4]])
    BY <1>2, <1>5 DEF TextBefore
  <2>2. CASE x[2] = "+" /\ y[2] = "+"
    BY <1>2, <1>5, <2>1, <2>2, TextParts, Ranks
  <2>3. CASE x[2] = "+" /\ y[2] = "."
    BY <1>2, <1>5, <2>1, <2>3, TextParts, Ranks
  <2>4. CASE x[2] = "." /\ y[2] = "+"
    BY <1>2, <1>5, <2>1, <2>4, TextParts, Ranks
  <2>5. CASE x[2] = "." /\ y[2] = "."
    BY <1>2, <1>5, <2>1, <2>5, TextParts, Ranks
  <2> QED
    BY <2>2, <2>3, <2>4, <2>5, TextParts
<1> QED
  BY <1>2, <1>3, <1>4, <1>5

\* isoformat writes a text that stands for its time.
LEMMA IsoformatFacts ==
  ASSUME NEW t \in Nat
  PROVE  Isoformat(t) \in Texts /\ TimeOf(Isoformat(t)) = t
<1>1. Ticks \in Nat /\ Ticks > 0
  BY DataAssumption
<1>2. /\ t \div Ticks \in Nat /\ t % Ticks \in 0..(Ticks - 1)
      /\ t = (t \div Ticks) * Ticks + (t % Ticks)
  BY <1>1
<1>3. CASE t % Ticks = 0
  <2>1. Isoformat(t) = <<t \div Ticks, "+">>
    BY <1>3 DEF Isoformat
  <2>2. Isoformat(t) \in Texts
    BY <1>2, <2>1 DEF Texts
  <2> QED
    BY <1>1, <1>2, <1>3, <2>1, <2>2 DEF TimeOf
<1>4. CASE t % Ticks # 0
  <2>1. Isoformat(t) = <<t \div Ticks, ".", t % Ticks, "+">>
    BY <1>4 DEF Isoformat
  <2>2. Isoformat(t) \in Texts
    BY <1>2, <1>4, <2>1 DEF Texts
  <2> QED
    BY <1>1, <1>2, <2>1, <2>2 DEF TimeOf
<1> QED
  BY <1>3, <1>4

-----------------------------------------------------------------------------
(* The rows *)

LEMMA InitLog == Init => LogInv
<1> SUFFICES ASSUME Init PROVE LogInv
  OBVIOUS
<1>1. rows = <<>> /\ DOMAIN rows = {} /\ Len(rows) = 0
  BY DEF Init
<1>2. TypeOK
  <2>1. rows \in Seq([at : Texts, time : 0..MaxTime, type : Types, result : Results])
    BY <1>1
  <2>2. Len(rows) <= MaxRows
    BY <1>1, DataAssumption
  <2> QED
    BY <2>1, <2>2 DEF Init, TypeOK
<1> QED
  BY <1>1, <1>2 DEF LogInv, RowsDated, RowsInOrder

\* What the rows hold.
LEMMA RowTypes ==
  ASSUME TypeOK, NEW i \in DOMAIN rows
  PROVE  rows[i].at \in Texts /\ rows[i].time \in Nat
<1> DEFINE Row == [at : Texts, time : 0..MaxTime, type : Types, result : Results]
<1>1. rows \in Seq(Row)
  BY DEF TypeOK
<1> HIDE DEF Row
<1>2. rows[i] \in Row
  BY <1>1
<1>3. rows[i].at \in Texts /\ rows[i].time \in 0..MaxTime
  BY <1>2 DEF Row
<1> QED
  BY <1>3, DataAssumption

\* What record adds.
LEMMA RecordFacts ==
  ASSUME TypeOK, NEW type \in Types, NEW result \in Results, Record(type, result)
  PROVE  /\ now' = now /\ back' = back
         /\ rows' \in Seq([at : Texts, time : 0..MaxTime, type : Types, result : Results])
         /\ Len(rows') = Len(rows) + 1 /\ Len(rows') <= MaxRows
         /\ rows'[Len(rows) + 1].time = now
         /\ rows'[Len(rows) + 1].at = Isoformat(now)
         /\ \A i \in DOMAIN rows : rows'[i] = rows[i]
         /\ DOMAIN rows = 1..Len(rows) /\ DOMAIN rows' = 1..(Len(rows) + 1)
         /\ Len(rows) \in Nat
<1> DEFINE Row == [at : Texts, time : 0..MaxTime, type : Types, result : Results]
           row == [at |-> Isoformat(now), time |-> now, type |-> type, result |-> result]
<1>1. rows \in Seq(Row) /\ now \in 0..MaxTime
  BY DEF TypeOK
<1>2. now \in Nat
  BY <1>1, DataAssumption
<1>3. row \in Row /\ row.time = now /\ row.at = Isoformat(now)
  BY <1>1, <1>2, IsoformatFacts
<1>4. rows' = Append(rows, row) /\ Len(rows) < MaxRows /\ now' = now /\ back' = back
  BY DEF Record
<1> HIDE DEF Row, row
<1>5. /\ Len(rows) \in Nat /\ DOMAIN rows = 1..Len(rows)
      /\ rows' \in Seq(Row) /\ Len(rows') = Len(rows) + 1
      /\ DOMAIN rows' = 1..(Len(rows) + 1)
      /\ rows'[Len(rows) + 1] = row
      /\ \A i \in 1..Len(rows) : rows'[i] = rows[i]
  BY <1>1, <1>3, <1>4
<1>6. Len(rows') <= MaxRows
  BY <1>4, <1>5, DataAssumption
<1> QED
  BY <1>3, <1>4, <1>5, <1>6 DEF Row

LEMMA RecordStep ==
  ASSUME LogInv, NEW type \in Types, NEW result \in Results, Record(type, result)
  PROVE  LogInv'
<1>1. TypeOK /\ RowsDated /\ RowsInOrder
  BY DEF LogInv
<1>2. TypeOK'
  BY <1>1, RecordFacts DEF TypeOK
<1>3. RowsDated'
  <2>1. ASSUME NEW i \in DOMAIN rows' PROVE rows'[i].at = Isoformat(rows'[i].time)
    <3>1. CASE i \in DOMAIN rows
      BY <1>1, <3>1, RecordFacts DEF RowsDated
    <3>2. CASE i = Len(rows) + 1
      BY <1>1, <3>2, RecordFacts
    <3> QED
      BY <1>1, <3>1, <3>2, RecordFacts
  <2> QED
    BY <2>1 DEF RowsDated
<1>4. RowsInOrder'
  <2> SUFFICES ASSUME ~back'
               PROVE  /\ \A i \in DOMAIN rows' : rows'[i].time <= now'
                      /\ \A i, j \in DOMAIN rows' : i <= j => rows'[i].time <= rows'[j].time
    BY DEF RowsInOrder
  <2>1. ~back
    BY <1>1, RecordFacts
  <2>2. now <= now
    BY <1>1, DataAssumption DEF TypeOK
  <2>3. ASSUME NEW i \in DOMAIN rows' PROVE rows'[i].time <= now'
    <3>1. CASE i \in DOMAIN rows
      BY <1>1, <2>1, <3>1, RecordFacts DEF RowsInOrder
    <3>2. CASE i = Len(rows) + 1
      BY <1>1, <2>2, <3>2, RecordFacts
    <3> QED
      BY <1>1, <3>1, <3>2, RecordFacts
  <2>4. ASSUME NEW i \in DOMAIN rows', NEW j \in DOMAIN rows', i <= j
        PROVE  rows'[i].time <= rows'[j].time
    <3>1. CASE j \in DOMAIN rows
      <4>1. i \in DOMAIN rows
        BY <1>1, <2>4, <3>1, RecordFacts
      <4> QED
        BY <1>1, <2>1, <2>4, <3>1, <4>1, RecordFacts DEF RowsInOrder
    <3>2. CASE j = Len(rows) + 1
      BY <1>1, <2>3, <3>2, RecordFacts
    <3> QED
      BY <1>1, <3>1, <3>2, RecordFacts
  <2> QED
    BY <2>3, <2>4
<1> QED
  BY <1>2, <1>3, <1>4 DEF LogInv

LEMMA LogInductive == LogInv /\ [Next]_vars => LogInv'
<1> SUFFICES ASSUME LogInv, [Next]_vars PROVE LogInv'
  OBVIOUS
<1>1. CASE \E t \in Types, r \in Results : Record(t, r)
  BY <1>1, RecordStep
<1>2. CASE Tick
  <2>1. /\ rows' = rows /\ back' = back /\ now' = now + 1 /\ now' \in 0..MaxTime
        /\ now \in Nat
    BY <1>2, DataAssumption DEF Tick, LogInv, TypeOK
  <2>2. TypeOK' /\ RowsDated'
    BY <2>1 DEF LogInv, TypeOK, RowsDated
  <2>3. RowsInOrder'
    <3>1. ASSUME NEW i \in DOMAIN rows, rows[i].time <= now PROVE rows[i].time <= now + 1
      <4>1. rows[i].time \in Nat
        BY RowTypes DEF LogInv
      <4> QED
        BY <2>1, <3>1, <4>1
    <3> QED
      BY <2>1, <3>1 DEF LogInv, RowsInOrder
  <2> QED
    BY <2>2, <2>3 DEF LogInv
<1>3. CASE SetBack
  <2>1. rows' = rows /\ back' = TRUE /\ now' \in 0..MaxTime
    BY <1>3, DataAssumption DEF SetBack, LogInv, TypeOK
  <2> QED
    BY <2>1 DEF LogInv, TypeOK, RowsDated, RowsInOrder
<1>4. CASE UNCHANGED vars
  BY <1>4 DEF vars, LogInv, TypeOK, RowsDated, RowsInOrder
<1> QED
  BY <1>1, <1>2, <1>3, <1>4 DEF Next

LEMMA LogAlways == Spec => []LogInv
BY InitLog, LogInductive, PTL DEF Spec

-----------------------------------------------------------------------------
(* The lists *)

LEMMA RowFacts ==
  ASSUME LogInv, NEW i \in DOMAIN rows
  PROVE  /\ rows[i].at \in Texts /\ rows[i].time \in Nat
         /\ TimeOf(rows[i].at) = rows[i].time
<1>1. rows[i].at \in Texts /\ rows[i].time \in Nat
  BY RowTypes DEF LogInv
<1> QED
  BY <1>1, IsoformatFacts DEF LogInv, RowsDated

\* The order of the rows is that of their times.
LEMMA DescendingTimes ==
  ASSUME LogInv, NEW i \in DOMAIN rows, NEW j \in DOMAIN rows
  PROVE  Descending(i, j) <=> rows[j].time <= rows[i].time
BY RowFacts, TextOrder DEF Descending

\* The text of a row begins with its second.
LEMMA RowSecond ==
  ASSUME LogInv, NEW i \in DOMAIN rows
  PROVE  rows[i].at[1] \in Nat /\ rows[i].at[1] = rows[i].time \div Ticks
<1>1. rows[i].at = Isoformat(rows[i].time)
  BY DEF LogInv, RowsDated
<1>2. ASSUME NEW t PROVE Isoformat(t)[1] = t \div Ticks
  BY DEF Isoformat
<1>3. rows[i].at[1] = rows[i].time \div Ticks
  BY <1>1, <1>2
<1> QED
  BY <1>3, RowFacts, TextParts

\* Texts of different seconds are in the order of their seconds.
LEMMA SecondsFirst ==
  ASSUME LogInv, NEW i \in DOMAIN rows, NEW b \in Places
  PROVE  LET second == rows[i].time \div Ticks
         IN /\ b[1] < second => TextBefore(b, rows[i].at) /\ ~TextBefore(rows[i].at, b)
            /\ second < b[1] => TextBefore(rows[i].at, b) /\ ~TextBefore(b, rows[i].at)
            /\ second \in Nat /\ b[1] \in Nat
<1>1. b[1] \in Nat
  BY DEF Places
<1>2. ASSUME NEW x, NEW y, x[1] \in Nat, y[1] \in Nat, x[1] < y[1]
      PROVE  TextBefore(x, y) /\ ~TextBefore(y, x)
  BY <1>2 DEF TextBefore
<1> QED
  BY <1>1, <1>2, RowSecond

\* How a bound cuts the rows.
LEMMA BoundFacts ==
  ASSUME LogInv, NEW i \in DOMAIN rows, NEW b \in Bounds
  PROVE  /\ Before(b, rows[i].time) => ~TextBefore(rows[i].at, b)
         /\ ~TextBefore(rows[i].at, b) =>
              Before(b, rows[i].time) \/ InSecond(b, rows[i].time)
         /\ After(b, rows[i].time) => ~TextBefore(b, rows[i].at)
         /\ ~TextBefore(b, rows[i].at) =>
              After(b, rows[i].time) \/ InSecond(b, rows[i].time)
<1>1. CASE b \in Texts
  <2>1. TimeOf(b) \in Nat
    BY <1>1, TextParts, DataAssumption DEF TimeOf
  <2>2. /\ ~TextBefore(rows[i].at, b) <=> TimeOf(b) <= rows[i].time
        /\ ~TextBefore(b, rows[i].at) <=> rows[i].time <= TimeOf(b)
    BY <1>1, <2>1, RowFacts, TextOrder
  <2> QED
    BY <1>1, <2>2 DEF Before, After
<1>2. CASE b \notin Texts
  <2> DEFINE second == rows[i].time \div Ticks
  <2>1. /\ b[1] < second => TextBefore(b, rows[i].at) /\ ~TextBefore(rows[i].at, b)
        /\ second < b[1] => TextBefore(rows[i].at, b) /\ ~TextBefore(b, rows[i].at)
        /\ second \in Nat /\ b[1] \in Nat
    BY SecondsFirst, BoundsAssumption
  <2>2. /\ Before(b, rows[i].time) <=> b[1] < second
        /\ After(b, rows[i].time) <=> second < b[1]
        /\ InSecond(b, rows[i].time) <=> b[1] = second
    BY <1>2 DEF Before, After, InSecond
  <2> HIDE DEF second
  <2> QED
    BY <2>1, <2>2
<1> QED
  BY <1>1, <1>2

\* A query selects the rows it must, and only rows it may.
LEMMA SelectedIsMeant ==
  ASSUME LogInv, NEW q \in Query
  PROVE  Meant(q) \subseteq Selected(q) /\ Selected(q) \subseteq Allowed(q)
<1>1. q.from # None => q.from \in Bounds
  BY DEF Query
<1>2. q.to # None => q.to \in Bounds
  BY DEF Query
<1>3. ASSUME NEW i \in Meant(q) PROVE i \in Selected(q)
  <2>1. i \in DOMAIN rows
    BY DEF Meant
  <2> QED
    BY <1>1, <1>2, <2>1, BoundFacts DEF Selected, Meant
<1>4. ASSUME NEW i \in Selected(q) PROVE i \in Allowed(q)
  <2>1. i \in DOMAIN rows
    BY DEF Selected
  <2> QED
    BY <1>1, <1>2, <2>1, BoundFacts DEF Selected, Allowed
<1> QED
  BY <1>3, <1>4

\* What a list is: the first n of the selected rows in their order.
LEMMA ListFacts ==
  ASSUME LogInv, NEW q \in Query, NEW s \in Lists(q)
  PROVE  \E n \in Nat :
           /\ s \in [1..n -> Selected(q)]
           /\ n = 0 => Selected(q) = {}
           /\ \A i, j \in 1..n : i < j => Descending(s[i], s[j])
           /\ \A i \in 1..n, k \in Selected(q) \ {s[j] : j \in 1..n} : Descending(s[i], k)
<1> DEFINE all == Selected(q)
           c == Cardinality(all)
           n == IF c < SafeLimit(q.limit) THEN c ELSE SafeLimit(q.limit)
<1>1. IsFiniteSet(all) /\ c \in Nat /\ (c = 0 => all = {})
  <2>1. DOMAIN rows = 1..Len(rows) /\ Len(rows) \in Nat
    BY DEF LogInv, TypeOK
  <2>2. IsFiniteSet(DOMAIN rows)
    BY <2>1, FS_Interval
  <2>3. all \subseteq DOMAIN rows
    BY DEF Selected
  <2>4. IsFiniteSet(all)
    BY <2>2, <2>3, FS_Subset
  <2> QED
    BY <2>4, FS_CardinalityType, FS_EmptySet
<1>2. SafeLimit(q.limit) \in Nat /\ SafeLimit(q.limit) > 0
  <2>1. q.limit \in Int
    BY DataAssumption DEF Query
  <2> QED
    BY <2>1, DataAssumption DEF SafeLimit
<1> HIDE DEF c
<1>3. n \in Nat /\ (n = 0 => all = {})
  BY <1>1, <1>2
<1>4. s \in {t \in [1..n -> all] :
        /\ \A i, j \in 1..n : i < j => t[i] # t[j] /\ Descending(t[i], t[j])
        /\ \A i \in 1..n, k \in all \ {t[j] : j \in 1..n} : Descending(t[i], k)}
  BY DEF Lists, c
<1> HIDE DEF n, all
<1>5. /\ s \in [1..n -> all]
      /\ \A i, j \in 1..n : i < j => Descending(s[i], s[j])
      /\ \A i \in 1..n, k \in all \ {s[j] : j \in 1..n} : Descending(s[i], k)
  BY <1>4
<1> QED
  BY <1>3, <1>5 DEF all

\* The state behind the log keeps its types.
THEOREM LogTypeCorrect == Spec => []TypeOK
<1>1. LogInv => TypeOK
  BY DEF LogInv
<1> QED
  BY <1>1, LogAlways, PTL

\* Whatever dates a query gives, a list has the latest of the rows that it must
\* select, in the order of their times, and no row that it must not.
THEOREM ListsAreTheLatest == Spec => []ListsTheLatest
<1>1. LogInv => ListsTheLatest
  <2> SUFFICES ASSUME LogInv, NEW q \in Query, NEW s \in Lists(q)
               PROVE  LET there == {s[i] : i \in DOMAIN s}
                      IN /\ there \subseteq Allowed(q)
                         /\ there = {} => Meant(q) = {}
                         /\ \A i \in there, k \in Meant(q) \ there :
                              rows[k].time <= rows[i].time
                         /\ \A i, j \in DOMAIN s : i < j =>
                              rows[s[j]].time <= rows[s[i]].time
    BY DEF ListsTheLatest
  <2> DEFINE there == {s[i] : i \in DOMAIN s}
             all == Selected(q)
  <2>1. /\ Meant(q) \subseteq all /\ all \subseteq Allowed(q)
        /\ all \subseteq DOMAIN rows
    BY SelectedIsMeant DEF Selected
  <2>2. PICK n \in Nat :
           /\ s \in [1..n -> all]
           /\ n = 0 => all = {}
           /\ \A i, j \in 1..n : i < j => Descending(s[i], s[j])
           /\ \A i \in 1..n, k \in all \ {s[j] : j \in 1..n} : Descending(s[i], k)
    BY ListFacts
  <2> HIDE DEF all
  <2>3. DOMAIN s = 1..n
    BY <2>2
  <2>4. there \subseteq all
    BY <2>2, <2>3
  <2>5. there = {} => Meant(q) = {}
    <3>1. ASSUME n # 0 PROVE s[1] \in there
      BY <2>3, <3>1
    <3> QED
      BY <2>1, <2>2, <3>1
  <2>6. ASSUME NEW i \in there, NEW k \in Meant(q) \ there
        PROVE  rows[k].time <= rows[i].time
    <3>1. Descending(i, k)
      BY <2>1, <2>2, <2>3
    <3> QED
      BY <2>1, <2>4, <3>1, DescendingTimes
  <2>7. ASSUME NEW i \in DOMAIN s, NEW j \in DOMAIN s, i < j
        PROVE  rows[s[j]].time <= rows[s[i]].time
    <3>1. Descending(s[i], s[j]) /\ s[i] \in DOMAIN rows /\ s[j] \in DOMAIN rows
      BY <2>1, <2>2, <2>3, <2>7
    <3> QED
      BY <3>1, DescendingTimes
  <2> QED
    BY <2>1, <2>4, <2>5, <2>6, <2>7
<1> QED
  BY <1>1, LogAlways, PTL

\* Unless the clock was set back, a list of everything begins with the row that
\* was inserted last, or one of the same time.
THEOREM LatestComesFirst == Spec => []LatestIsFirst
<1>1. LogInv => LatestIsFirst
  <2> SUFFICES ASSUME LogInv, ~back, rows # <<>>, NEW q \in Query,
                      q.type = None, q.result = None, q.from = None, q.to = None,
                      NEW s \in Lists(q)
               PROVE  s # <<>> /\ rows[s[1]].time = rows[Len(rows)].time
    BY DEF LatestIsFirst
  <2> DEFINE last == Len(rows)
  <2>1. DOMAIN rows = 1..last /\ last \in Nat \ {0}
    BY DEF LogInv, TypeOK
  <2>2. Selected(q) = DOMAIN rows
    BY DEF Selected
  <2>3. PICK n \in Nat :
           /\ s \in [1..n -> DOMAIN rows]
           /\ n = 0 => DOMAIN rows = {}
           /\ \A i, j \in 1..n : i < j => Descending(s[i], s[j])
           /\ \A i \in 1..n, k \in DOMAIN rows \ {s[j] : j \in 1..n} : Descending(s[i], k)
    BY <2>2, ListFacts
  <2> HIDE DEF last
  <2>4. last \in DOMAIN rows /\ n > 0 /\ s[1] \in DOMAIN rows
    BY <2>1, <2>3
  <2>5. s # <<>>
    BY <2>3, <2>4
  <2>6. rows[last].time <= rows[s[1]].time
    <3>1. CASE last = s[1]
      BY <2>4, <3>1, RowFacts
    <3>2. CASE last # s[1]
      <4>1. Descending(s[1], last)
        BY <2>3, <2>4, <3>2
      <4> QED
        BY <2>4, <4>1, DescendingTimes
    <3> QED
      BY <3>1, <3>2
  <2>7. rows[s[1]].time <= rows[last].time
    BY <2>1, <2>4 DEF LogInv, RowsInOrder
  <2> QED
    BY <2>4, <2>5, <2>6, <2>7, RowFacts DEF last
<1> QED
  BY <1>1, LogAlways, PTL
=============================================================================
