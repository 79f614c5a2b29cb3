------------------------------- MODULE AuditLog -------------------------------
(***************************************************************************)
(* The audit log (services/audit_service.py, api/audit.py): rows are       *)
(* inserted with the time as a text, listed by that text, newest first,    *)
(* with filters and a limit. A list changes nothing: it is an operator, of *)
(* all the answers SQLite may give, as rows of the same time are in no     *)
(* order. A second is cut into Ticks parts. A text is a sequence of tokens *)
(* that gives its place among the texts of the rows: the last second whose *)
(* text it does not come before, perhaps a dot and a part of a second, and *)
(* a mark for what follows.                                                *)
(***************************************************************************)
EXTENDS Integers, Sequences, FiniteSets

CONSTANTS
  Types,     \* values of action_type
  Results,   \* values of result
  Bounds,    \* texts given for date_from and date_to: any that clients send
  Limits,    \* values of limit
  MaxLimit,  \* the most that is listed
  Ticks,     \* parts of a second
  None,      \* no value
  MaxTime,   \* bound on the clock
  MaxRows    \* bound on the rows

\* What may follow a second or a part of one, in the order of its characters:
\* nothing (or a space, as which an unescaped "+" arrives), the zone of a row,
\* another zone ("+02:00", "-05:00"), a fraction, and "Z" or any other letter.
Marks == {"", "+", "-", ".", "Z"}
Rank == [m \in Marks |->
           CASE m = "" -> 0 [] m = "+" -> 1 [] m = "-" -> 2 [] m = "." -> 3 [] m = "Z" -> 4]

\* The place of any text among those of the rows.
Places == (Nat \X (Marks \ {"."})) \cup
          (Nat \X {"."} \X (0..(Ticks - 1)) \X (Marks \ {"."}))

ASSUME DataAssumption ==
  /\ Ticks \in Nat \ {0} /\ MaxTime \in Nat /\ MaxRows \in Nat
  /\ MaxLimit \in Nat \ {0} /\ Limits \subseteq Int
  /\ None \notin Types \cup Results

ASSUME BoundsAssumption == Bounds \subseteq Places

VARIABLES
  now,     \* the clock
  back,    \* history: it was set back
  rows     \* audit_logs, in the order of the inserts

vars == <<now, back, rows>>

Query == [type : Types \cup {None}, result : Results \cup {None},
           from : Bounds \cup {None}, to : Bounds \cup {None}, limit : Limits]

-----------------------------------------------------------------------------
(* Times as texts *)

\* Variant: the fraction is always written.
Fractional(t) == <<t \div Ticks, ".", t % Ticks, "+">>

\* Variant: seconds are enough.
WholeSeconds(t) == <<t \div Ticks, "+">>

\* datetime.isoformat in UTC, without a fraction of zero.
Isoformat(t) ==
  IF t % Ticks = 0 THEN <<t \div Ticks, "+">>
  ELSE <<t \div Ticks, ".", t % Ticks, "+">>

\* How SQLite compares two such texts.
TextBefore(a, b) ==
  \/ a[1] < b[1]
  \/ /\ a[1] = b[1]
     /\ \/ Rank[a[2]] < Rank[b[2]]
        \/ /\ a[2] = "." /\ b[2] = "."
           /\ \/ a[3] < b[3]
              \/ a[3] = b[3] /\ Rank[a[4]] < Rank[b[4]]

\* The time the text of a row stands for.
TimeOf(text) == text[1] * Ticks + (IF text[2] = "." THEN text[3] ELSE 0)

-----------------------------------------------------------------------------
(* The operations *)

Init ==
  /\ now \in 0..MaxTime /\ back = FALSE
  /\ rows = <<>>

\* record, called with the time of the call.
Record(type, result) ==
  /\ Len(rows) < MaxRows
  /\ rows' = Append(rows, [at |-> Isoformat(now), time |-> now, type |-> type,
                           result |-> result])
  /\ UNCHANGED <<now, back>>

Selected(q) ==
  {i \in DOMAIN rows :
     /\ q.type \in {None, rows[i].type}
     /\ q.result \in {None, rows[i].result}
     /\ q.from # None => ~TextBefore(rows[i].at, q.from)
     /\ q.to # None => ~TextBefore(q.to, rows[i].at)}

SafeLimit(n) == IF n < 1 THEN 1 ELSE IF n > MaxLimit THEN MaxLimit ELSE n

\* Variant: ORDER BY without DESC.
Ascending(i, j) == ~TextBefore(rows[j].at, rows[i].at)

\* Row i may come before row j; ties are in no order.
Descending(i, j) == ~TextBefore(rows[i].at, rows[j].at)

\* list_logs: the first rows of the selected ones in that order, by number.
Lists(q) ==
  LET all == Selected(q)
      n == IF Cardinality(all) < SafeLimit(q.limit) THEN Cardinality(all)
           ELSE SafeLimit(q.limit)
  IN {s \in [1..n -> all] :
        /\ \A i, j \in 1..n : i < j => s[i] # s[j] /\ Descending(s[i], s[j])
        /\ \A i \in 1..n, k \in all \ {s[j] : j \in 1..n} : Descending(s[i], k)}

\* Time goes on, or somebody sets the clock back.
Tick ==
  /\ now < MaxTime
  /\ now' = now + 1
  /\ UNCHANGED <<back, rows>>

SetBack ==
  /\ now > 0
  /\ now' = now - 1
  /\ back' = TRUE
  /\ UNCHANGED rows

Next ==
  \/ \E t \in Types, r \in Results : Record(t, r)
  \/ Tick \/ SetBack

Spec == Init /\ [][Next]_vars

-----------------------------------------------------------------------------
(* Properties *)

Texts == (Nat \X {"+"}) \cup (Nat \X {"."} \X (1..(Ticks - 1)) \X {"+"})

TypeOK ==
  /\ now \in 0..MaxTime /\ back \in BOOLEAN
  /\ rows \in Seq([at : Texts, time : 0..MaxTime, type : Types, result : Results])
  /\ Len(rows) <= MaxRows

\* The rows that a query must select and those that it may. A date written as
\* those of the rows are is exact; any other text counts by the second it writes,
\* whatever its zone, and the rows of that second are in or out.
Before(b, t) == IF b \in Texts THEN TimeOf(b) <= t ELSE b[1] < t \div Ticks
After(b, t)  == IF b \in Texts THEN t <= TimeOf(b) ELSE t \div Ticks < b[1]

Meant(q) ==
  {i \in DOMAIN rows :
     /\ q.type \in {None, rows[i].type}
     /\ q.result \in {None, rows[i].result}
     /\ q.from # None => Before(q.from, rows[i].time)
     /\ q.to # None => After(q.to, rows[i].time)}

InSecond(b, t) == b \notin Texts /\ b[1] = t \div Ticks

Allowed(q) ==
  {i \in DOMAIN rows :
     /\ q.type \in {None, rows[i].type}
     /\ q.result \in {None, rows[i].result}
     /\ q.from # None => Before(q.from, rows[i].time) \/ InSecond(q.from, rows[i].time)
     /\ q.to # None => After(q.to, rows[i].time) \/ InSecond(q.to, rows[i].time)}

\* Whatever text a client sends for a date, a list has the latest of the rows it
\* asks for, in the order of their times, and is empty only if there are none:
\* dates are compared as texts (list_logs), of which some have a fraction and
\* others not. A date that is not written as those of the rows are counts by the
\* second it writes, not by the time it means in its zone.
ListsTheLatest ==
  \A q \in Query : \A s \in Lists(q) :
    LET there == {s[i] : i \in DOMAIN s}
    IN /\ there \subseteq Allowed(q)
       /\ there = {} => Meant(q) = {}
       /\ \A i \in there, k \in Meant(q) \ there : rows[k].time <= rows[i].time
       /\ \A i, j \in DOMAIN s : i < j => rows[s[j]].time <= rows[s[i]].time

\* Unless the clock was set back, the first row of a list of everything is the
\* one inserted last, or was made at the same time.
LatestIsFirst ==
  ~back /\ rows # <<>> =>
    \A q \in Query : q.type = None /\ q.result = None /\ q.from = None /\ q.to = None =>
      \A s \in Lists(q) : s # <<>> /\ rows[s[1]].time = rows[Len(rows)].time
=============================================================================
