---------------------------- MODULE SequenceLemmas ----------------------------
(***************************************************************************)
(* Facts about sequences that the proofs need and the library does not     *)
(* state: induction over the numbers, as a fact about sets of numbers, the *)
(* existence of functions defined by recursion, and what FlattenSeq of the *)
(* community modules returns, with the order of what it returns.           *)
(***************************************************************************)
EXTENDS Integers, SequencesExt, FiniteSets, FiniteSetTheorems, SequenceTheorems,
        WellFoundedInduction, TLAPS

\* Every set of numbers that is not empty has a least element: the intervals
\* 1..n are ordered by inclusion, and finite sets are well-founded by it.
LEMMA LeastNumber ==
  ASSUME NEW N \in SUBSET Nat, N # {}
  PROVE  \E m \in N : \A k \in N : m <= k
<1> DEFINE T == {1..n : n \in N}
<1>1. ASSUME NEW x \in T PROVE x \in FiniteSubsetsOf(Nat)
  <2>1. PICK n \in N : x = 1..n
    OBVIOUS
  <2>2. n \in Int /\ 1 \in Int
    OBVIOUS
  <2>3. IsFiniteSet(x)
    BY <2>1, <2>2, FS_Interval
  <2>4. x \in SUBSET Nat
    BY <2>1
  <2> QED
    BY <2>3, <2>4 DEF FiniteSubsetsOf
<1>2. T \subseteq FiniteSubsetsOf(Nat)
  BY <1>1
<1>3. T # {}
  <2>1. PICK n \in N : TRUE
    OBVIOUS
  <2> QED
    BY <2>1
<1>4. IsWellFoundedOn(StrictSubsetOrdering(Nat), FiniteSubsetsOf(Nat))
  BY FS_StrictSubsetOrderingWellFounded
<1>5. PICK x \in T : \A y \in T : <<y, x>> \notin StrictSubsetOrdering(Nat)
  <2> HIDE DEF T
  <2> QED
    BY <1>2, <1>3, <1>4, WFMin
<1>6. PICK m \in N : x = 1..m
  OBVIOUS
<1>7. ASSUME NEW k \in N, k < m PROVE FALSE
  <2>1. m \in 1..m /\ m \notin 1..k
    BY <1>7
  <2>2. 1..k \subseteq 1..m
    BY <1>7
  <2>3. 1..k \in SUBSET Nat /\ 1..m \in SUBSET Nat
    OBVIOUS
  <2>4. <<1..k, 1..m>> \in StrictSubsetOrdering(Nat)
    BY <2>1, <2>2, <2>3 DEF StrictSubsetOrdering
  <2> QED
    BY <1>5, <1>6, <2>4
<1> QED
  BY <1>7

\* A set that holds 0 and with every number the next one holds all of them.
LEMMA Induction ==
  ASSUME NEW N, 0 \in N, \A n \in Nat : n \in N => n + 1 \in N
  PROVE  Nat \subseteq N
<1> DEFINE M == Nat \ N
<1> SUFFICES ASSUME M # {} PROVE FALSE
  OBVIOUS
<1>1. PICK m \in M : \A k \in M : m <= k
  <2>1. M \in SUBSET Nat
    OBVIOUS
  <2> HIDE DEF M
  <2> QED
    BY <2>1, LeastNumber
<1>2. m # 0 /\ m - 1 \in Nat
  OBVIOUS
<1>3. m - 1 \in N
  BY <1>1, <1>2
<1>4. (m - 1) + 1 \in N
  BY <1>2, <1>3
<1> QED
  BY <1>2, <1>4

\* f is defined on 1..n by recursion: b first, and then what g makes of the
\* value before.
ByRecursion(f, n, b, g) ==
  \A i \in 1..n : f[i] = IF i = 1 THEN b ELSE g[<<f[i - 1], i>>]

\* A function defined by recursion exists.
LEMMA RecursionExists ==
  ASSUME NEW V, NEW n \in Nat, NEW b \in V, NEW g \in [V \X Nat -> V]
  PROVE  \E f \in [1..n -> V] : ByRecursion(f, n, b, g)
<1> DEFINE P(k) == \E f \in [1..k -> V] : ByRecursion(f, k, b, g)
           N == {k \in Nat : P(k)}
<1>1. P(0)
  <2> DEFINE h == [i \in 1..0 |-> b]
  <2>1. h \in [1..0 -> V]
    OBVIOUS
  <2>2. ByRecursion(h, 0, b, g)
    BY DEF ByRecursion
  <2> QED
    BY <2>1, <2>2
<1>2. ASSUME NEW k \in Nat, P(k) PROVE P(k + 1)
  <2>1. PICK f \in [1..k -> V] : ByRecursion(f, k, b, g)
    BY <1>2
  <2> DEFINE v == IF k = 0 THEN b ELSE g[<<f[k], k + 1>>]
             h == [i \in 1..(k + 1) |-> IF i = k + 1 THEN v ELSE f[i]]
  <2>2. v \in V
    <3>1. k # 0 => f[k] \in V
      OBVIOUS
    <3> QED
      BY <3>1
  <2>3. h \in [1..(k + 1) -> V]
    <3> HIDE DEF v
    <3> QED
      BY <2>2
  <2>4. \A i \in 1..(k + 1) : h[i] = IF i = k + 1 THEN v ELSE f[i]
    OBVIOUS
  <2> HIDE DEF h
  <2>5. ASSUME NEW i \in 1..(k + 1)
        PROVE  h[i] = IF i = 1 THEN b ELSE g[<<h[i - 1], i>>]
    <3>1. CASE i = k + 1
      <4>1. h[i] = v
        BY <2>4, <3>1
      <4>2. i # 1 => h[i - 1] = f[k]
        BY <2>4, <3>1
      <4> QED
        BY <3>1, <4>1, <4>2
    <3>2. CASE i \in 1..k
      <4>1. h[i] = f[i]
        BY <2>4, <3>2
      <4>2. f[i] = IF i = 1 THEN b ELSE g[<<f[i - 1], i>>]
        BY <2>1, <3>2 DEF ByRecursion
      <4>3. i # 1 => h[i - 1] = f[i - 1]
        BY <2>4, <3>2
      <4> QED
        BY <4>1, <4>2, <4>3
    <3> QED
      BY <3>1, <3>2
  <2>6. ByRecursion(h, k + 1, b, g)
    BY <2>5 DEF ByRecursion
  <2> QED
    BY <2>3, <2>6
<1> HIDE DEF P
<1>3. 0 \in N /\ \A k \in Nat : k \in N => k + 1 \in N
  BY <1>1, <1>2
<1>4. n \in N
  <2> HIDE DEF N
  <2> QED
    BY <1>3, Induction
<1>5. P(n)
  BY <1>4
<1> QED
  BY <1>5 DEF P

\* The range of a sequence, of its tail and of a longer sequence.
LEMMA RangeFacts ==
  ASSUME NEW T, NEW s \in Seq(T)
  PROVE  /\ Range(s) \subseteq T
         /\ \A x : x \in Range(s) <=> \E i \in 1..Len(s) : x = s[i]
         /\ s # <<>> => /\ Head(s) \in Range(s) /\ Tail(s) \in Seq(T)
                        /\ Range(s) = {Head(s)} \cup Range(Tail(s))
         /\ s = <<>> => Range(s) = {}
         /\ \A e \in T : Append(s, e) \in Seq(T) /\ Range(Append(s, e)) = Range(s) \cup {e}
<1>1. DOMAIN s = 1..Len(s) /\ Len(s) \in Nat /\ \A i \in 1..Len(s) : s[i] \in T
  OBVIOUS
<1>2. \A x : x \in Range(s) <=> \E i \in 1..Len(s) : x = s[i]
  BY <1>1 DEF Range
<1>3. ASSUME s # <<>>
      PROVE  /\ Head(s) \in Range(s) /\ Tail(s) \in Seq(T)
             /\ Range(s) = {Head(s)} \cup Range(Tail(s))
  <2>1. Head(s) = s[1] /\ 1 \in 1..Len(s)
    BY <1>3
  <2>2. /\ Tail(s) \in Seq(T) /\ DOMAIN Tail(s) = 1..(Len(s) - 1)
        /\ \A i \in 1..(Len(s) - 1) : Tail(s)[i] = s[i + 1] /\ i + 1 \in 1..Len(s)
    BY <1>3
  <2>3. \A x : x \in Range(Tail(s)) <=> \E i \in 1..(Len(s) - 1) : x = s[i + 1]
    BY <2>2 DEF Range
  <2>4. \A i \in 1..Len(s) : i # 1 => i - 1 \in 1..(Len(s) - 1) /\ s[i] = s[(i - 1) + 1]
    BY <1>1
  <2>5. \A x \in Range(s) : x = Head(s) \/ x \in Range(Tail(s))
    BY <1>2, <2>1, <2>3, <2>4
  <2>6. Head(s) \in Range(s)
    BY <1>2, <2>1
  <2>7. \A x \in Range(Tail(s)) : x \in Range(s)
    BY <1>2, <2>2, <2>3
  <2> QED
    BY <2>2, <2>5, <2>6, <2>7
<1>4. ASSUME NEW e \in T
      PROVE  Append(s, e) \in Seq(T) /\ Range(Append(s, e)) = Range(s) \cup {e}
  <2>1. /\ Append(s, e) \in Seq(T) /\ DOMAIN Append(s, e) = 1..(Len(s) + 1)
        /\ \A i \in 1..Len(s) : Append(s, e)[i] = s[i] /\ i \in 1..(Len(s) + 1)
        /\ Append(s, e)[Len(s) + 1] = e
        /\ \A i \in 1..(Len(s) + 1) : i \in 1..Len(s) \/ i = Len(s) + 1
        /\ Len(s) + 1 \in 1..(Len(s) + 1)
    BY <1>1
  <2>2. \A x : x \in Range(Append(s, e)) <=> \E i \in 1..(Len(s) + 1) : x = Append(s, e)[i]
    BY <2>1 DEF Range
  <2> QED
    BY <1>2, <2>1, <2>2
<1>5. s = <<>> => Range(s) = {}
  BY <1>2
<1>6. Range(s) \subseteq T
  BY <1>1, <1>2
<1> QED
  BY <1>2, <1>3, <1>4, <1>5, <1>6

\* A sequence without repetitions has as many elements as it is long.
LEMMA DistinctElements ==
  ASSUME NEW T, NEW s \in Seq(T), \A i, j \in 1..Len(s) : i < j => s[i] # s[j]
  PROVE  Cardinality(Range(s)) = Len(s)
<1> DEFINE n == Len(s)
           R == Range(s)
<1>1. n \in Nat /\ DOMAIN s = 1..n
  OBVIOUS
<1>2. \A x : x \in R <=> \E i \in 1..n : x = s[i]
  BY RangeFacts
<1>3. s \in [1..n -> R] /\ \A x \in R : \E i \in 1..n : s[i] = x
  <2>1. s = [i \in 1..n |-> s[i]]
    BY <1>1
  <2>2. \A i \in 1..n : s[i] \in R
    BY <1>2
  <2> HIDE DEF R
  <2>3. s \in [1..n -> R]
    BY <2>1, <2>2
  <2> QED
    BY <1>2, <2>3
<1>4. \A i, j \in 1..n : s[i] = s[j] => i = j
  <2> SUFFICES ASSUME NEW i \in 1..n, NEW j \in 1..n, s[i] = s[j], i # j PROVE FALSE
    OBVIOUS
  <2>1. i < j \/ j < i
    BY <1>1
  <2> QED
    BY <2>1
<1> HIDE DEF n, R
<1>5. s \in Bijection(1..n, R)
  BY <1>3, <1>4 DEF Bijection, Injection, Surjection, IsInjective
<1>6. IsFiniteSet(1..n) /\ Cardinality(1..n) = n
  BY <1>1, FS_Interval
<1>7. Cardinality(R) = Cardinality(1..n)
  BY <1>5, <1>6, FS_Bijection DEF ExistsBijection
<1> QED
  BY <1>6, <1>7 DEF n, R

-----------------------------------------------------------------------------
(* FlattenSeq *)

\* The concatenations of the first sequences, the last of which is FlattenSeq.
LEMMA FlattenSteps ==
  ASSUME NEW T, NEW seqs \in Seq(Seq(T)), seqs # <<>>
  PROVE  \E f \in [1..Len(seqs) -> Seq(T)] :
            /\ FlattenSeq(seqs) = f[Len(seqs)]
            /\ f[1] = seqs[1]
            /\ \A i \in 2..Len(seqs) : f[i] = f[i - 1] \o seqs[i]
<1> DEFINE n == Len(seqs)
           Step(c) == [i \in 1..n |-> IF i = 1 THEN seqs[i] ELSE c[i - 1] \o seqs[i]]
           g == [x \in Seq(T) \X Nat |-> IF x[2] \in 1..n THEN x[1] \o seqs[x[2]] ELSE x[1]]
           chosen == CHOOSE c : c = Step(c)
<1>1. n \in Nat /\ n >= 1
  OBVIOUS
<1>2. \A i \in 1..n : seqs[i] \in Seq(T)
  OBVIOUS
<1>8. FlattenSeq(seqs) = chosen[n]
  BY <1>1 DEF FlattenSeq
<1> HIDE DEF n
<1>3. g \in [Seq(T) \X Nat -> Seq(T)]
  <2>1. ASSUME NEW x \in Seq(T) \X Nat
        PROVE  (IF x[2] \in 1..n THEN x[1] \o seqs[x[2]] ELSE x[1]) \in Seq(T)
    BY <1>2
  <2> QED
    BY <2>1
<1>4. PICK f \in [1..n -> Seq(T)] : ByRecursion(f, n, seqs[1], g)
  <2>1. seqs[1] \in Seq(T)
    BY <1>1, <1>2
  <2> HIDE DEF g
  <2> QED
    BY <1>1, <1>3, <2>1, RecursionExists
<1>5. \A i \in 1..n : f[i] = IF i = 1 THEN seqs[i] ELSE f[i - 1] \o seqs[i]
  <2> SUFFICES ASSUME NEW i \in 1..n
               PROVE  f[i] = IF i = 1 THEN seqs[i] ELSE f[i - 1] \o seqs[i]
    OBVIOUS
  <2>1. f[i] = IF i = 1 THEN seqs[1] ELSE g[<<f[i - 1], i>>]
    BY <1>4 DEF ByRecursion
  <2>2. i # 1 => g[<<f[i - 1], i>>] = f[i - 1] \o seqs[i]
    <3>1. i # 1 => f[i - 1] \in Seq(T) /\ i \in Nat
      BY <1>1
    <3> QED
      BY <1>1, <3>1
  <2> QED
    BY <2>1, <2>2
<1>6. f = Step(f)
  BY <1>5
<1>7. chosen = Step(chosen)
  <2> HIDE DEF Step
  <2> QED
    BY <1>6
<1> HIDE DEF chosen
<1> DEFINE P(k) == k + 1 \in 1..n => chosen[k + 1] = f[k + 1]
           N == {k \in Nat : P(k)}
<1>9. P(0)
  <2>1. 1 \in 1..n
    BY <1>1
  <2>2. chosen[1] = seqs[1]
    BY <1>7, <2>1
  <2>3. f[1] = seqs[1]
    BY <1>5, <2>1
  <2> QED
    BY <2>2, <2>3
<1>10. ASSUME NEW k \in Nat, P(k) PROVE P(k + 1)
  <2> SUFFICES ASSUME k + 2 \in 1..n PROVE chosen[k + 2] = f[k + 2]
    BY DEF P
  <2>3. k + 1 \in 1..n
    BY <1>1
  <2>1. chosen[k + 2] = chosen[k + 1] \o seqs[k + 2]
    <3>1. (k + 2) # 1 /\ (k + 2) - 1 = k + 1
      OBVIOUS
    <3> QED
      BY <1>1, <1>7, <3>1
  <2>2. f[k + 2] = f[k + 1] \o seqs[k + 2]
    <3>1. (k + 2) # 1 /\ (k + 2) - 1 = k + 1
      OBVIOUS
    <3> QED
      BY <1>1, <1>5, <3>1
  <2> QED
    BY <1>10, <2>1, <2>2, <2>3
<1> HIDE DEF P
<1>11. 0 \in N /\ \A k \in Nat : k \in N => k + 1 \in N
  BY <1>9, <1>10
<1>12. n - 1 \in N
  <2>1. n - 1 \in Nat
    BY <1>1
  <2> HIDE DEF N
  <2> QED
    BY <1>11, <2>1, Induction
<1>13. chosen[n] = f[n]
  BY <1>1, <1>12 DEF P
<1>14. f[1] = seqs[1]
  <2>1. 1 \in 1..n
    BY <1>1
  <2> QED
    BY <1>5, <2>1
<1>15. ASSUME NEW i \in 2..n
       PROVE  f[i] = f[i - 1] \o seqs[i]
  <2>1. i \in 1..n /\ i # 1
    BY <1>1
  <2> QED
    BY <1>5, <2>1
<1> QED
  BY <1>8, <1>13, <1>14, <1>15 DEF n

\* F holds the elements of the first n sequences, in their order: its element j
\* is the one at col[j] of the sequence row[j].
InOrder(F, seqs, n, row, col) ==
  /\ row \in [1..Len(F) -> 1..n] /\ col \in [1..Len(F) -> Nat]
  /\ \A j \in 1..Len(F) : col[j] \in 1..Len(seqs[row[j]]) /\ F[j] = seqs[row[j]][col[j]]
  /\ \A j, k \in 1..Len(F) : j < k => row[j] < row[k] \/ (row[j] = row[k] /\ col[j] < col[k])
  /\ \A i \in 1..n : \A p \in 1..Len(seqs[i]) : \E j \in 1..Len(F) : row[j] = i /\ col[j] = p

\* Appending the next sequence keeps the order.
LEMMA InOrderNext ==
  ASSUME NEW T, NEW seqs \in Seq(Seq(T)), NEW n \in Nat, n + 1 <= Len(seqs),
         NEW F \in Seq(T), NEW row, NEW col, InOrder(F, seqs, n, row, col)
  PROVE  \E a, q : InOrder(F \o seqs[n + 1], seqs, n + 1, a, q)
<1> DEFINE s == seqs[n + 1]
           G == F \o s
           a == [j \in 1..Len(G) |-> IF j <= Len(F) THEN row[j] ELSE n + 1]
           q == [j \in 1..Len(G) |-> IF j <= Len(F) THEN col[j] ELSE j - Len(F)]
<1>1. s \in Seq(T) /\ Len(s) \in Nat /\ Len(F) \in Nat
  <2>1. n + 1 \in 1..Len(seqs)
    OBVIOUS
  <2> QED
    BY <2>1
<1> HIDE DEF s
<1>2. /\ Len(G) = Len(F) + Len(s)
      /\ \A j \in 1..Len(F) : G[j] = F[j]
      /\ \A j \in (Len(F) + 1)..Len(G) : G[j] = s[j - Len(F)]
  BY <1>1
<1>3. \A j \in 1..Len(F) : /\ row[j] \in 1..n /\ col[j] \in Nat
                           /\ col[j] \in 1..Len(seqs[row[j]]) /\ F[j] = seqs[row[j]][col[j]]
  BY DEF InOrder
<1> HIDE DEF G
<1>4. /\ \A j \in 1..Len(F) : a[j] = row[j] /\ q[j] = col[j] /\ j \in 1..Len(G)
      /\ \A j \in (Len(F) + 1)..Len(G) : a[j] = n + 1 /\ q[j] = j - Len(F) /\ j \in 1..Len(G)
      /\ \A j \in 1..Len(G) : j \in 1..Len(F) \/ j \in (Len(F) + 1)..Len(G)
  BY <1>1, <1>2
<1>5. a \in [1..Len(G) -> 1..(n + 1)] /\ q \in [1..Len(G) -> Nat]
  <2>1. ASSUME NEW j \in 1..Len(G) PROVE a[j] \in 1..(n + 1) /\ q[j] \in Nat
    BY <1>1, <1>2, <1>3, <1>4
  <2>2. DOMAIN a = 1..Len(G) /\ DOMAIN q = 1..Len(G)
    OBVIOUS
  <2>3. a = [j \in 1..Len(G) |-> a[j]] /\ q = [j \in 1..Len(G) |-> q[j]]
    OBVIOUS
  <2> HIDE DEF a, q
  <2> QED
    BY <2>1, <2>3
<1> HIDE DEF a, q
<1>6. ASSUME NEW j \in 1..Len(G)
      PROVE  q[j] \in 1..Len(seqs[a[j]]) /\ G[j] = seqs[a[j]][q[j]]
  <2>1. CASE j \in 1..Len(F)
    BY <1>2, <1>3, <1>4, <2>1
  <2>2. CASE j \in (Len(F) + 1)..Len(G)
    <3>1. seqs[a[j]] = s
      BY <1>4, <2>2 DEF s
    <3>2. q[j] = j - Len(F) /\ G[j] = s[j - Len(F)]
      BY <1>2, <1>4, <2>2
    <3>3. j - Len(F) \in 1..Len(s)
      BY <1>1, <1>2, <2>2
    <3> QED
      BY <3>1, <3>2, <3>3
  <2> QED
    BY <1>4, <2>1, <2>2
<1>7. ASSUME NEW j \in 1..Len(G), NEW k \in 1..Len(G), j < k
      PROVE  a[j] < a[k] \/ (a[j] = a[k] /\ q[j] < q[k])
  <2>1. CASE k \in 1..Len(F)
    <3>1. j \in 1..Len(F)
      BY <1>1, <1>7, <2>1
    <3>2. row[j] < row[k] \/ (row[j] = row[k] /\ col[j] < col[k])
      BY <1>7, <2>1, <3>1 DEF InOrder
    <3> QED
      BY <1>4, <2>1, <3>1, <3>2
  <2>2. CASE k \in (Len(F) + 1)..Len(G) /\ j \in 1..Len(F)
    <3>1. row[j] \in 1..n
      BY <1>3, <2>2
    <3>2. a[j] = row[j]
      BY <1>4, <2>2
    <3>3. a[k] = n + 1
      BY <1>4, <2>2
    <3> QED
      BY <3>1, <3>2, <3>3
  <2>3. CASE k \in (Len(F) + 1)..Len(G) /\ j \in (Len(F) + 1)..Len(G)
    BY <1>1, <1>4, <1>7, <2>3
  <2> QED
    BY <1>4, <2>1, <2>2, <2>3
<1>8. ASSUME NEW i \in 1..(n + 1), NEW p \in 1..Len(seqs[i])
      PROVE  \E j \in 1..Len(G) : a[j] = i /\ q[j] = p
  <2>1. CASE i \in 1..n
    <3>1. PICK j \in 1..Len(F) : row[j] = i /\ col[j] = p
      BY <2>1 DEF InOrder
    <3> QED
      BY <1>4, <3>1
  <2>2. CASE i = n + 1
    <3>1. p \in 1..Len(s)
      BY <2>2 DEF s
    <3>2. p + Len(F) \in (Len(F) + 1)..Len(G) /\ (p + Len(F)) - Len(F) = p
      BY <1>1, <1>2, <3>1
    <3> QED
      BY <1>4, <2>2, <3>2
  <2> QED
    BY <2>1, <2>2
<1>9. InOrder(G, seqs, n + 1, a, q)
  BY <1>5, <1>6, <1>7, <1>8 DEF InOrder
<1> QED
  BY <1>9 DEF G, s

\* FlattenSeq returns the elements of all sequences, in their order.
LEMMA FlattenInOrder ==
  ASSUME NEW T, NEW seqs \in Seq(Seq(T))
  PROVE  /\ FlattenSeq(seqs) \in Seq(T)
         /\ \E row, col : InOrder(FlattenSeq(seqs), seqs, Len(seqs), row, col)
<1> DEFINE Z == [j \in 1..0 |-> 0]
<1>1. CASE seqs = <<>>
  <2>1. Len(seqs) = 0
    BY <1>1
  <2>2. FlattenSeq(seqs) = <<>>
    BY <1>1, <2>1 DEF FlattenSeq
  <2>3. InOrder(<<>>, seqs, 0, Z, Z)
    BY DEF InOrder
  <2> QED
    BY <2>1, <2>2, <2>3
<1>2. CASE seqs # <<>>
  <2>1. PICK f \in [1..Len(seqs) -> Seq(T)] :
               /\ FlattenSeq(seqs) = f[Len(seqs)]
               /\ f[1] = seqs[1]
               /\ \A i \in 2..Len(seqs) : f[i] = f[i - 1] \o seqs[i]
    BY <1>2, FlattenSteps
  <2> DEFINE P(k) == k + 1 \in 1..Len(seqs) =>
                       \E row, col : InOrder(f[k + 1], seqs, k + 1, row, col)
             N == {k \in Nat : P(k)}
  <2>2. Len(seqs) \in Nat /\ Len(seqs) >= 1
    BY <1>2
  <2>3. P(0)
    <3>1. InOrder(<<>>, seqs, 0, Z, Z)
      BY DEF InOrder
    <3>2. \E row, col : InOrder(<<>> \o seqs[0 + 1], seqs, 0 + 1, row, col)
      <4>1. <<>> \in Seq(T) /\ 0 \in Nat /\ 0 + 1 <= Len(seqs)
        BY <2>2
      <4> HIDE DEF Z
      <4> QED
        BY <2>2, <3>1, <4>1, InOrderNext
    <3>3. <<>> \o seqs[1] = seqs[1]
      <4>1. seqs[1] \in Seq(T)
        BY <2>2
      <4> QED
        BY <4>1
    <3>4. 0 + 1 = 1
      OBVIOUS
    <3> QED
      BY <2>1, <3>2, <3>3, <3>4
  <2>4. ASSUME NEW k \in Nat, P(k) PROVE P(k + 1)
    <3> SUFFICES ASSUME (k + 1) + 1 \in 1..Len(seqs)
                 PROVE  \E row, col : InOrder(f[(k + 1) + 1], seqs, (k + 1) + 1, row, col)
      OBVIOUS
    <3>1. k + 1 \in 1..Len(seqs) /\ k + 1 \in Nat /\ (k + 1) + 1 <= Len(seqs)
      BY <2>2
    <3>2. PICK row, col : InOrder(f[k + 1], seqs, k + 1, row, col)
      BY <2>4, <3>1
    <3>3. f[k + 1] \in Seq(T)
      BY <3>1
    <3>4. f[(k + 1) + 1] = f[k + 1] \o seqs[(k + 1) + 1]
      <4>1. (k + 1) + 1 \in 2..Len(seqs) /\ ((k + 1) + 1) - 1 = k + 1
        BY <2>2
      <4> QED
        BY <2>1, <4>1
    <3> HIDE DEF P
    <3> QED
      BY <3>1, <3>2, <3>3, <3>4, InOrderNext
  <2> HIDE DEF P
  <2>5. 0 \in N /\ \A k \in Nat : k \in N => k + 1 \in N
    BY <2>3, <2>4
  <2>6. Len(seqs) - 1 \in N
    <3>1. Len(seqs) - 1 \in Nat
      BY <2>2
    <3> HIDE DEF N
    <3> QED
      BY <2>5, <3>1, Induction
  <2>7. \E row, col : InOrder(f[Len(seqs)], seqs, Len(seqs), row, col)
    <3>1. P(Len(seqs) - 1)
      BY <2>6
    <3>2. (Len(seqs) - 1) + 1 = Len(seqs) /\ Len(seqs) \in 1..Len(seqs)
      BY <2>2
    <3> QED
      BY <3>1, <3>2 DEF P
  <2>8. f[Len(seqs)] \in Seq(T)
    BY SMTT(40), <2>2
  <2> QED
    BY <2>1, <2>7, <2>8
<1> QED
  BY <1>1, <1>2

\* It returns the elements of the sequences, and no others.
LEMMA FlattenRange ==
  ASSUME NEW T, NEW seqs \in Seq(Seq(T))
  PROVE  /\ FlattenSeq(seqs) \in Seq(T)
         /\ \A x : x \in Range(FlattenSeq(seqs)) <=> \E i \in 1..Len(seqs) : x \in Range(seqs[i])
<1> DEFINE F == FlattenSeq(seqs)
<1>1. PICK row, col : InOrder(F, seqs, Len(seqs), row, col)
  BY FlattenInOrder
<1>2. F \in Seq(T)
  BY FlattenInOrder
<1>3. \A i \in 1..Len(seqs) : seqs[i] \in Seq(T)
  OBVIOUS
<1> HIDE DEF F
<1>4. ASSUME NEW x \in Range(F) PROVE \E i \in 1..Len(seqs) : x \in Range(seqs[i])
  <2>1. PICK j \in 1..Len(F) : x = F[j]
    BY <1>2, RangeFacts
  <2>2. row[j] \in 1..Len(seqs) /\ col[j] \in 1..Len(seqs[row[j]]) /\ x = seqs[row[j]][col[j]]
    BY <1>1, <2>1 DEF InOrder
  <2> QED
    BY <1>3, <2>2 DEF Range
<1>5. ASSUME NEW i \in 1..Len(seqs), NEW x \in Range(seqs[i]) PROVE x \in Range(F)
  <2>1. PICK p \in 1..Len(seqs[i]) : x = seqs[i][p]
    <3>1. seqs[i] \in Seq(T)
      BY <1>3
    <3> QED
      BY <3>1, RangeFacts
  <2>2. PICK j \in 1..Len(F) : row[j] = i /\ col[j] = p
    BY <1>1 DEF InOrder
  <2>3. x = F[j]
    BY <1>1, <2>1, <2>2 DEF InOrder
  <2> QED
    BY <1>2, <2>3 DEF Range
<1> QED
  BY <1>2, <1>4, <1>5 DEF F

-----------------------------------------------------------------------------
(* FoldLeft *)

\* Max and Min return the greatest and the least element.
LEMMA MaxFacts ==
  ASSUME NEW n \in Nat, NEW S \in SUBSET (1..n), S # {}
  PROVE  Max(S) \in S /\ \A i \in S : i <= Max(S)
<1> DEFINE U == {m \in Nat : \A i \in S : i <= m}
<1>1. U \in SUBSET Nat /\ n \in U
  OBVIOUS
<1>2. PICK m \in U : \A k \in U : m <= k
  <2> HIDE DEF U
  <2> QED
    BY <1>1, LeastNumber
<1>3. m \in S
  <2> SUFFICES ASSUME m \notin S PROVE FALSE
    OBVIOUS
  <2>1. PICK i \in S : TRUE
    OBVIOUS
  <2>2. i \in 1..n /\ i < m /\ m - 1 \in Nat
    BY <1>2
  <2>3. \A j \in S : j <= m - 1
    BY <1>2
  <2>4. m - 1 \in U
    BY <2>2, <2>3
  <2> QED
    BY <1>2, <2>4
<1>4. \E x \in S : \A y \in S : x >= y
  BY <1>2, <1>3
<1>5. Max(S) \in S /\ \A y \in S : Max(S) >= y
  BY <1>4 DEF Max
<1> QED
  BY <1>5

LEMMA MinFacts ==
  ASSUME NEW S \in SUBSET Nat, S # {}
  PROVE  Min(S) \in S /\ \A i \in S : Min(S) <= i
<1>1. \E x \in S : \A y \in S : x =< y
  BY LeastNumber
<1> QED
  BY <1>1 DEF Min

LEMMA MaxIs ==
  ASSUME NEW n \in Nat, NEW S \in SUBSET (1..n), n \in S
  PROVE  Max(S) = n
<1>1. Max(S) \in 1..n /\ n <= Max(S)
  BY MaxFacts
<1> QED
  BY <1>1

\* What FoldLeft makes of the elements of s at the positions S, where it starts
\* from b and g is what it makes of a value and an element.
ByFold(F, s, b, g) ==
  \A S \in SUBSET DOMAIN s :
    F[S] = IF S = {} THEN b ELSE g[<<F[S \ {Max(S)}], s[Max(S)]>>]

\* The function that FoldLeft chooses exists.
LEMMA FoldExists ==
  ASSUME NEW V, NEW T, NEW b \in V, NEW g \in [V \X T -> V], NEW s \in Seq(T)
  PROVE  \E F \in [SUBSET DOMAIN s -> V] : ByFold(F, s, b, g)
<1> DEFINE P(k) ==
      k <= Len(s) =>
        \E F \in [SUBSET (1..k) -> V] :
          \A S \in SUBSET (1..k) :
            F[S] = IF S = {} THEN b ELSE g[<<F[S \ {Max(S)}], s[Max(S)]>>]
           N == {k \in Nat : P(k)}
<1>1. Len(s) \in Nat /\ DOMAIN s = 1..Len(s) /\ \A i \in 1..Len(s) : s[i] \in T
  OBVIOUS
<1>2. P(0)
  <2> DEFINE F == [S \in SUBSET (1..0) |-> b]
  <2>1. F \in [SUBSET (1..0) -> V] /\ \A S \in SUBSET (1..0) : S = {} /\ F[S] = b
    OBVIOUS
  <2> QED
    BY <2>1
<1>3. ASSUME NEW k \in Nat, P(k) PROVE P(k + 1)
  <2> SUFFICES ASSUME k + 1 <= Len(s)
               PROVE  \E G \in [SUBSET (1..(k + 1)) -> V] :
                        \A S \in SUBSET (1..(k + 1)) :
                          G[S] = IF S = {} THEN b ELSE g[<<G[S \ {Max(S)}], s[Max(S)]>>]
    OBVIOUS
  <2>0. k <= Len(s)
    BY <1>1
  <2>1. PICK F \in [SUBSET (1..k) -> V] :
               \A S \in SUBSET (1..k) :
                 F[S] = IF S = {} THEN b ELSE g[<<F[S \ {Max(S)}], s[Max(S)]>>]
    <3> QED
      BY <1>3, <2>0, Zenon
  <2> DEFINE G == [S \in SUBSET (1..(k + 1)) |->
                     IF k + 1 \in S THEN g[<<F[S \ {k + 1}], s[k + 1]>>] ELSE F[S]]
  <2>2. \A S \in SUBSET (1..(k + 1)) : /\ S \ {k + 1} \in SUBSET (1..k)
                                       /\ k + 1 \notin S => S \in SUBSET (1..k)
                                       /\ \A x : S \ {x} \in SUBSET (1..(k + 1))
    <3>1. \A i \in 1..(k + 1) : i # k + 1 => i \in 1..k
      OBVIOUS
    <3> QED
      BY <3>1
  <2>3. s[k + 1] \in T
    BY <1>1
  <2>4. \A S \in SUBSET (1..(k + 1)) :
          /\ k + 1 \in S => G[S] = g[<<F[S \ {k + 1}], s[k + 1]>>]
          /\ k + 1 \notin S => G[S] = F[S]
    OBVIOUS
  <2>5. G \in [SUBSET (1..(k + 1)) -> V]
    <3>1. ASSUME NEW S \in SUBSET (1..(k + 1)) PROVE G[S] \in V
      <4>1. CASE k + 1 \in S
        <5>1. F[S \ {k + 1}] \in V
          BY <2>2
        <5>2. <<F[S \ {k + 1}], s[k + 1]>> \in V \X T
          BY <2>3, <5>1
        <5> QED
          BY <2>4, <4>1, <5>2
      <4>2. CASE k + 1 \notin S
        BY <2>2, <2>4, <4>2
      <4> QED
        BY <4>1, <4>2
    <3>2. G = [S \in SUBSET (1..(k + 1)) |-> G[S]]
      OBVIOUS
    <3> HIDE DEF G
    <3> QED
      BY <3>1, <3>2
  <2> HIDE DEF G
  <2>6. ASSUME NEW S \in SUBSET (1..(k + 1))
        PROVE  G[S] = IF S = {} THEN b ELSE g[<<G[S \ {Max(S)}], s[Max(S)]>>]
    <3>1. CASE k + 1 \in S
      <4>1. Max(S) = k + 1
        BY <3>1, MaxIs
      <4>2. G[S \ {k + 1}] = F[S \ {k + 1}]
        <5>1. S \ {k + 1} \in SUBSET (1..(k + 1)) /\ k + 1 \notin S \ {k + 1}
          BY <2>2
        <5> QED
          BY <2>4, <5>1
      <4> QED
        BY <2>4, <3>1, <4>1, <4>2
    <3>2. CASE k + 1 \notin S
      <4>1. S \in SUBSET (1..k)
        BY <2>2, <3>2
      <4>2. G[S \ {Max(S)}] = F[S \ {Max(S)}]
        <5>1. S \ {Max(S)} \in SUBSET (1..(k + 1)) /\ k + 1 \notin S \ {Max(S)}
          BY <2>2, <3>2
        <5> QED
          BY <2>4, <5>1
      <4> QED
        BY <2>1, <2>4, <3>2, <4>1, <4>2
    <3> QED
      BY <3>1, <3>2
  <2> QED
    BY <2>5, <2>6
<1> HIDE DEF P
<1>4. 0 \in N /\ \A k \in Nat : k \in N => k + 1 \in N
  BY <1>2, <1>3
<1>5. Len(s) \in N
  <2> HIDE DEF N
  <2> QED
    BY <1>1, <1>4, Induction
<1>6. PICK F \in [SUBSET (1..Len(s)) -> V] :
             \A S \in SUBSET (1..Len(s)) :
               F[S] = IF S = {} THEN b ELSE g[<<F[S \ {Max(S)}], s[Max(S)]>>]
  <2>1. P(Len(s)) /\ Len(s) <= Len(s)
    BY <1>1, <1>5
  <2> QED
    BY <2>1 DEF P
<1> QED
  BY <1>1, <1>6 DEF ByFold

\* The same as far as the values are known to be in V.
ByFoldIn(V, F, s, b, g) ==
  /\ F[{}] = b
  /\ \A S \in SUBSET DOMAIN s : S # {} /\ F[S \ {Max(S)}] \in V =>
       F[S] = g[<<F[S \ {Max(S)}], s[Max(S)]>>]

\* f has what was made of the first elements, for any number of them.
Successive(f, s, b, g) ==
  /\ f[0] = b
  /\ \A i \in 1..Len(s) : f[i] = g[<<f[i - 1], s[i]>>]

\* v is what comes out at the end.
Passes(V, s, b, g, v) ==
  \E f \in [0..Len(s) -> V] : Successive(f, s, b, g) /\ v = f[Len(s)]

\* FoldLeft goes through a sequence element by element.
LEMMA FoldSteps ==
  ASSUME NEW V, NEW T, NEW b \in V, NEW g \in [V \X T -> V], NEW s \in Seq(T),
         NEW F, ByFoldIn(V, F, s, b, g)
  PROVE  Passes(V, s, b, g, F[DOMAIN s])
<1>1. Len(s) \in Nat /\ DOMAIN s = 1..Len(s) /\ \A i \in 1..Len(s) : s[i] \in T
  OBVIOUS
<1>2. ASSUME NEW k \in Nat, k + 1 <= Len(s), F[1..k] \in V
      PROVE  F[1..(k + 1)] = g[<<F[1..k], s[k + 1]>>]
  <2> DEFINE S == 1..(k + 1)
  <2>1. S \in SUBSET DOMAIN s /\ k + 1 \in S /\ k + 1 \in Nat
    BY <1>1, <1>2
  <2>2. S \ {k + 1} = 1..k
    OBVIOUS
  <2>3. S \in SUBSET (1..(k + 1))
    OBVIOUS
  <2> HIDE DEF S
  <2>4. Max(S) = k + 1
    BY <2>1, <2>3, MaxIs
  <2>5. F[S] = g[<<F[S \ {k + 1}], s[k + 1]>>]
    BY <1>2, <2>1, <2>2, <2>4 DEF ByFoldIn
  <2> QED
    BY <2>2, <2>5 DEF S
<1> DEFINE P(k) == k <= Len(s) => F[1..k] \in V
           N == {k \in Nat : P(k)}
<1>3. F[1..0] = b
  <2>1. 1..0 = {}
    OBVIOUS
  <2> QED
    BY <2>1 DEF ByFoldIn
<1>4. P(0)
  BY <1>3
<1>5. ASSUME NEW k \in Nat, P(k) PROVE P(k + 1)
  <2> SUFFICES ASSUME k + 1 <= Len(s) PROVE F[1..(k + 1)] \in V
    OBVIOUS
  <2>1. F[1..k] \in V
    BY <1>1, <1>5
  <2>2. s[k + 1] \in T
    BY <1>1
  <2>3. <<F[1..k], s[k + 1]>> \in V \X T
    BY <2>1, <2>2
  <2> QED
    BY <1>2, <2>1, <2>3
<1> HIDE DEF P
<1>6. 0 \in N /\ \A k \in Nat : k \in N => k + 1 \in N
  BY <1>4, <1>5
<1>7. \A k \in 0..Len(s) : F[1..k] \in V
  <2>1. Nat \subseteq N
    <3> HIDE DEF N
    <3> QED
      BY <1>6, Induction
  <2> QED
    BY <1>1, <2>1 DEF P
<1> DEFINE f == [k \in 0..Len(s) |-> F[1..k]]
<1>8. f \in [0..Len(s) -> V] /\ f[0] = b /\ f[Len(s)] = F[DOMAIN s]
  BY <1>1, <1>3, <1>7
<1>9. \A i \in 1..Len(s) : f[i] = g[<<f[i - 1], s[i]>>]
  <2> SUFFICES ASSUME NEW i \in 1..Len(s) PROVE f[i] = g[<<f[i - 1], s[i]>>]
    OBVIOUS
  <2>1. i - 1 \in Nat /\ (i - 1) + 1 = i /\ i <= Len(s) /\ i - 1 \in 0..Len(s) /\ i \in 0..Len(s)
    BY <1>1
  <2>2. F[1..(i - 1)] \in V
    BY <1>7, <2>1
  <2>3. F[1..i] = g[<<F[1..(i - 1)], s[i]>>]
    BY <1>2, <2>1, <2>2
  <2> QED
    BY <2>1, <2>3
<1>10. F[DOMAIN s] = f[Len(s)]
  BY <1>1, <1>8
<1>11. f \in [0..Len(s) -> V] /\ Successive(f, s, b, g)
  BY <1>8, <1>9 DEF Successive
<1> QED
  BY <1>10, <1>11 DEF Passes

-----------------------------------------------------------------------------
(* Concatenation, and induction over texts *)

\* z is x and then y.
IsConcat(z, x, y) ==
  /\ Len(z) = Len(x) + Len(y)
  /\ \A i \in 1..Len(x) : z[i] = x[i]
  /\ \A i \in 1..Len(y) : z[Len(x) + i] = y[i]

LEMMA ConcatFacts ==
  ASSUME NEW Q, NEW x \in Seq(Q), NEW y \in Seq(Q)
  PROVE  IsConcat(x \o y, x, y)
BY DEF IsConcat

\* What holds of the empty text, and of a text and one more character if it
\* holds of the text, holds of all texts.
LEMMA TextInduction ==
  ASSUME NEW T, NEW Q, <<>> \in Q, \A s \in Seq(T), c \in T : s \in Q => Append(s, c) \in Q
  PROVE  Seq(T) \subseteq Q
<1> DEFINE N == {n \in Nat : \A s \in Seq(T) : Len(s) = n => s \in Q}
<1>1. 0 \in N
  <2>1. \A s \in Seq(T) : Len(s) = 0 => s = <<>>
    OBVIOUS
  <2> QED
    BY <2>1
<1>2. ASSUME NEW n \in Nat, n \in N PROVE n + 1 \in N
  <2> SUFFICES ASSUME NEW s \in Seq(T), Len(s) = n + 1 PROVE s \in Q
    OBVIOUS
  <2> DEFINE front == SubSeq(s, 1, n)
             c == s[n + 1]
  <2>1. front \in Seq(T) /\ Len(front) = n /\ c \in T /\ s = Append(front, c)
    OBVIOUS
  <2> HIDE DEF front, c
  <2> QED
    BY <1>2, <2>1
<1> HIDE DEF N
<1>3. Nat \subseteq N
  BY <1>1, <1>2, Induction
<1> QED
  BY <1>3 DEF N

LEMMA AppendStarts ==
  ASSUME NEW Q, NEW s \in Seq(Q), s # <<>>, NEW e \in Q
  PROVE  Head(Append(s, e)) = Head(s)
OBVIOUS
=============================================================================
