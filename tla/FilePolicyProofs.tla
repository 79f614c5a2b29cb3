--------------------------- MODULE FilePolicyProofs ---------------------------
(***************************************************************************)
(* What the operators on texts and globs return, for every text and glob.  *)
(***************************************************************************)
EXTENDS FilePolicy, SequenceLemmas

\* Only returns the elements that are in the set.
LEMMA OnlyFacts ==
  ASSUME NEW T, NEW s \in Seq(T), NEW S
  PROVE  Only(s, S) \in Seq(T \cap S) /\ Range(Only(s, S)) = Range(s) \cap S
<1> DEFINE seqs == [i \in DOMAIN s |-> IF s[i] \in S THEN <<s[i]>> ELSE <<>>]
<1>1. \A i \in DOMAIN s : s[i] \in T
  OBVIOUS
<1>2. DOMAIN seqs = 1..Len(s) /\ Len(s) \in Nat /\ DOMAIN s = 1..Len(s)
  OBVIOUS
<1>3. ASSUME NEW i \in 1..Len(s) PROVE seqs[i] \in Seq(T \cap S)
  <2>1. CASE s[i] \in S
    <3>1. seqs[i] = <<s[i]>>
      BY <1>2, <2>1
    <3>2. <<s[i]>> \in Seq(T \cap S)
      BY <1>1, <1>2, <2>1
    <3> HIDE DEF seqs
    <3> QED
      BY <3>1, <3>2
  <2>2. CASE s[i] \notin S
    <3>1. seqs[i] = <<>>
      BY <1>2, <2>2
    <3> HIDE DEF seqs
    <3> QED
      BY <3>1
  <2> QED
    BY <2>1, <2>2
<1>4. \A i \in 1..Len(s) : Range(seqs[i]) = {s[i]} \cap S
  <2> SUFFICES ASSUME NEW i \in 1..Len(s) PROVE Range(seqs[i]) = {s[i]} \cap S
    OBVIOUS
  <2>1. CASE s[i] \in S
    <3>1. seqs[i] = <<s[i]>>
      BY <1>2, <2>1
    <3> QED
      BY SMTT(40), <2>1, <3>1 DEF Range
  <2>2. CASE s[i] \notin S
    <3>1. seqs[i] = <<>>
      BY <1>2, <2>2
    <3> QED
      BY <2>2, <3>1 DEF Range
  <2> QED
    BY <2>1, <2>2
<1>5. Only(s, S) = FlattenSeq(seqs)
  BY DEF Only
<1> HIDE DEF seqs
<1>6. seqs \in Seq(Seq(T \cap S)) /\ Len(seqs) = Len(s)
  <2>1. seqs = [i \in 1..Len(s) |-> seqs[i]]
    BY <1>2 DEF seqs
  <2>2. seqs \in [1..Len(s) -> Seq(T \cap S)]
    BY <1>3, <2>1
  <2> QED
    BY <1>2, <2>2
<1>7. /\ FlattenSeq(seqs) \in Seq(T \cap S)
      /\ \A x : x \in Range(FlattenSeq(seqs)) <=> \E i \in 1..Len(seqs) : x \in Range(seqs[i])
  BY <1>6, FlattenRange
<1>8. \A x : x \in Range(s) <=> \E i \in 1..Len(s) : x = s[i]
  BY <1>2 DEF Range
<1>9. \A x : x \in Range(Only(s, S)) <=> x \in Range(s) \cap S
  BY <1>4, <1>5, <1>6, <1>7, <1>8
<1> QED
  BY <1>5, <1>7, <1>9

-----------------------------------------------------------------------------
(* Folders of a path *)

\* A path lies below a folder that it continues after a slash.
LEMMA BelowFacts ==
  ASSUME NEW T, NEW d \in Seq(T), NEW f \in Seq(T)
  PROVE  IsPrefix(Slashed(d), f) <=>
           /\ Len(d) + 1 <= Len(f)
           /\ \A i \in 1..Len(d) : f[i] = d[i]
           /\ f[Len(d) + 1] = "/"
<1> DEFINE U == T \cup {"/"}
           e == Slashed(d)
<1>1. d \in Seq(U) /\ f \in Seq(U) /\ "/" \in U /\ Len(d) \in Nat /\ Len(f) \in Nat
  OBVIOUS
<1>2. /\ e \in Seq(U) /\ Len(e) = Len(d) + 1
      /\ \A i \in 1..Len(d) : e[i] = d[i]
      /\ e[Len(d) + 1] = "/"
  BY <1>1 DEF Slashed
<1> HIDE DEF U, e
<1>3. SubSeq(e, 1, Len(e)) = e
  BY <1>2
<1>4. ASSUME Len(e) <= Len(f)
      PROVE  /\ SubSeq(f, 1, Len(e)) \in Seq(U) /\ Len(SubSeq(f, 1, Len(e))) = Len(e)
             /\ \A i \in 1..Len(e) : SubSeq(f, 1, Len(e))[i] = f[i]
  BY <1>1, <1>2, <1>4
<1>5. ASSUME Len(e) <= Len(f)
      PROVE  SubSeq(f, 1, Len(e)) = e <=> \A i \in 1..Len(e) : f[i] = e[i]
  BY <1>1, <1>2, <1>4, <1>5
<1>6. (\A i \in 1..Len(e) : f[i] = e[i])
        <=> (\A i \in 1..Len(d) : f[i] = d[i]) /\ f[Len(d) + 1] = "/"
  BY <1>1, <1>2
<1> QED
  BY <1>2, <1>3, <1>5, <1>6 DEF IsPrefix, e

\* The text before the last slash.
LEMMA LastSlash ==
  ASSUME NEW T, NEW s \in Seq(T), NEW n \in 1..Len(s), s[n] = "/",
         \A i \in 1..Len(s) : s[i] = "/" => i <= n
  PROVE  BeforeLastSlash(s) = SubSeq(s, 1, n - 1)
<1> DEFINE I == {i \in 1..Len(s) : s[i] = "/"}
<1>1. n \in I /\ \A i \in I : n >= i /\ i \in Nat
  OBVIOUS
<1> HIDE DEF I
<1>2. Max(I) = n
  <2>1. Max(I) \in I /\ \A i \in I : Max(I) >= i
    BY <1>1 DEF Max
  <2>2. Max(I) <= n /\ Max(I) >= n /\ n \in Nat /\ Max(I) \in Nat
    BY <1>1, <2>1
  <2> QED
    BY <2>2
<1>3. SelectLastInSeq(s, LAMBDA c : c = "/") = n
  BY <1>1, <1>2 DEF SelectLastInSeq, I
<1> QED
  BY <1>3 DEF BeforeLastSlash

-----------------------------------------------------------------------------
(* The pieces of a text *)

\* What Split makes of the pieces before and the next character.
SplitStep(pieces, c) ==
  IF c = "/" THEN Append(pieces, <<>>)
             ELSE Append(Front(pieces), Append(Last(pieces), c))

Pieces(T) == {pieces \in Seq(Seq(T)) : pieces # <<>>}

LEMMA SplitStepType ==
  ASSUME NEW T, NEW pieces \in Pieces(T), NEW c \in T
  PROVE  SplitStep(pieces, c) \in Pieces(T)
<1>1. pieces \in Seq(Seq(T)) /\ Len(pieces) \in Nat /\ Len(pieces) >= 1
  BY DEF Pieces
<1>2. CASE c = "/"
  BY <1>1, <1>2 DEF SplitStep, Pieces
<1>3. CASE c # "/"
  <2> DEFINE front == Front(pieces)
             last == Append(Last(pieces), c)
  <2>1. front \in Seq(Seq(T))
    BY <1>1 DEF Front
  <2>2. last \in Seq(T)
    BY <1>1 DEF Last
  <2>3. SplitStep(pieces, c) = Append(front, last)
    BY <1>3 DEF SplitStep
  <2> HIDE DEF front, last
  <2>4. Append(front, last) \in Seq(Seq(T)) /\ Len(Append(front, last)) = Len(front) + 1
        /\ Len(front) \in Nat
    BY <2>1, <2>2
  <2>5. Append(front, last) # <<>>
    BY <2>1, <2>2, AppendProperties
  <2> QED
    BY <2>3, <2>4, <2>5 DEF Pieces
<1> QED
  BY <1>2, <1>3

\* Split goes through a text character by character.
LEMMA SplitSteps ==
  ASSUME NEW T, NEW s \in Seq(T)
  PROVE  \E f \in [0..Len(s) -> Pieces(T)] :
           /\ f[0] = << <<>> >>
           /\ \A i \in 1..Len(s) : f[i] = SplitStep(f[i - 1], s[i])
           /\ Split(s) = f[Len(s)]
<1> DEFINE D == DOMAIN s
           b == << <<>> >>
           g == [x \in Pieces(T) \X T |-> SplitStep(x[1], x[2])]
           Step(F) == [S \in SUBSET D |->
                         IF S = {} THEN b ELSE SplitStep(F[S \ {Max(S)}], s[Max(S)])]
           chosen == CHOOSE F : F = Step(F)
           V == Pieces(T)
<1>1. Len(s) \in Nat /\ D = 1..Len(s) /\ \A i \in 1..Len(s) : s[i] \in T
  OBVIOUS
<1>2. Split(s) = chosen[D]
  BY DEF Split, FoldLeft, MapThenFoldSet, SplitStep
<1>3. b \in V
  BY DEF Pieces
<1>4. g \in [V \X T -> V] /\ \A v \in V, c \in T : g[<<v, c>>] = SplitStep(v, c)
  BY SplitStepType
<1> HIDE DEF V, g, b
<1>5. PICK F \in [SUBSET D -> V] : ByFold(F, s, b, g)
  <2>1. g \in [V \X T -> V]
    BY <1>4
  <2>2. \E F \in [SUBSET DOMAIN s -> V] : ByFold(F, s, b, g)
    BY <1>3, <2>1, FoldExists
  <2> QED
    BY <2>2
<1>6. ASSUME NEW S \in SUBSET D, S # {} PROVE Max(S) \in S
  BY <1>1, <1>6, MaxFacts
<1>7. F = Step(F)
  <2>1. ASSUME NEW S \in SUBSET D, S # {}
        PROVE  g[<<F[S \ {Max(S)}], s[Max(S)]>>] = SplitStep(F[S \ {Max(S)}], s[Max(S)])
    <3>1. Max(S) \in 1..Len(s)
      BY <1>1, <1>6, <2>1
    <3>2. s[Max(S)] \in T /\ F[S \ {Max(S)}] \in V
      BY <1>1, <3>1
    <3> QED
      BY <1>4, <3>2
  <2>2. \A S \in SUBSET D : F[S] = IF S = {} THEN b ELSE g[<<F[S \ {Max(S)}], s[Max(S)]>>]
    BY <1>5 DEF ByFold
  <2>3. F = [S \in SUBSET D |-> F[S]]
    OBVIOUS
  <2> QED
    BY <2>1, <2>2, <2>3
<1>8. chosen = Step(chosen)
  <2> HIDE DEF Step
  <2> QED
    BY <1>7
<1> HIDE DEF chosen, D
<1>9. chosen[{}] = b
  <2>1. {} \in SUBSET D
    OBVIOUS
  <2> QED
    BY <1>8, <2>1
<1>10. ASSUME NEW S \in SUBSET D, S # {}, chosen[S \ {Max(S)}] \in V
       PROVE  chosen[S] = g[<<chosen[S \ {Max(S)}], s[Max(S)]>>]
  <2>1. Max(S) \in 1..Len(s)
    BY <1>1, <1>6, <1>10
  <2>2. chosen[S] = SplitStep(chosen[S \ {Max(S)}], s[Max(S)])
    BY <1>8, <1>10
  <2> QED
    BY <1>1, <1>4, <1>10, <2>1, <2>2
<1>11. PICK f \in [0..Len(s) -> V] : Successive(f, s, b, g) /\ chosen[D] = f[Len(s)]
  <2>1. g \in [V \X T -> V]
    BY <1>4
  <2>2. ByFoldIn(V, chosen, s, b, g)
    BY <1>9, <1>10 DEF D, ByFoldIn
  <2> HIDE DEF chosen
  <2>3. Passes(V, s, b, g, chosen[DOMAIN s])
    BY <1>3, <2>1, <2>2, FoldSteps
  <2> QED
    BY <2>3 DEF D, Passes
<1>12. \A i \in 1..Len(s) : f[i] = SplitStep(f[i - 1], s[i])
  <2> SUFFICES ASSUME NEW i \in 1..Len(s) PROVE f[i] = SplitStep(f[i - 1], s[i])
    OBVIOUS
  <2>1. i - 1 \in 0..Len(s)
    BY <1>1
  <2>2. f[i - 1] \in V /\ s[i] \in T
    BY <1>1, <1>11, <2>1
  <2> QED
    BY <1>4, <1>11, <2>2 DEF Successive
<1> QED
  BY <1>2, <1>11, <1>12 DEF V, b, Successive

\* The pieces of a text are texts, at least one.
LEMMA SplitType ==
  ASSUME NEW T, NEW s \in Seq(T)
  PROVE  Split(s) \in Pieces(T)
<1>1. PICK f \in [0..Len(s) -> Pieces(T)] : Split(s) = f[Len(s)]
  BY SplitSteps
<1>2. Len(s) \in 0..Len(s)
  OBVIOUS
<1> QED
  BY <1>1, <1>2

-----------------------------------------------------------------------------
(* Normal paths *)

LEMMA JoinType ==
  ASSUME NEW T, "/" \in T, NEW pieces \in Seq(Seq(T)), pieces # <<>>
  PROVE  Join(pieces) \in Seq(T)
<1> DEFINE seqs == [i \in DOMAIN pieces |-> <<"/">> \o pieces[i]]
<1>1. /\ DOMAIN pieces = 1..Len(pieces) /\ Len(pieces) \in Nat /\ Len(pieces) >= 1
      /\ \A i \in 1..Len(pieces) : pieces[i] \in Seq(T)
  OBVIOUS
<1>2. ASSUME NEW i \in 1..Len(pieces) PROVE seqs[i] \in Seq(T) /\ "/" \in Range(seqs[i])
  <2> DEFINE p == <<"/">> \o pieces[i]
  <2>1. p \in Seq(T) /\ Len(p) >= 1 /\ p[1] = "/"
    BY <1>1
  <2>2. seqs[i] = p
    BY <1>1
  <2> HIDE DEF p, seqs
  <2>3. 1 \in DOMAIN p
    BY <2>1
  <2> QED
    BY <2>1, <2>2, <2>3 DEF Range
<1>3. seqs = [i \in 1..Len(pieces) |-> seqs[i]]
  BY <1>1
<1>4. Join(pieces) = Tail(FlattenSeq(seqs))
  BY DEF Join
<1> HIDE DEF seqs
<1>5. seqs \in Seq(Seq(T)) /\ Len(seqs) = Len(pieces)
  <2>1. seqs \in [1..Len(pieces) -> Seq(T)]
    BY <1>2, <1>3
  <2> QED
    BY <1>1, <2>1
<1>6. /\ FlattenSeq(seqs) \in Seq(T)
      /\ \A x : x \in Range(FlattenSeq(seqs)) <=> \E i \in 1..Len(seqs) : x \in Range(seqs[i])
  BY <1>5, FlattenRange
<1>7. "/" \in Range(FlattenSeq(seqs))
  <2>1. 1 \in 1..Len(seqs) /\ 1 \in 1..Len(pieces)
    BY <1>1, <1>5
  <2> QED
    BY <1>2, <1>6, <2>1
<1>8. FlattenSeq(seqs) # <<>>
  BY <1>7 DEF Range
<1> QED
  BY <1>4, <1>6, <1>8

LEMMA ForwardType ==
  ASSUME NEW T, NEW g \in Seq(T)
  PROVE  Forward(g) \in Seq(T \cup {"/"})
<1> DEFINE U == T \cup {"/"}
           s == Forward(g)
<1>1. \A i \in 1..Len(g) : g[i] \in T
  OBVIOUS
<1>2. s = [i \in 1..Len(g) |-> IF g[i] = "\\" THEN "/" ELSE g[i]]
  BY DEF Forward, ReplaceAll
<1>3. \A i \in 1..Len(g) : (IF g[i] = "\\" THEN "/" ELSE g[i]) \in U
  BY <1>1
<1> HIDE DEF U, s
<1>4. s \in [1..Len(g) -> U] /\ Len(g) \in Nat
  BY <1>2, <1>3
<1>5. s \in Seq(U)
  BY <1>4
<1> QED
  BY <1>5 DEF s, U

\* A normal path is a text below the root, or the root.
LEMMA NormalText ==
  ASSUME NEW T, NEW g \in Seq(T), NormalizeApiPath(g) # Refused
  PROVE  /\ NormalizeApiPath(g) \in Seq(T \cup {"/"})
         /\ \/ NormalizeApiPath(g) = Root
            \/ IsPrefix(Slashed(Root), NormalizeApiPath(g))
<1> DEFINE U == T \cup {"/"}
           s == Forward(g)
           parts == Without(Split(s), {<<>>, Dot})
<1>1. "/" \in U
  OBVIOUS
<1>2. s \in Seq(U)
  BY ForwardType
<1> HIDE DEF U, s
<1>3. parts \in Seq(Seq(U))
  <2> DEFINE S == Range(Split(s)) \ {<<>>, Dot}
  <2>1. Split(s) \in Seq(Seq(U))
    BY <1>2, SplitType DEF Pieces
  <2>2. parts = Only(Split(s), S)
    BY DEF Without
  <2> HIDE DEF S, parts
  <2>3. Only(Split(s), S) \in Seq(Seq(U) \cap S)
    BY <2>1, OnlyFacts
  <2> DEFINE Q == Seq(U)
  <2>4. Q \cap S \subseteq Q /\ parts \in Seq(Q \cap S)
    BY <2>2, <2>3
  <2> HIDE DEF Q
  <2>5. parts \in Seq(Q)
    BY <2>4
  <2> QED
    BY <2>5 DEF Q
<1>4. Lead(s) \in Seq(U)
  <2>1. Lead(s) \in {<<"/", "/">>, <<"/">>, <<>>}
    BY DEF Lead
  <2>2. <<"/", "/">> \in Seq(U) /\ <<"/">> \in Seq(U) /\ <<>> \in Seq(U)
    BY <1>1
  <2> QED
    BY <2>1, <2>2
<1> HIDE DEF parts
<1>5. parts # <<>> => Lead(s) \o Join(parts) \in Seq(U)
  <2> SUFFICES ASSUME parts # <<>> PROVE Lead(s) \o Join(parts) \in Seq(U)
    OBVIOUS
  <2> DEFINE j == Join(parts)
             l == Lead(s)
  <2>1. j \in Seq(U) /\ l \in Seq(U)
    BY <1>1, <1>3, <1>4, JoinType
  <2> HIDE DEF j, l
  <2>2. l \o j \in Seq(U)
    BY <2>1
  <2> QED
    BY <2>2 DEF j, l
<1>6. Posix(s) \in Seq(U)
  BY <1>4, <1>5 DEF Posix, parts
<1>7. /\ NormalizeApiPath(g) = Posix(s)
      /\ Posix(s) = Root \/ IsPrefix(Slashed(Root), Posix(s))
  BY DEF NormalizeApiPath, s
<1> QED
  BY <1>6, <1>7 DEF U

-----------------------------------------------------------------------------
(* Expressions *)

\* Two stars come next.
Doubled(g, i) == i < Len(g) /\ SubSeq(g, i, i + 1) = <<"*", "*">>

Piece(c) == IF c = "*" THEN "[^/]*" ELSE IF c = "?" THEN "[^/]" ELSE c

\* The expression of the text from i on is that of the text after the next
\* character, or after the next two, behind what they become.
IsTranslation(f, g) ==
  f = [i \in 1..(Len(g) + 1) |->
         IF i > Len(g) THEN <<>>
         ELSE IF Doubled(g, i) THEN <<".*">> \o f[i + 2]
         ELSE <<Piece(g[i])>> \o f[i + 1]]

LEMMA TranslationExists ==
  ASSUME NEW T, NEW g \in Seq(T)
  PROVE  \E f : IsTranslation(f, g)
<1> DEFINE L == Len(g)
           Q == Seq(T \cup Wild)
           V == Q \X Q
           b == << <<>>, <<>> >>
           Value(v, i) == IF Doubled(g, i) THEN <<".*">> \o v[2] ELSE <<Piece(g[i])>> \o v[1]
           step == [x \in V \X Nat |->
                      IF (L + 2) - x[2] \in 1..L
                        THEN <<Value(x[1], (L + 2) - x[2]), x[1][1]>> ELSE x[1]]
<1>1. L \in Nat /\ \A i \in 1..L : g[i] \in T
  OBVIOUS
<1> HIDE DEF L
<1>2. ASSUME NEW v \in V, NEW i \in 1..L PROVE Value(v, i) \in Q
  <2>1. v[1] \in Q /\ v[2] \in Q
    OBVIOUS
  <2>2. Piece(g[i]) \in T \cup Wild /\ ".*" \in T \cup Wild
    BY <1>1 DEF Piece, Wild
  <2>3. ASSUME NEW e \in T \cup Wild, NEW q \in Q PROVE <<e>> \o q \in Q
    OBVIOUS
  <2> HIDE DEF Q
  <2> QED
    BY <2>1, <2>2, <2>3
<1>3. b \in V
  <2>1. <<>> \in Q
    OBVIOUS
  <2> HIDE DEF Q
  <2> QED
    BY <2>1
<1>4. /\ step \in [V \X Nat -> V]
      /\ \A v \in V, t \in Nat : (L + 2) - t \in 1..L =>
           step[<<v, t>>] = <<Value(v, (L + 2) - t), v[1]>>
  <2> HIDE DEF Value
  <2>1. ASSUME NEW x \in V \X Nat
        PROVE  (IF (L + 2) - x[2] \in 1..L
                  THEN <<Value(x[1], (L + 2) - x[2]), x[1][1]>> ELSE x[1]) \in V
    <3>1. x[1] \in V /\ x[1][1] \in Q
      OBVIOUS
    <3> HIDE DEF Q
    <3> QED
      BY <1>2, <3>1
  <2>2. step \in [V \X Nat -> V]
    <3> HIDE DEF V
    <3> QED
      BY <2>1
  <2>3. ASSUME NEW v \in V, NEW t \in Nat, (L + 2) - t \in 1..L
        PROVE  step[<<v, t>>] = <<Value(v, (L + 2) - t), v[1]>>
    <3>1. <<v, t>> \in V \X Nat /\ <<v, t>>[1] = v /\ <<v, t>>[2] = t
      OBVIOUS
    <3> HIDE DEF V
    <3> QED
      BY <2>3, <3>1
  <2> QED
    BY <2>2, <2>3
<1> HIDE DEF V, step, b
<1>5. PICK f \in [1..(L + 1) -> V] : ByRecursion(f, L + 1, b, step)
  <2>1. step \in [V \X Nat -> V] /\ L + 1 \in Nat
    BY <1>1, <1>4
  <2> QED
    BY <1>3, <2>1, RecursionExists
<1>6. /\ f[1] = b
      /\ \A t \in 2..(L + 1) : f[t] = <<Value(f[t - 1], (L + 2) - t), f[t - 1][1]>>
  <2>1. 1 \in 1..(L + 1)
    BY <1>1
  <2>2. ASSUME NEW t \in 2..(L + 1)
        PROVE  f[t] = <<Value(f[t - 1], (L + 2) - t), f[t - 1][1]>>
    <3>1. t \in 1..(L + 1) /\ t # 1 /\ t - 1 \in 1..(L + 1) /\ t \in Nat /\ (L + 2) - t \in 1..L
      BY <1>1
    <3>2. f[t] = step[<<f[t - 1], t>>] /\ f[t - 1] \in V
      BY <1>5, <3>1 DEF ByRecursion
    <3> HIDE DEF Value
    <3> QED
      BY <1>4, <3>1, <3>2
  <2> QED
    BY <1>5, <2>1, <2>2 DEF ByRecursion
<1> DEFINE h == [i \in 1..(L + 1) |-> f[(L + 2) - i][1]]
<1>7. ASSUME NEW i \in 1..(L + 1)
      PROVE  h[i] = IF i > L THEN <<>>
                    ELSE IF Doubled(g, i) THEN <<".*">> \o h[i + 2]
                    ELSE <<Piece(g[i])>> \o h[i + 1]
  <2>1. CASE i = L + 1
    <3>1. (L + 2) - i = 1 /\ i > L
      BY <1>1, <2>1
    <3> QED
      BY <1>6, <3>1 DEF b
  <2>2. CASE i \in 1..L
    <3> DEFINE t == (L + 2) - i
    <3>1. /\ t \in 2..(L + 1) /\ (L + 2) - t = i /\ t - 1 = (L + 2) - (i + 1)
          /\ i + 1 \in 1..(L + 1) /\ ~(i > L)
      BY <1>1, <2>2
    <3>2. h[i + 1] = f[t - 1][1] /\ h[i] = f[t][1]
      BY <3>1
    <3> HIDE DEF t
    <3>3. h[i] = Value(f[t - 1], i)
      <4> HIDE DEF Value, h
      <4> QED
        BY <1>6, <3>1, <3>2
    <3>4. CASE Doubled(g, i)
      <4>1. i < L
        BY <3>4 DEF Doubled, L
      <4>2. t - 1 \in 2..(L + 1) /\ (t - 1) - 1 = (L + 2) - (i + 2) /\ i + 2 \in 1..(L + 1)
        BY <1>1, <2>2, <4>1 DEF t
      <4>3. f[t - 1][2] = f[(t - 1) - 1][1]
        <5> HIDE DEF Value
        <5> QED
          BY <1>6, <4>2
      <4>4. h[i + 2] = f[t - 1][2]
        BY <4>2, <4>3
      <4> HIDE DEF h
      <4> QED
        BY <3>1, <3>3, <3>4, <4>4
    <3>5. CASE ~Doubled(g, i)
      <4> HIDE DEF h
      <4> QED
        BY <3>1, <3>2, <3>3, <3>5
    <3> QED
      BY <3>4, <3>5
  <2> QED
    BY <1>1, <2>1, <2>2
<1>8. IsTranslation(h, g)
  <2>1. h = [i \in 1..(L + 1) |-> h[i]]
    OBVIOUS
  <2> HIDE DEF h
  <2> QED
    BY <1>7, <2>1 DEF IsTranslation, L
<1> QED
  BY <1>8

\* GlobToRegex is a translation, of texts into texts.
LEMMA GlobSteps ==
  ASSUME NEW T, NEW g \in Seq(T)
  PROVE  \E f \in [1..(Len(g) + 1) -> Seq(T \cup Wild)] :
           IsTranslation(f, g) /\ GlobToRegex(g) = f[1]
<1> DEFINE L == Len(g)
           chosen == CHOOSE f : IsTranslation(f, g)
<1>1. GlobToRegex(g) = chosen[1]
  BY DEF GlobToRegex, IsTranslation, Doubled, Piece
<1>2. IsTranslation(chosen, g)
  BY TranslationExists
<1> HIDE DEF chosen
<1>3. L \in Nat /\ \A i \in 1..L : g[i] \in T
  OBVIOUS
<1>4. /\ chosen = [i \in 1..(L + 1) |-> chosen[i]]
      /\ \A i \in 1..(L + 1) :
           chosen[i] = IF i > L THEN <<>>
                       ELSE IF Doubled(g, i) THEN <<".*">> \o chosen[i + 2]
                       ELSE <<Piece(g[i])>> \o chosen[i + 1]
  BY <1>2 DEF IsTranslation
<1> HIDE DEF L
<1> DEFINE Q == Seq(T \cup Wild)
           P(k) == k <= L => chosen[(L + 1) - k] \in Q
                             /\ (k # 0 => chosen[(L + 2) - k] \in Q)
           N == {k \in Nat : P(k)}
<1>5. P(0)
  <2>1. (L + 1) - 0 = L + 1 /\ L + 1 \in 1..(L + 1) /\ L + 1 > L
    BY <1>3
  <2>2. chosen[L + 1] = <<>>
    BY <1>4, <2>1
  <2>3. <<>> \in Q
    OBVIOUS
  <2> HIDE DEF Q
  <2> QED
    BY <2>1, <2>2, <2>3
<1>6. ASSUME NEW k \in Nat, P(k) PROVE P(k + 1)
  <2> SUFFICES ASSUME k + 1 <= L
               PROVE  chosen[(L + 1) - (k + 1)] \in Q /\ chosen[(L + 2) - (k + 1)] \in Q
    OBVIOUS
  <2> DEFINE i == L - k
  <2>1. /\ i \in 1..L /\ (L + 1) - (k + 1) = i /\ (L + 2) - (k + 1) = i + 1
        /\ (L + 1) - k = i + 1 /\ (L + 2) - k = i + 2 /\ i \in 1..(L + 1) /\ ~(i > L)
        /\ k <= L /\ (i < L => k # 0)
    BY <1>3
  <2> HIDE DEF i, Q
  <2>2. chosen[i + 1] \in Q /\ (i < L => chosen[i + 2] \in Q)
    BY <1>6, <2>1
  <2>3. Doubled(g, i) => i < L
    BY DEF Doubled, L
  <2>4. Piece(g[i]) \in T \cup Wild /\ ".*" \in T \cup Wild
    BY <1>3, <2>1 DEF Piece, Wild
  <2>5. ASSUME NEW e \in T \cup Wild, NEW q \in Q PROVE <<e>> \o q \in Q
    BY DEF Q
  <2>6. chosen[i] \in Q
    BY <1>4, <2>1, <2>2, <2>3, <2>4, <2>5
  <2> QED
    BY <2>1, <2>2, <2>6
<1> HIDE DEF P
<1>7. 0 \in N /\ \A k \in Nat : k \in N => k + 1 \in N
  BY <1>5, <1>6
<1>8. \A k \in Nat : P(k)
  <2>1. Nat \subseteq N
    <3> HIDE DEF N
    <3> QED
      BY <1>7, Induction
  <2> QED
    BY <2>1
<1>9. ASSUME NEW i \in 1..(L + 1) PROVE chosen[i] \in Q
  <2>1. (L + 1) - i \in Nat /\ (L + 1) - i <= L /\ (L + 1) - ((L + 1) - i) = i
    BY <1>3
  <2> HIDE DEF Q
  <2> QED
    BY <1>8, <2>1 DEF P
<1> QED
  BY <1>1, <1>2, <1>4, <1>9 DEF L, Q

\* Up to its first wildcard, a glob is its own expression.
LEMMA LiteralExpression ==
  ASSUME NEW T, NEW g \in Seq(T), NEW k \in 0..Len(g),
         \A i \in 1..k : g[i] \notin {"*", "?"}
  PROVE  /\ GlobToRegex(g) \in Seq(T \cup Wild)
         /\ Len(GlobToRegex(g)) >= k
         /\ \A i \in 1..k : GlobToRegex(g)[i] = g[i]
         /\ k = Len(g) => Len(GlobToRegex(g)) = k
<1> DEFINE L == Len(g)
           R == T \cup Wild
<1>1. L \in Nat /\ \A i \in 1..L : g[i] \in T
  OBVIOUS
<1> HIDE DEF L, R
<1>2. PICK f \in [1..(L + 1) -> Seq(R)] : IsTranslation(f, g) /\ GlobToRegex(g) = f[1]
  BY GlobSteps DEF L, R
<1>3. ASSUME NEW i \in 1..k PROVE f[i] = <<g[i]>> \o f[i + 1]
  <2>1. i \in 1..L /\ i \in 1..(L + 1) /\ ~(i > L)
    BY <1>1 DEF L
  <2>2. ~Doubled(g, i)
    <3> SUFFICES ASSUME i < L, SubSeq(g, i, i + 1) = <<"*", "*">> PROVE FALSE
      BY DEF Doubled, L
    <3> DEFINE u == SubSeq(g, i, i + 1)
    <3>1. u[1] = g[i]
      BY <1>1, <2>1 DEF L
    <3>2. u = <<"*", "*">>
      OBVIOUS
    <3> HIDE DEF u
    <3>3. u[1] = "*"
      BY <3>2
    <3> QED
      BY <3>1, <3>3
  <2>3. Piece(g[i]) = g[i]
    BY DEF Piece
  <2> QED
    BY <1>2, <2>1, <2>2, <2>3 DEF IsTranslation, L
<1>4. f[L + 1] = <<>>
  <2>1. L + 1 \in 1..(L + 1) /\ L + 1 > L
    BY <1>1
  <2> QED
    BY <1>2, <2>1 DEF IsTranslation, L
<1> DEFINE P(m) == m <= k => /\ Len(f[1]) = m + Len(f[m + 1])
                             /\ \A i \in 1..m : f[1][i] = g[i]
                             /\ \A i \in 1..Len(f[m + 1]) : f[1][m + i] = f[m + 1][i]
           N == {m \in Nat : P(m)}
<1>5. \A i \in 1..(L + 1) : f[i] \in Seq(R) /\ Len(f[i]) \in Nat
  BY <1>2
<1>6. P(0)
  <2>1. 1 \in 1..(L + 1) /\ 0 + 1 = 1
    BY <1>1
  <2> QED
    BY <1>5, <2>1
<1>7. ASSUME NEW m \in Nat, P(m) PROVE P(m + 1)
  <2> SUFFICES ASSUME m + 1 <= k
               PROVE  /\ Len(f[1]) = (m + 1) + Len(f[(m + 1) + 1])
                      /\ \A i \in 1..(m + 1) : f[1][i] = g[i]
                      /\ \A i \in 1..Len(f[(m + 1) + 1]) :
                           f[1][(m + 1) + i] = f[(m + 1) + 1][i]
    OBVIOUS
  <2> DEFINE a == f[1]
             p == f[m + 1]
             q == f[(m + 1) + 1]
  <2>1. m <= k /\ m + 1 \in 1..k /\ k <= L /\ k \in Nat
        /\ m + 1 \in 1..(L + 1) /\ (m + 1) + 1 \in 1..(L + 1)
    BY <1>1 DEF L
  <2>2. p = <<g[m + 1]>> \o q /\ q \in Seq(R) /\ Len(q) \in Nat
    BY <1>3, <1>5, <2>1
  <2>3. Len(a) = m + Len(p) /\ (\A i \in 1..m : a[i] = g[i])
        /\ \A i \in 1..Len(p) : a[m + i] = p[i]
    BY <1>7, <2>1
  <2>4. g[m + 1] \in R
    BY <1>1, <2>1 DEF R
  <2> HIDE DEF a, p, q
  <2>5. Len(p) = 1 + Len(q) /\ p[1] = g[m + 1] /\ \A i \in 1..Len(q) : p[i + 1] = q[i]
    BY <2>2, <2>4
  <2>6. Len(a) = (m + 1) + Len(q)
    BY <2>2, <2>3, <2>5
  <2>7. ASSUME NEW i \in 1..(m + 1) PROVE a[i] = g[i]
    <3>1. CASE i \in 1..m
      BY <2>3, <3>1
    <3>2. CASE i = m + 1
      <4>1. 1 \in 1..Len(p)
        BY <2>2, <2>5
      <4> QED
        BY <2>3, <2>5, <3>2, <4>1
    <3> QED
      BY <3>1, <3>2
  <2>8. ASSUME NEW i \in 1..Len(q) PROVE a[(m + 1) + i] = q[i]
    <3>1. i + 1 \in 1..Len(p) /\ m + (i + 1) = (m + 1) + i
      BY <2>2, <2>5
    <3> QED
      BY <2>3, <2>5, <3>1
  <2> QED
    BY <2>6, <2>7, <2>8 DEF a, q
<1> HIDE DEF P
<1>8. 0 \in N /\ \A m \in Nat : m \in N => m + 1 \in N
  BY <1>6, <1>7
<1>9. P(k)
  <2>1. Nat \subseteq N
    <3> HIDE DEF N
    <3> QED
      BY <1>8, Induction
  <2>2. k \in Nat
    OBVIOUS
  <2> QED
    BY <2>1, <2>2
<1>10. /\ Len(f[1]) = k + Len(f[k + 1]) /\ \A i \in 1..k : f[1][i] = g[i]
       /\ Len(f[k + 1]) \in Nat /\ k \in Nat
  <2>1. k + 1 \in 1..(L + 1) /\ k <= k
    BY <1>1 DEF L
  <2> QED
    BY <1>5, <1>9, <2>1 DEF P
<1>11. f[1] \in Seq(R)
  <2>1. 1 \in 1..(L + 1)
    BY <1>1
  <2> QED
    BY <1>2, <2>1
<1>12. k = L => Len(f[k + 1]) = 0
  BY <1>4
<1> QED
  BY <1>2, <1>10, <1>11, <1>12 DEF L, R

-----------------------------------------------------------------------------
(* Matching *)

IsStar(r) == r \in {".*", "[^/]*"}

\* What FullMatch says of the pieces from i on and the characters from j on.
MatchStep(h, regex, s, i, j) ==
  IF i > Len(regex) THEN j > Len(s)
  ELSE IF regex[i] \in {".*", "[^/]*"}
    THEN \/ h[<<i + 1, j>>]
         \/ /\ j <= Len(s)
            /\ StarTakes(regex[i], s[j])
            /\ h[<<i, j + 1>>]
    ELSE /\ j <= Len(s)
         /\ PieceTakes(regex[i], s[j])
         /\ h[<<i + 1, j + 1>>]

IsMatching(h, regex, s) ==
  h = [x \in (1..(Len(regex) + 1)) \X (1..(Len(s) + 1)) |->
         MatchStep(h, regex, s, x[1], x[2])]

\* A piece takes the characters from a to before b.
Share(r, s, a, b) ==
  IF IsStar(r) THEN a <= b /\ \A q \in a..(b - 1) : StarTakes(r, s[q])
  ELSE b = a + 1 /\ PieceTakes(r, s[a])

\* The text from j on can be cut so that the pieces from i on have their shares.
CanCut(regex, s, i, j) ==
  \E cut \in [i..(Len(regex) + 1) -> 1..(Len(s) + 1)] :
    /\ cut[i] = j /\ cut[Len(regex) + 1] = Len(s) + 1
    /\ \A k \in i..Len(regex) : Share(regex[k], s, cut[k], cut[k + 1])

\* The first of these pieces has its share, and the others theirs.
LEMMA CutOnce ==
  ASSUME NEW T, NEW regex \in Seq(T), NEW s \in Seq(T),
         NEW i \in 1..Len(regex), NEW j \in 1..(Len(s) + 1)
  PROVE  CanCut(regex, s, i, j)
           <=> \E b \in 1..(Len(s) + 1) : Share(regex[i], s, j, b) /\ CanCut(regex, s, i + 1, b)
<1> DEFINE R == Len(regex)
           S == Len(s)
<1>1. R \in Nat /\ S \in Nat /\ i \in 1..R /\ j \in 1..(S + 1)
  OBVIOUS
<1> HIDE DEF R, S
<1>2. ASSUME NEW b \in 1..(S + 1),
             Share(regex[i], s, j, b), CanCut(regex, s, i + 1, b)
      PROVE  CanCut(regex, s, i, j)
  <2>1. PICK cut \in [(i + 1)..(R + 1) -> 1..(S + 1)] :
               /\ cut[i + 1] = b /\ cut[R + 1] = S + 1
               /\ \A k \in (i + 1)..R : Share(regex[k], s, cut[k], cut[k + 1])
    BY <1>2 DEF CanCut, R, S
  <2> DEFINE c == [k \in i..(R + 1) |-> IF k = i THEN j ELSE cut[k]]
  <2>2. /\ c[i] = j
        /\ \A k \in (i + 1)..(R + 1) : c[k] = cut[k]
        /\ c \in [i..(R + 1) -> 1..(S + 1)]
    BY <1>1
  <2> HIDE DEF c
  <2>3. c[i + 1] = b /\ c[R + 1] = S + 1
    BY <1>1, <2>1, <2>2
  <2>4. ASSUME NEW k \in i..R PROVE Share(regex[k], s, c[k], c[k + 1])
    <3>1. CASE k = i
      BY <1>2, <2>2, <2>3, <3>1
    <3>2. CASE k \in (i + 1)..R
      <4>1. k \in (i + 1)..(R + 1) /\ k + 1 \in (i + 1)..(R + 1)
        BY <1>1, <3>2
      <4> QED
        BY <2>1, <2>2, <3>2, <4>1
    <3> QED
      BY <1>1, <3>1, <3>2
  <2> QED
    BY <2>2, <2>3, <2>4 DEF CanCut, R, S
<1>3. ASSUME CanCut(regex, s, i, j)
      PROVE  \E b \in 1..(S + 1) : Share(regex[i], s, j, b) /\ CanCut(regex, s, i + 1, b)
  <2>1. PICK cut \in [i..(R + 1) -> 1..(S + 1)] :
               /\ cut[i] = j /\ cut[R + 1] = S + 1
               /\ \A k \in i..R : Share(regex[k], s, cut[k], cut[k + 1])
    BY <1>3 DEF CanCut, R, S
  <2> DEFINE c == [k \in (i + 1)..(R + 1) |-> cut[k]]
  <2>2. /\ \A k \in (i + 1)..(R + 1) : c[k] = cut[k]
        /\ c \in [(i + 1)..(R + 1) -> 1..(S + 1)]
    BY <1>1
  <2> HIDE DEF c
  <2>3. i \in i..R /\ i + 1 \in (i + 1)..(R + 1) /\ i + 1 \in i..(R + 1) /\ R + 1 \in (i + 1)..(R + 1)
    BY <1>1
  <2>4. ASSUME NEW k \in (i + 1)..R PROVE Share(regex[k], s, c[k], c[k + 1])
    <3>1. k \in (i + 1)..(R + 1) /\ k + 1 \in (i + 1)..(R + 1) /\ k \in i..R
      BY <1>1
    <3> QED
      BY <2>1, <2>2, <3>1
  <2>5. CanCut(regex, s, i + 1, c[i + 1])
    BY <2>1, <2>2, <2>3, <2>4 DEF CanCut, R, S
  <2>6. c[i + 1] = cut[i + 1] /\ cut[i + 1] \in 1..(S + 1)
    BY <2>1, <2>2, <2>3
  <2>7. Share(regex[i], s, j, cut[i + 1])
    BY <2>1, <2>3
  <2> QED
    BY <2>5, <2>6, <2>7
<1> QED
  BY <1>2, <1>3 DEF S

Cuts(regex, s) ==
  [x \in (1..(Len(regex) + 1)) \X (1..(Len(s) + 1)) |-> CanCut(regex, s, x[1], x[2])]

\* Where a text can be cut is what FullMatch can choose.
LEMMA CutsAreMatching ==
  ASSUME NEW T, NEW regex \in Seq(T), NEW s \in Seq(T)
  PROVE  IsMatching(Cuts(regex, s), regex, s)
<1> DEFINE R == Len(regex)
           S == Len(s)
           h == Cuts(regex, s)
<1>1. R \in Nat /\ S \in Nat
  OBVIOUS
<1> HIDE DEF R, S
<1>2. ASSUME NEW i \in 1..R, NEW j \in 1..(S + 1), NEW b \in 1..(S + 1),
             Share(regex[i], s, j, b), CanCut(regex, s, i + 1, b)
      PROVE  CanCut(regex, s, i, j)
  BY <1>2, CutOnce DEF R, S
<1>3. ASSUME NEW i \in 1..R, NEW j \in 1..(S + 1), CanCut(regex, s, i, j)
      PROVE  \E b \in 1..(S + 1) : Share(regex[i], s, j, b) /\ CanCut(regex, s, i + 1, b)
  BY <1>3, CutOnce DEF R, S
<1>4. \A i \in 1..(R + 1), j \in 1..(S + 1) : h[<<i, j>>] = CanCut(regex, s, i, j)
  BY DEF Cuts, R, S
<1> HIDE DEF h
<1>5. ASSUME NEW i \in 1..(R + 1), NEW j \in 1..(S + 1)
      PROVE  CanCut(regex, s, i, j) <=> MatchStep(h, regex, s, i, j)
  <2>1. CASE i = R + 1
    <3>1. CanCut(regex, s, i, j) <=> j = S + 1
      <4>1. ASSUME j = S + 1 PROVE CanCut(regex, s, i, j)
        <5> DEFINE c == [k \in i..(R + 1) |-> S + 1]
        <5>1. /\ c \in [i..(R + 1) -> 1..(S + 1)] /\ c[i] = j /\ c[R + 1] = S + 1
              /\ i..R = {}
          BY <1>1, <2>1, <4>1
        <5> HIDE DEF c
        <5> QED
          BY <5>1 DEF CanCut, R, S
      <4>2. ASSUME CanCut(regex, s, i, j) PROVE j = S + 1
        BY <2>1, <4>2 DEF CanCut, R, S
      <4> QED
        BY <4>1, <4>2
    <3>2. MatchStep(h, regex, s, i, j) <=> j = S + 1
      BY <1>1, <2>1 DEF MatchStep, IsStar, R, S
    <3> QED
      BY <3>1, <3>2
  <2>2. CASE i \in 1..R /\ ~IsStar(regex[i])
    <3>1. MatchStep(h, regex, s, i, j) <=>
            j <= S /\ PieceTakes(regex[i], s[j]) /\ h[<<i + 1, j + 1>>]
      BY <1>1, <2>2 DEF MatchStep, IsStar, R, S
    <3>2. \A b \in 1..(S + 1) :
            Share(regex[i], s, j, b) <=> b = j + 1 /\ PieceTakes(regex[i], s[j])
      BY <2>2 DEF Share
    <3>3. i + 1 \in 1..(R + 1) /\ (j <= S <=> j + 1 \in 1..(S + 1))
      BY <1>1, <2>2
    <3>4. j <= S => h[<<i + 1, j + 1>>] = CanCut(regex, s, i + 1, j + 1)
      BY <1>4, <3>3
    <3> QED
      BY <1>2, <1>3, <2>2, <3>1, <3>2, <3>3, <3>4
  <2>3. CASE i \in 1..R /\ IsStar(regex[i])
    <3>1. MatchStep(h, regex, s, i, j) <=>
            h[<<i + 1, j>>] \/ (j <= S /\ StarTakes(regex[i], s[j]) /\ h[<<i, j + 1>>])
      BY <1>1, <2>3 DEF MatchStep, IsStar, R, S
    <3>2. \A a, b \in 1..(S + 1) :
            Share(regex[i], s, a, b)
              <=> a <= b /\ \A q \in a..(b - 1) : StarTakes(regex[i], s[q])
      BY <2>3 DEF Share
    <3>3. i + 1 \in 1..(R + 1) /\ (j <= S => j + 1 \in 1..(S + 1))
      BY <1>1, <2>3
    <3>4. h[<<i + 1, j>>] = CanCut(regex, s, i + 1, j)
          /\ (j <= S => h[<<i, j + 1>>] = CanCut(regex, s, i, j + 1))
      BY <1>4, <3>3
    <3>5. ASSUME CanCut(regex, s, i + 1, j) PROVE CanCut(regex, s, i, j)
      <4>1. Share(regex[i], s, j, j)
        <5>1. j..(j - 1) = {}
          OBVIOUS
        <5> QED
          BY <3>2, <5>1
      <4> QED
        BY <1>2, <2>3, <3>5, <4>1
    <3>6. ASSUME j <= S, StarTakes(regex[i], s[j]), CanCut(regex, s, i, j + 1)
          PROVE  CanCut(regex, s, i, j)
      <4>1. PICK b \in 1..(S + 1) : Share(regex[i], s, j + 1, b) /\ CanCut(regex, s, i + 1, b)
        BY <1>3, <2>3, <3>3, <3>6
      <4>2. j + 1 <= b /\ \A q \in (j + 1)..(b - 1) : StarTakes(regex[i], s[q])
        BY <3>2, <3>3, <3>6, <4>1
      <4>3. \A q \in j..(b - 1) : q = j \/ q \in (j + 1)..(b - 1)
        OBVIOUS
      <4>4. Share(regex[i], s, j, b)
        BY <3>2, <3>6, <4>2, <4>3
      <4> QED
        BY <1>2, <2>3, <4>1, <4>4
    <3>7. ASSUME CanCut(regex, s, i, j), ~CanCut(regex, s, i + 1, j)
          PROVE  j <= S /\ StarTakes(regex[i], s[j]) /\ CanCut(regex, s, i, j + 1)
      <4>1. PICK b \in 1..(S + 1) : Share(regex[i], s, j, b) /\ CanCut(regex, s, i + 1, b)
        BY <1>3, <2>3, <3>7
      <4>2. j <= b /\ b # j /\ \A q \in j..(b - 1) : StarTakes(regex[i], s[q])
        BY <3>2, <3>7, <4>1
      <4>3. j <= S /\ j \in j..(b - 1) /\ j + 1 <= b /\ (j + 1)..(b - 1) \subseteq j..(b - 1)
        BY <1>1, <4>2
      <4>4. Share(regex[i], s, j + 1, b)
        BY <3>2, <3>3, <4>2, <4>3
      <4> QED
        BY <1>2, <2>3, <3>3, <4>1, <4>2, <4>3, <4>4
    <3> QED
      BY <3>1, <3>4, <3>5, <3>6, <3>7
  <2> QED
    BY <1>1, <2>1, <2>2, <2>3
<1>6. IsMatching(h, regex, s)
  <2>1. \A i \in 1..(R + 1), j \in 1..(S + 1) :
          CanCut(regex, s, i, j) = MatchStep(h, regex, s, i, j)
    <3>1. \A i, j : CanCut(regex, s, i, j) \in BOOLEAN
      BY DEF CanCut
    <3>2. ASSUME NEW i \in 1..(R + 1), NEW j \in 1..(S + 1)
          PROVE  MatchStep(h, regex, s, i, j) \in BOOLEAN
      <4>1. CASE i > Len(regex)
        <5>1. MatchStep(h, regex, s, i, j) = (j > Len(s))
          BY <4>1 DEF MatchStep
        <5>2. (j > Len(s)) \in BOOLEAN
          BY <1>1 DEF S
        <5> QED
          BY <5>1, <5>2
      <4>2. CASE ~(i > Len(regex)) /\ regex[i] \in {".*", "[^/]*"}
        <5>1. MatchStep(h, regex, s, i, j) = 
                (h[<<i + 1, j>>] \/ (j <= Len(s) /\ StarTakes(regex[i], s[j]) /\ h[<<i, j + 1>>]))
          BY <4>2 DEF MatchStep
        <5> QED
          BY <5>1
      <4>3. CASE ~(i > Len(regex)) /\ regex[i] \notin {".*", "[^/]*"}
        <5>1. MatchStep(h, regex, s, i, j) =
                (j <= Len(s) /\ PieceTakes(regex[i], s[j]) /\ h[<<i + 1, j + 1>>])
          BY <4>3 DEF MatchStep
        <5> QED
          BY <5>1
      <4> QED
        BY <4>1, <4>2, <4>3
    <3> QED
      BY <1>5, <3>1, <3>2
  <2>2. \A x \in (1..(R + 1)) \X (1..(S + 1)) :
          CanCut(regex, s, x[1], x[2]) = MatchStep(h, regex, s, x[1], x[2])
    BY <2>1
  <2>3. h = [x \in (1..(R + 1)) \X (1..(S + 1)) |-> CanCut(regex, s, x[1], x[2])]
    BY DEF h, Cuts, R, S
  <2>4. h = [x \in (1..(R + 1)) \X (1..(S + 1)) |-> MatchStep(h, regex, s, x[1], x[2])]
    BY <2>2, <2>3
  <2> QED
    BY <2>4 DEF IsMatching, R, S
<1> QED
  BY <1>6 DEF h

\* What FullMatch chooses goes on piece by piece.
LEMMA MatchSteps ==
  ASSUME NEW T, NEW regex \in Seq(T), NEW s \in Seq(T)
  PROVE  \E h : /\ FullMatch(regex, s) = h[<<1, 1>>]
                /\ \A i \in 1..(Len(regex) + 1), j \in 1..(Len(s) + 1) :
                     h[<<i, j>>] = MatchStep(h, regex, s, i, j)
<1> DEFINE chosen == CHOOSE h : IsMatching(h, regex, s)
<1>1. FullMatch(regex, s) = chosen[<<1, 1>>]
  BY DEF FullMatch, IsMatching, MatchStep
<1>2. IsMatching(chosen, regex, s)
  BY CutsAreMatching
<1> HIDE DEF chosen
<1>3. \A i \in 1..(Len(regex) + 1), j \in 1..(Len(s) + 1) :
        chosen[<<i, j>>] = MatchStep(chosen, regex, s, i, j)
  BY <1>2 DEF IsMatching
<1> QED
  BY <1>1, <1>3

\* A text matches an expression if and only if it can be cut.
LEMMA MatchIsCut ==
  ASSUME NEW T, NEW regex \in Seq(T), NEW s \in Seq(T)
  PROVE  FullMatch(regex, s) <=> CanCut(regex, s, 1, 1)
<1> DEFINE R == Len(regex)
           S == Len(s)
           c == Cuts(regex, s)
<1>1. R \in Nat /\ S \in Nat
  OBVIOUS
<1>2. PICK h : /\ FullMatch(regex, s) = h[<<1, 1>>]
               /\ \A i \in 1..(R + 1), j \in 1..(S + 1) :
                    h[<<i, j>>] = MatchStep(h, regex, s, i, j)
  BY MatchSteps
<1>3. \A i \in 1..(R + 1), j \in 1..(S + 1) :
        /\ c[<<i, j>>] = MatchStep(c, regex, s, i, j)
        /\ c[<<i, j>>] = CanCut(regex, s, i, j)
  <2>1. IsMatching(c, regex, s)
    BY CutsAreMatching
  <2>2. \A i \in 1..(R + 1), j \in 1..(S + 1) : c[<<i, j>>] = CanCut(regex, s, i, j)
    BY DEF Cuts
  <2> HIDE DEF c
  <2>3. \A i \in 1..(R + 1), j \in 1..(S + 1) : c[<<i, j>>] = MatchStep(c, regex, s, i, j)
    BY <2>1 DEF IsMatching
  <2> QED
    BY <2>2, <2>3
<1> HIDE DEF R, S, c
<1> DEFINE P(k) == \A i \in 1..(R + 1), j \in 1..(S + 1) :
                     (R + 1 - i) + (S + 1 - j) <= k => (h[<<i, j>>] <=> c[<<i, j>>])
           N == {k \in Nat : P(k)}
<1>4. ASSUME NEW i \in 1..(R + 1), NEW j \in 1..(S + 1),
             i <= R => (h[<<i + 1, j>>] <=> c[<<i + 1, j>>]),
             j <= S => (h[<<i, j + 1>>] <=> c[<<i, j + 1>>]),
             i <= R /\ j <= S => (h[<<i + 1, j + 1>>] <=> c[<<i + 1, j + 1>>])
      PROVE  h[<<i, j>>] <=> c[<<i, j>>]
  <2>1. MatchStep(h, regex, s, i, j) <=> MatchStep(c, regex, s, i, j)
    BY <1>1, <1>4 DEF MatchStep, R, S
  <2> QED
    BY <1>2, <1>3, <2>1
<1>5. P(0)
  <2> SUFFICES ASSUME NEW i \in 1..(R + 1), NEW j \in 1..(S + 1), (R + 1 - i) + (S + 1 - j) <= 0
               PROVE  h[<<i, j>>] <=> c[<<i, j>>]
    OBVIOUS
  <2>1. i = R + 1 /\ j = S + 1
    BY <1>1
  <2>2. ~(i <= R) /\ ~(j <= S)
    BY <1>1, <2>1
  <2> QED
    BY <1>4, <2>2
<1>6. ASSUME NEW k \in Nat, P(k) PROVE P(k + 1)
  <2> SUFFICES ASSUME NEW i \in 1..(R + 1), NEW j \in 1..(S + 1),
                      (R + 1 - i) + (S + 1 - j) <= k + 1
               PROVE  h[<<i, j>>] <=> c[<<i, j>>]
    OBVIOUS
  <2>1. i <= R => i + 1 \in 1..(R + 1) /\ (R + 1 - (i + 1)) + (S + 1 - j) <= k
    BY <1>1
  <2>2. j <= S => j + 1 \in 1..(S + 1) /\ (R + 1 - i) + (S + 1 - (j + 1)) <= k
    BY <1>1
  <2>3. i <= R /\ j <= S => (R + 1 - (i + 1)) + (S + 1 - (j + 1)) <= k
    BY <1>1
  <2> QED
    BY <1>4, <1>6, <2>1, <2>2, <2>3
<1> HIDE DEF P
<1>7. 0 \in N /\ \A k \in Nat : k \in N => k + 1 \in N
  BY <1>5, <1>6
<1>8. P(R + S)
  <2>1. Nat \subseteq N
    <3> HIDE DEF N
    <3> QED
      BY <1>7, Induction
  <2> QED
    BY <1>1, <2>1
<1>9. h[<<1, 1>>] <=> c[<<1, 1>>]
  <2>1. 1 \in 1..(R + 1) /\ 1 \in 1..(S + 1) /\ (R + 1 - 1) + (S + 1 - 1) <= R + S
    BY <1>1
  <2> QED
    BY <1>8, <2>1 DEF P
<1>10. c[<<1, 1>>] = CanCut(regex, s, 1, 1)
  <2>1. 1 \in 1..(R + 1) /\ 1 \in 1..(S + 1)
    BY <1>1
  <2> QED
    BY <1>3, <2>1
<1> QED
  BY <1>2, <1>9, <1>10

\* A text from j on can be cut for an expression.
FitsFrom(regex, s, j) == CanCut(regex, s, 1, j)

LEMMA FitsEnd ==
  ASSUME NEW U, NEW s \in Seq(U), NEW j \in 1..(Len(s) + 1)
  PROVE  FitsFrom(<<>>, s, j) <=> j = Len(s) + 1
<1> DEFINE e == <<>>
           S == Len(s)
<1>1. Len(e) = 0 /\ S \in Nat
  OBVIOUS
<1> HIDE DEF e
<1>2. ASSUME FitsFrom(e, s, j) PROVE j = S + 1
  BY <1>1, <1>2 DEF FitsFrom, CanCut
<1>3. ASSUME j = S + 1 PROVE FitsFrom(e, s, j)
  <2> DEFINE cut == [i \in 1..(0 + 1) |-> j]
  <2>1. S + 1 \in 1..(S + 1) /\ 1 \in 1..(0 + 1) /\ 0 + 1 = 1 /\ 1..0 = {}
    BY <1>1
  <2>2. cut \in [1..(0 + 1) -> 1..(S + 1)] /\ cut[1] = S + 1
    BY <1>3, <2>1
  <2> HIDE DEF cut
  <2> QED
    BY <1>1, <1>3, <2>1, <2>2 DEF FitsFrom, CanCut
<1> QED
  BY <1>2, <1>3 DEF e

\* A piece more before an expression.
LEMMA FitsNext ==
  ASSUME NEW T, NEW x \in Seq(T), NEW r \in T, NEW s \in Seq(T), NEW j \in 1..(Len(s) + 1)
  PROVE  FitsFrom(<<r>> \o x, s, j)
           <=> \E b \in 1..(Len(s) + 1) : Share(r, s, j, b) /\ FitsFrom(x, s, b)
<1> DEFINE y == <<r>> \o x
           n == Len(x)
           S == Len(s)
<1>1. /\ y \in Seq(T) /\ n \in Nat /\ Len(y) = n + 1 /\ y[1] = r
      /\ \A i \in 1..n : y[i + 1] = x[i]
  OBVIOUS
<1> HIDE DEF y
<1>2. CanCut(y, s, 1, j)
        <=> \E b \in 1..(S + 1) : Share(y[1], s, j, b) /\ CanCut(y, s, 1 + 1, b)
  <2>1. 1 \in 1..Len(y)
    BY <1>1
  <2> QED
    BY <1>1, <2>1, CutOnce
<1> HIDE DEF n, S
<1>3. ASSUME NEW b \in 1..(S + 1) PROVE CanCut(y, s, 1 + 1, b) <=> CanCut(x, s, 1, b)
  <2>1. ASSUME CanCut(y, s, 1 + 1, b) PROVE CanCut(x, s, 1, b)
    <3>1. PICK cut \in [(1 + 1)..((n + 1) + 1) -> 1..(S + 1)] :
                 /\ cut[1 + 1] = b /\ cut[(n + 1) + 1] = S + 1
                 /\ \A k \in (1 + 1)..(n + 1) : Share(y[k], s, cut[k], cut[k + 1])
      BY <1>1, <2>1 DEF CanCut, S
    <3> DEFINE c == [k \in 1..(n + 1) |-> cut[k + 1]]
    <3>2. \A k \in 1..(n + 1) : k + 1 \in (1 + 1)..((n + 1) + 1) /\ c[k] = cut[k + 1]
      BY <1>1
    <3>3. c \in [1..(n + 1) -> 1..(S + 1)]
      BY <3>2
    <3> HIDE DEF c
    <3>4. c[1] = b /\ c[n + 1] = S + 1
      BY <1>1, <3>1, <3>2
    <3>5. ASSUME NEW k \in 1..n PROVE Share(x[k], s, c[k], c[k + 1])
      <4>1. k \in 1..(n + 1) /\ k + 1 \in 1..(n + 1) /\ k + 1 \in (1 + 1)..(n + 1)
        BY <1>1
      <4>2. c[k] = cut[k + 1] /\ c[k + 1] = cut[(k + 1) + 1] /\ y[k + 1] = x[k]
        BY <1>1, <3>2, <4>1
      <4>3. Share(y[k + 1], s, cut[k + 1], cut[(k + 1) + 1])
        BY <3>1, <4>1
      <4> QED
        BY <4>2, <4>3
    <3> QED
      BY <3>3, <3>4, <3>5 DEF CanCut, n, S
  <2>2. ASSUME CanCut(x, s, 1, b) PROVE CanCut(y, s, 1 + 1, b)
    <3>1. PICK cut \in [1..(n + 1) -> 1..(S + 1)] :
                 /\ cut[1] = b /\ cut[n + 1] = S + 1
                 /\ \A k \in 1..n : Share(x[k], s, cut[k], cut[k + 1])
      BY <2>2 DEF CanCut, n, S
    <3> DEFINE c == [k \in (1 + 1)..((n + 1) + 1) |-> cut[k - 1]]
    <3>2. \A k \in (1 + 1)..((n + 1) + 1) : k - 1 \in 1..(n + 1) /\ c[k] = cut[k - 1]
      BY <1>1
    <3>3. c \in [(1 + 1)..((n + 1) + 1) -> 1..(S + 1)]
      BY <3>2
    <3> HIDE DEF c
    <3>4. c[1 + 1] = b /\ c[(n + 1) + 1] = S + 1
      <4>1. 1 + 1 \in (1 + 1)..((n + 1) + 1) /\ (n + 1) + 1 \in (1 + 1)..((n + 1) + 1)
            /\ (1 + 1) - 1 = 1 /\ ((n + 1) + 1) - 1 = n + 1
        BY <1>1
      <4> QED
        BY <3>1, <3>2, <4>1
    <3>5. ASSUME NEW k \in (1 + 1)..(n + 1) PROVE Share(y[k], s, c[k], c[k + 1])
      <4> n \in Nat
        BY <1>1
      <4>1. /\ k \in (1 + 1)..((n + 1) + 1) /\ k + 1 \in (1 + 1)..((n + 1) + 1)
            /\ k - 1 \in 1..n /\ (k - 1) + 1 = k /\ (k + 1) - 1 = k
        OBVIOUS
      <4>2. c[k] = cut[k - 1] /\ c[k + 1] = cut[k] /\ y[k] = x[k - 1]
        BY <1>1, <3>2, <4>1
      <4>3. Share(x[k - 1], s, cut[k - 1], cut[(k - 1) + 1])
        BY <3>1, <4>1
      <4> QED
        BY <4>1, <4>2, <4>3
    <3> QED
      BY <1>1, <3>3, <3>4, <3>5 DEF CanCut, S
  <2> QED
    BY <2>1, <2>2
<1> QED
  BY <1>1, <1>2, <1>3 DEF FitsFrom, y, S

\* A text that matches a glob starts with what the glob has before its first
\* wildcard, and is the glob if it has none.
LEMMA MatchesLiterally ==
  ASSUME NEW T, Wild \cap T = {}, NEW g \in Seq(T), NEW U, NEW p \in Seq(U),
         FullMatch(GlobToRegex(g), p),
         NEW k \in 0..Len(g), \A i \in 1..k : g[i] \notin {"*", "?"}
  PROVE  /\ k <= Len(p) /\ \A i \in 1..k : p[i] = g[i]
         /\ k = Len(g) => p = g
<1> DEFINE regex == GlobToRegex(g)
<1>1. /\ regex \in Seq(T \cup Wild) /\ Len(regex) >= k /\ Len(regex) \in Nat
      /\ \A i \in 1..k : regex[i] = g[i]
      /\ k = Len(g) => Len(regex) = k
  <2>1. /\ regex \in Seq(T \cup Wild) /\ Len(regex) >= k
        /\ \A i \in 1..k : regex[i] = g[i]
        /\ k = Len(g) => Len(regex) = k
    BY LiteralExpression
  <2> HIDE DEF regex
  <2> QED
    BY <2>1
<1>2. Len(p) \in Nat /\ k \in Nat /\ Len(g) \in Nat /\ \A i \in 1..k : g[i] \in T
  OBVIOUS
<1> HIDE DEF regex
<1>3. PICK h : /\ FullMatch(regex, p) = h[<<1, 1>>]
               /\ \A i \in 1..(Len(regex) + 1), j \in 1..(Len(p) + 1) :
                    h[<<i, j>>] = MatchStep(h, regex, p, i, j)
  <2> DEFINE A == T \cup Wild \cup U
  <2>1. p \in Seq(A) /\ regex \in Seq(A)
    BY <1>1
  <2> HIDE DEF A
  <2> QED
    BY <2>1, MatchSteps
<1>4. h[<<1, 1>>]
  BY <1>3 DEF regex
<1> DEFINE P(m) == m <= k => /\ m <= Len(p) /\ h[<<m + 1, m + 1>>]
                             /\ \A i \in 1..m : p[i] = g[i]
           N == {m \in Nat : P(m)}
<1>5. P(0)
  <2>1. 0 + 1 = 1
    OBVIOUS
  <2> QED
    BY <1>2, <1>4, <2>1
<1>6. ASSUME NEW m \in Nat, P(m) PROVE P(m + 1)
  <2> SUFFICES ASSUME m + 1 <= k
               PROVE  /\ m + 1 <= Len(p) /\ h[<<(m + 1) + 1, (m + 1) + 1>>]
                      /\ \A i \in 1..(m + 1) : p[i] = g[i]
    OBVIOUS
  <2>1. m <= Len(p) /\ h[<<m + 1, m + 1>>] /\ \A i \in 1..m : p[i] = g[i]
    BY <1>2, <1>6
  <2>2. m + 1 \in 1..k /\ m + 1 \in 1..(Len(regex) + 1) /\ m + 1 \in 1..(Len(p) + 1)
        /\ ~(m + 1 > Len(regex))
    BY <1>1, <1>2, <2>1
  <2>3. MatchStep(h, regex, p, m + 1, m + 1)
    BY <1>3, <2>1, <2>2
  <2>4. regex[m + 1] = g[m + 1] /\ g[m + 1] \in T
    BY <1>1, <1>2, <2>2
  <2>5. regex[m + 1] \notin Wild
    BY <2>4
  <2>6. ~IsStar(regex[m + 1]) /\ regex[m + 1] # "[^/]"
    BY <2>5 DEF IsStar, Wild
  <2>7. /\ m + 1 <= Len(p) /\ PieceTakes(regex[m + 1], p[m + 1])
        /\ h[<<(m + 1) + 1, (m + 1) + 1>>]
    BY <2>2, <2>3, <2>6 DEF MatchStep, IsStar
  <2>8. p[m + 1] = g[m + 1]
    BY <2>4, <2>6, <2>7 DEF PieceTakes
  <2>9. \A i \in 1..(m + 1) : i \in 1..m \/ i = m + 1
    OBVIOUS
  <2> QED
    BY <2>1, <2>7, <2>8, <2>9
<1> HIDE DEF P
<1>7. 0 \in N /\ \A m \in Nat : m \in N => m + 1 \in N
  BY <1>5, <1>6
<1>8. P(k)
  <2>1. Nat \subseteq N
    <3> HIDE DEF N
    <3> QED
      BY <1>7, Induction
  <2> QED
    BY <1>2, <2>1
<1>9. k <= Len(p) /\ h[<<k + 1, k + 1>>] /\ \A i \in 1..k : p[i] = g[i]
  BY <1>2, <1>8 DEF P
<1>10. ASSUME k = Len(g) PROVE p = g
  <2>1. k + 1 \in 1..(Len(regex) + 1) /\ k + 1 \in 1..(Len(p) + 1) /\ k + 1 > Len(regex)
    BY <1>1, <1>2, <1>9, <1>10
  <2>2. MatchStep(h, regex, p, k + 1, k + 1)
    BY <1>3, <1>9, <2>1
  <2>3. k + 1 > Len(p)
    BY <2>1, <2>2 DEF MatchStep
  <2>4. Len(p) = Len(g)
    BY <1>2, <1>9, <1>10, <2>3
  <2> DEFINE A == T \cup U
  <2>5. p \in Seq(A) /\ g \in Seq(A)
    OBVIOUS
  <2> HIDE DEF A
  <2> QED
    BY <1>9, <1>10, <2>4, <2>5, SeqEqual
<1> QED
  BY <1>9, <1>10

-----------------------------------------------------------------------------
(* What a glob reaches *)

\* The base of a pattern ends with a slash before the first star.
LEMMA BaseFacts ==
  ASSUME NEW T, NEW g \in Seq(T), IsPrefix(Slashed(Root), g)
  PROVE  \E m \in 3..Len(g) : /\ g[m] = "/" /\ \A i \in 1..m : g[i] # "*"
                              /\ Base(g) = SubSeq(g, 1, m - 1)
<1> DEFINE stars == {i \in 1..Len(g) : g[i] = "*"}
           star == SelectInSeq(g, LAMBDA c : c = "*")
           e == IF star = 0 THEN Len(g) ELSE star - 1
           t == IF star = 0 THEN g ELSE SubSeq(g, 1, star - 1)
<1>1. Len(g) \in Nat /\ Len(g) >= 3 /\ g[1] = "/" /\ g[2] = "config" /\ g[3] = "/"
  <2> DEFINE U == T \cup {"/", "config"}
  <2>1. Root \in Seq(U) /\ Len(Root) = 2 /\ Root[1] = "/" /\ Root[2] = "config"
    BY DEF Root
  <2>2. g \in Seq(U) /\ Len(g) \in Nat
    OBVIOUS
  <2> HIDE DEF U
  <2>3. /\ Len(Root) + 1 <= Len(g)
        /\ \A i \in 1..Len(Root) : g[i] = Root[i]
        /\ g[Len(Root) + 1] = "/"
    BY <2>1, <2>2, BelowFacts
  <2> QED
    BY <2>1, <2>2, <2>3
<1>2. star = IF stars # {} THEN Min(stars) ELSE 0
  BY DEF SelectInSeq
<1>3. stars # {} => Min(stars) \in stars /\ \A i \in stars : Min(stars) <= i
  <2>1. stars \in SUBSET Nat
    OBVIOUS
  <2> HIDE DEF stars
  <2> QED
    BY <2>1, MinFacts
<1> HIDE DEF star
<1>4. /\ e \in 3..Len(g) /\ \A i \in 1..e : g[i] # "*"
      /\ star # 0 => star \in 1..Len(g) /\ e = star - 1
  <2>1. CASE stars = {}
    <3>1. star = 0 /\ e = Len(g)
      BY <1>2, <2>1
    <3> QED
      BY <1>1, <2>1, <3>1
  <2>2. CASE stars # {}
    <3>1. star \in 1..Len(g) /\ g[star] = "*" /\ \A i \in stars : star <= i
      BY <1>2, <1>3, <2>2
    <3>2. star # 1 /\ star # 2 /\ star # 3
      BY <1>1, <3>1
    <3>3. star > 3 /\ e = star - 1
      BY <1>1, <3>1, <3>2
    <3>4. \A i \in 1..e : i \in 1..Len(g) /\ i < star
      BY <1>1, <3>1, <3>3
    <3>5. \A i \in 1..e : g[i] # "*"
      <4> SUFFICES ASSUME NEW i \in 1..e, g[i] = "*" PROVE FALSE
        OBVIOUS
      <4>1. i \in stars
        BY <3>4
      <4> QED
        BY <3>1, <3>4, <4>1
    <3> QED
      BY <1>1, <3>1, <3>3, <3>5
  <2> QED
    BY <2>1, <2>2
<1>5. t \in Seq(T) /\ Len(t) = e /\ \A i \in 1..e : t[i] = g[i]
  BY <1>1, <1>4
<1>6. Base(g) = BeforeLastSlash(t)
  BY DEF Base, star
<1> HIDE DEF e, t, stars
<1> DEFINE S == {i \in 1..e : g[i] = "/"}
           m == Max(S)
<1>7. m \in S /\ \A i \in S : i <= m
  <2>1. S \in SUBSET (1..e) /\ 3 \in S /\ e \in Nat
    BY <1>1, <1>4
  <2> HIDE DEF S
  <2> QED
    BY <2>1, MaxFacts
<1>8. 3 \in S
  BY <1>1, <1>4
<1> HIDE DEF m
<1>9. m \in 3..Len(g) /\ m \in 1..e /\ g[m] = "/"
  BY <1>1, <1>4, <1>7, <1>8
<1>10. BeforeLastSlash(t) = SubSeq(t, 1, m - 1)
  <2>1. m \in 1..Len(t) /\ t[m] = "/" /\ \A i \in 1..Len(t) : t[i] = "/" => i <= m
    BY <1>5, <1>7, <1>9
  <2> QED
    BY <1>5, <2>1, LastSlash
<1>11. SubSeq(t, 1, m - 1) = SubSeq(g, 1, m - 1)
  <2> DEFINE u == SubSeq(t, 1, m - 1)
             v == SubSeq(g, 1, m - 1)
  <2>1. u \in Seq(T) /\ Len(u) = m - 1 /\ \A i \in 1..(m - 1) : u[i] = t[i]
    BY <1>1, <1>4, <1>5, <1>9
  <2>2. v \in Seq(T) /\ Len(v) = m - 1 /\ \A i \in 1..(m - 1) : v[i] = g[i]
    BY <1>1, <1>9
  <2>3. \A i \in 1..(m - 1) : t[i] = g[i]
    BY <1>4, <1>5, <1>9
  <2> HIDE DEF u, v
  <2>4. u = v
    BY <2>1, <2>2, <2>3, SeqEqual
  <2> QED
    BY <2>4 DEF u, v
<1> QED
  BY <1>4, <1>6, <1>9, <1>10, <1>11

LEMMA SlashedText ==
  ASSUME NEW U, NEW d \in Seq(U), "/" \in U
  PROVE  /\ Slashed(d) \in Seq(U) /\ Len(Slashed(d)) = Len(d) + 1
         /\ Slashed(d)[Len(d) + 1] = "/"
         /\ \A i \in 1..Len(d) : Slashed(d)[i] = d[i]
  BY DEF Slashed

\* The path of a file below the root.
LEMMA ApiPathFacts ==
  ASSUME NEW T, NEW f \in Seq(T)
  PROVE  LET p == ApiPath(f)
             U == T \cup {"/", "config"}
         IN /\ p \in Seq(U) /\ Len(p) = Len(f) + 3 /\ Len(f) \in Nat
            /\ p[1] = "/" /\ p[2] = "config" /\ p[3] = "/"
            /\ \A i \in 1..Len(f) : p[i + 3] = f[i]
            /\ Relative(p) = f
<1> DEFINE U == T \cup {"/", "config"}
           r == Slashed(Root)
           p == ApiPath(f)
<1>1. Root \in Seq(U) /\ Len(Root) = 2 /\ Root[1] = "/" /\ Root[2] = "config" /\ "/" \in U
  BY DEF Root
<1>2. r \in Seq(U) /\ Len(r) = 3 /\ r[1] = "/" /\ r[2] = "config" /\ r[3] = "/"
  <2> HIDE DEF U
  <2>1. /\ r \in Seq(U) /\ Len(r) = Len(Root) + 1 /\ r[Len(Root) + 1] = "/"
        /\ \A i \in 1..Len(Root) : r[i] = Root[i]
    BY <1>1, SlashedText
  <2>2. 1 \in 1..Len(Root) /\ 2 \in 1..Len(Root) /\ Len(Root) + 1 = 3
    BY <1>1
  <2> HIDE DEF r
  <2> QED
    BY <1>1, <2>1, <2>2
<1>3. f \in Seq(U) /\ Len(f) \in Nat
  OBVIOUS
<1>4. p = r \o f
  BY DEF ApiPath
<1> HIDE DEF U, r, p
<1>5. /\ p \in Seq(U) /\ Len(p) = Len(f) + 3
      /\ p[1] = "/" /\ p[2] = "config" /\ p[3] = "/"
      /\ \A i \in 1..Len(f) : p[i + 3] = f[i]
  <2>1. /\ p \in Seq(U) /\ Len(p) = Len(r) + Len(f)
        /\ \A i \in 1..(Len(r) + Len(f)) : p[i] = IF i <= Len(r) THEN r[i] ELSE f[i - Len(r)]
    BY <1>2, <1>3, <1>4, ConcatProperties
  <2> QED
    BY <1>2, <1>3, <2>1
<1>6. IsPrefix(Slashed(Root), p)
  <2>1. /\ Len(Root) + 1 <= Len(p)
        /\ \A i \in 1..Len(Root) : p[i] = Root[i]
        /\ p[Len(Root) + 1] = "/"
    BY <1>1, <1>3, <1>5
  <2> QED
    BY <1>1, <1>5, <2>1, BelowFacts
<1>7. Relative(p) = SubSeq(p, 4, Len(p))
  <2>1. Len(Root) + 2 = 4
    BY DEF Root
  <2> QED
    BY <1>6, <2>1 DEF Relative
<1>8. SubSeq(p, 4, Len(p)) = f
  <2> DEFINE u == SubSeq(p, 4, Len(p))
  <2>1. u \in Seq(U) /\ Len(u) = Len(f) /\ \A i \in 1..Len(f) : u[i] = p[i + 3]
    BY <1>3, <1>5
  <2> HIDE DEF u
  <2>2. u = f
    BY <1>3, <1>5, <2>1, SeqEqual
  <2> QED
    BY <2>2 DEF u
<1> QED
  BY <1>3, <1>5, <1>7, <1>8 DEF U, p

\* A file that matches a pattern without a question mark before its first star
\* lies below the folder that is listed; a name matches the file it names.
LEMMA MatchesAreReached ==
  ASSUME NEW T, Wild \cap T = {}, NEW g \in Seq(T),
         g = Root \/ IsPrefix(Slashed(Root), g),
         NEW U, NEW f \in Seq(U), FullMatch(GlobToRegex(g), ApiPath(f))
  PROVE  /\ IsPattern(g) /\ ~Contains(Base(g), "?") =>
              \/ ListedFolder(g) = <<>>
              \/ \E i \in 1..Len(f) : f[i] = "/" /\ ListedFolder(g) = SubSeq(f, 1, i - 1)
         /\ ~IsPattern(g) => f = Relative(g)
<1> DEFINE p == ApiPath(f)
           W == U \cup {"/", "config"}
<1>1. /\ p \in Seq(W) /\ Len(p) = Len(f) + 3 /\ Len(f) \in Nat
      /\ p[1] = "/" /\ p[2] = "config" /\ p[3] = "/"
      /\ \A i \in 1..Len(f) : p[i + 3] = f[i]
      /\ Relative(p) = f
  BY ApiPathFacts
<1>2. FullMatch(GlobToRegex(g), p) /\ Len(g) \in Nat /\ DOMAIN g = 1..Len(g)
  OBVIOUS
<1> HIDE DEF p, W
<1>3. ASSUME NEW k \in 0..Len(g), \A i \in 1..k : g[i] \notin {"*", "?"}
      PROVE  /\ k <= Len(p) /\ \A i \in 1..k : p[i] = g[i]
             /\ k = Len(g) => p = g
  <2>1. p \in Seq(W)
    BY <1>1
  <2> QED
    BY <1>2, <1>3, <2>1, MatchesLiterally
<1>4. ASSUME ~IsPattern(g) PROVE f = Relative(g)
  <2>1. \A i \in 1..Len(g) : g[i] \notin {"*", "?"}
    BY <1>2, <1>4 DEF IsPattern
  <2>2. Len(g) \in 0..Len(g)
    BY <1>2
  <2>3. p = g
    BY <1>3, <2>1, <2>2
  <2> QED
    BY <1>1, <2>3
<1>5. ASSUME IsPattern(g), ~Contains(Base(g), "?"), ListedFolder(g) # <<>>
      PROVE  \E i \in 1..Len(f) : f[i] = "/" /\ ListedFolder(g) = SubSeq(f, 1, i - 1)
  <2>1. IsPrefix(Slashed(Root), g)
    BY <1>5 DEF IsPattern, Root
  <2>2. PICK m \in 3..Len(g) : /\ g[m] = "/" /\ \A i \in 1..m : g[i] # "*"
                               /\ Base(g) = SubSeq(g, 1, m - 1)
    BY <2>1, BaseFacts
  <2> DEFINE b == Base(g)
  <2>3. b \in Seq(T) /\ Len(b) = m - 1 /\ \A i \in 1..(m - 1) : b[i] = g[i]
    BY <1>2, <2>2
  <2> HIDE DEF b
  <2>4. ASSUME NEW i \in 1..m PROVE g[i] \notin {"*", "?"}
    <3>1. CASE i = m
      BY <2>2, <3>1
    <3>2. CASE i \in 1..(m - 1)
      <4>1. g[i] # "?"
        BY <1>5, <2>3, <3>2 DEF Contains, b
      <4> QED
        BY <2>2, <4>1
    <3> QED
      BY <3>1, <3>2
  <2>5. m <= Len(p) /\ \A i \in 1..m : p[i] = g[i]
    <3>1. m \in 0..Len(g)
      BY <1>2
    <3> QED
      BY <1>3, <2>4, <3>1
  <2>6. b # Root /\ ListedFolder(g) = Relative(b)
    BY <1>5 DEF ListedFolder, b
  <2>7. m # 3
    <3> SUFFICES ASSUME m = 3 PROVE b = Root
      BY <2>6
    <3>1. Len(b) = 2 /\ b[1] = "/" /\ b[2] = "config"
      BY <1>1, <2>3, <2>5
    <3> DEFINE A == T \cup {"/", "config"}
    <3>2. Root \in Seq(A) /\ Len(Root) = 2 /\ Root[1] = "/" /\ Root[2] = "config" /\ b \in Seq(A)
      BY <2>3 DEF Root
    <3> HIDE DEF A
    <3>3. \A i \in 1..2 : b[i] = Root[i]
      BY <3>1, <3>2
    <3> QED
      BY <3>1, <3>2, <3>3, SeqEqual
  <2>8. m \in Nat /\ m >= 4 /\ m - 3 \in 1..Len(f)
    BY <1>1, <2>5, <2>7
  <2>9. Relative(b) = SubSeq(b, 4, m - 1)
    <3> DEFINE A == T \cup {"/", "config"}
    <3>1. Root \in Seq(A) /\ Len(Root) = 2 /\ Root[1] = "/" /\ Root[2] = "config" /\ b \in Seq(A)
      BY <2>3 DEF Root
    <3> HIDE DEF A
    <3>2. /\ Len(Root) + 1 <= Len(b)
          /\ \A i \in 1..Len(Root) : b[i] = Root[i]
          /\ b[Len(Root) + 1] = "/"
      BY <1>1, <2>3, <2>5, <2>8, <3>1
    <3>3. IsPrefix(Slashed(Root), b)
      BY <3>1, <3>2, BelowFacts
    <3>4. Len(Root) + 2 = 4
      BY <3>1
    <3> QED
      BY <2>3, <3>3, <3>4 DEF Relative
  <2>10. SubSeq(b, 4, m - 1) = SubSeq(f, 1, (m - 3) - 1)
    <3> DEFINE u == SubSeq(b, 4, m - 1)
               v == SubSeq(f, 1, (m - 3) - 1)
               A == T \cup U
    <3>1. u \in Seq(T) /\ Len(u) = m - 4 /\ \A i \in 1..(m - 4) : u[i] = b[i + 3]
      BY <2>3, <2>8
    <3>2. v \in Seq(U) /\ Len(v) = m - 4 /\ \A i \in 1..(m - 4) : v[i] = f[i]
      BY <1>1, <2>8
    <3> HIDE DEF u, v
    <3>3. ASSUME NEW i \in 1..(m - 4) PROVE b[i + 3] = f[i]
      <4>1. i + 3 \in 1..(m - 1) /\ i + 3 \in 1..m /\ i \in 1..Len(f)
        BY <1>1, <2>8
      <4>2. b[i + 3] = g[i + 3] /\ p[i + 3] = g[i + 3] /\ p[i + 3] = f[i]
        BY <1>1, <2>3, <2>5, <4>1
      <4> QED
        BY <4>2
    <3>4. u \in Seq(A) /\ v \in Seq(A)
      BY <3>1, <3>2
    <3> HIDE DEF A
    <3>5. u = v
      BY <3>1, <3>2, <3>3, <3>4, SeqEqual
    <3> QED
      BY <3>5 DEF u, v
  <2>11. f[m - 3] = "/"
    BY SMTT(40), <1>1, <2>2, <2>5, <2>8
  <2> QED
    BY <2>6, <2>8, <2>9, <2>10, <2>11
<1> QED
  BY <1>4, <1>5

-----------------------------------------------------------------------------
(* The parts of a path *)

\* The empty text has one piece, and one more character changes the last piece or
\* begins a new one.
LEMMA SplitEmpty == Split(<<>>) = << <<>> >>
<1>1. <<>> \in Seq({}) /\ Len(<<>>) = 0
  OBVIOUS
<1>2. PICK f \in [0..Len(<<>>) -> Pieces({})] : f[0] = << <<>> >> /\ Split(<<>>) = f[Len(<<>>)]
  BY <1>1, SplitSteps
<1> QED
  BY <1>1, <1>2

LEMMA SplitAppend ==
  ASSUME NEW T, NEW s \in Seq(T), NEW c \in T
  PROVE  Split(Append(s, c)) = SplitStep(Split(s), c)
<1> DEFINE u == Append(s, c)
           n == Len(s)
<1>1. /\ u \in Seq(T) /\ n \in Nat /\ Len(u) = n + 1 /\ u[n + 1] = c
      /\ \A i \in 1..n : u[i] = s[i]
  OBVIOUS
<1> HIDE DEF u
<1>2. PICK f \in [0..n -> Pieces(T)] :
        /\ f[0] = << <<>> >>
        /\ \A i \in 1..n : f[i] = SplitStep(f[i - 1], s[i])
        /\ Split(s) = f[n]
  BY SplitSteps
<1>3. PICK h \in [0..Len(u) -> Pieces(T)] :
        /\ h[0] = << <<>> >>
        /\ \A i \in 1..Len(u) : h[i] = SplitStep(h[i - 1], u[i])
        /\ Split(u) = h[Len(u)]
  BY <1>1, SplitSteps
<1> DEFINE N == {i \in Nat : i <= n => h[i] = f[i]}
<1>4. 0 \in N
  BY <1>2, <1>3
<1>5. ASSUME NEW i \in Nat, i \in N PROVE i + 1 \in N
  <2> SUFFICES ASSUME i + 1 <= n PROVE h[i + 1] = f[i + 1]
    OBVIOUS
  <2>1. i + 1 \in 1..n /\ i + 1 \in 1..Len(u) /\ (i + 1) - 1 = i
    BY <1>1
  <2>2. h[i] = f[i]
    BY <1>1, <1>5
  <2>3. h[i + 1] = SplitStep(h[i], u[i + 1]) /\ f[i + 1] = SplitStep(f[i], s[i + 1])
    BY <1>2, <1>3, <2>1
  <2> QED
    BY <1>1, <2>1, <2>2, <2>3
<1>6. n \in N
  <2> HIDE DEF N
  <2>1. Nat \subseteq N
    BY <1>4, <1>5, Induction
  <2> QED
    BY <1>1, <2>1
<1>7. h[n] = f[n]
  BY <1>6
<1>8. h[n + 1] = SplitStep(h[n], c)
  <2>1. n + 1 \in 1..Len(u) /\ (n + 1) - 1 = n
    BY <1>1
  <2> QED
    BY <1>1, <1>3, <2>1
<1> QED
  BY <1>1, <1>2, <1>3, <1>7, <1>8 DEF u

\* No piece holds a separator.
LEMMA SplitPieces ==
  ASSUME NEW T, NEW s \in Seq(T)
  PROVE  Split(s) \in Pieces(T \ {"/"})
<1> DEFINE U == T \ {"/"}
           Q == {x \in Seq(T) : Split(x) \in Pieces(U)}
<1>1. <<>> \in Q
  <2>1. << <<>> >> \in Pieces(U)
    <3> HIDE DEF U
    <3> QED
      BY DEF Pieces
  <2>2. <<>> \in Seq(T)
    OBVIOUS
  <2> HIDE DEF U
  <2> QED
    BY <2>1, <2>2, SplitEmpty
<1>2. ASSUME NEW x \in Seq(T), NEW c \in T, x \in Q PROVE Append(x, c) \in Q
  <2> DEFINE p == Split(x)
  <2>1. p \in Pieces(U)
    BY <1>2
  <2> HIDE DEF p
  <2>2. SplitStep(p, c) \in Pieces(U)
    <3>1. CASE c = "/"
      <4>1. SplitStep(p, c) = Append(p, <<>>)
        BY <3>1 DEF SplitStep
      <4>2. p \in Seq(Seq(U)) /\ <<>> \in Seq(U)
        BY <2>1 DEF Pieces
      <4> DEFINE P == Seq(U)
                 e == <<>>
      <4>3. p \in Seq(P) /\ e \in P
        BY <4>2
      <4> HIDE DEF U, P, e
      <4>4. Append(p, e) \in Seq(P) /\ Append(p, e) # <<>>
        BY <4>3, AppendProperties
      <4> QED
        BY <4>1, <4>4 DEF Pieces, P, e
    <3>2. CASE c # "/"
      <4>1. c \in U
        BY <3>2
      <4> HIDE DEF U
      <4> QED
        BY <2>1, <4>1, SplitStepType
    <3> QED
      BY <3>1, <3>2
  <2>3. Split(Append(x, c)) = SplitStep(p, c)
    BY SplitAppend DEF p
  <2>4. Append(x, c) \in Seq(T)
    OBVIOUS
  <2> QED
    BY <2>2, <2>3, <2>4
<1> HIDE DEF Q
<1>3. Seq(T) \subseteq Q
  BY <1>1, <1>2, TextInduction
<1> QED
  BY <1>3 DEF Q

\* What is split off the last pieces does not depend on the pieces before.
LEMMA SplitStepAfter ==
  ASSUME NEW T, NEW x \in Seq(Seq(T)), NEW y \in Pieces(T), NEW c \in T
  PROVE  SplitStep(x \o y, c) = x \o SplitStep(y, c)
<1> DEFINE m == Len(x)
           n == Len(y)
           z == x \o y
<1>1. /\ x \in Seq(Seq(T)) /\ y \in Seq(Seq(T)) /\ z \in Seq(Seq(T))
      /\ m \in Nat /\ n \in Nat /\ n > 0 /\ Len(z) = m + n
      /\ \A i \in 1..m : z[i] = x[i]
      /\ \A i \in 1..n : z[m + i] = y[i]
      /\ z[m + n] = y[n]
  BY DEF Pieces
<1> DEFINE w == SplitStep(y, c)
           u == SplitStep(z, c)
           v == x \o w
<1>0. /\ m \in Nat /\ n \in Nat /\ n > 0 /\ Len(x) = m /\ Len(y) = n /\ Len(z) = m + n
      /\ \A i \in 1..m : z[i] = x[i]
      /\ \A i \in 1..n : z[m + i] = y[i]
  BY <1>1
<1> HIDE DEF m, n, z
<1>2. ASSUME c = "/" PROVE u = v
  <2>1. u = Append(z, <<>>) /\ w = Append(y, <<>>) /\ <<>> \in Seq(T)
    BY <1>2 DEF SplitStep
  <2> DEFINE Q == Seq(T)
             e == <<>>
  <2>2. /\ u = Append(z, e) /\ w = Append(y, e)
        /\ x \in Seq(Q) /\ y \in Seq(Q) /\ z \in Seq(Q) /\ e \in Q
    BY <1>1, <2>1
  <2> HIDE DEF Q, e, u, w
  <2>3. /\ u \in Seq(Q) /\ Len(u) = m + n + 1 /\ u[m + n + 1] = e
        /\ \A i \in 1..(m + n) : u[i] = z[i]
    <3>1. /\ u \in Seq(Q) /\ Len(u) = Len(z) + 1 /\ u[Len(z) + 1] = e
          /\ \A i \in 1..Len(z) : u[i] = z[i]
      BY <2>2
    <3> QED
      BY <1>0, <3>1
  <2>4. /\ w \in Seq(Q) /\ Len(w) = n + 1 /\ w[n + 1] = e
        /\ \A i \in 1..n : w[i] = y[i]
    BY <1>0, <2>2
  <2>5. /\ v \in Seq(Q) /\ Len(v) = m + n + 1
        /\ \A i \in 1..m : v[i] = x[i]
        /\ \A i \in 1..(n + 1) : v[m + i] = w[i]
    <3>1. x \in Seq(Q) /\ w \in Seq(Q)
      BY <2>2, <2>4
    <3>2. v \in Seq(Q)
      BY <3>1
    <3>3. IsConcat(v, x, w)
      BY <3>1, ConcatFacts
    <3> HIDE DEF v
    <3> QED
      BY <1>0, <2>4, <3>2, <3>3 DEF IsConcat
  <2>6. ASSUME NEW i \in 1..(m + n + 1) PROVE u[i] = v[i]
    <3>1. CASE i \in 1..m
      BY <1>0, <2>3, <2>5, <3>1
    <3>2. CASE i \notin 1..m
      <4>1. i - m \in 1..(n + 1) /\ m + (i - m) = i
        BY <1>0, <3>2
      <4>2. v[i] = w[i - m]
        BY <2>5, <4>1
      <4>3. CASE i = m + n + 1
        BY <1>0, <2>3, <2>4, <4>2, <4>3
      <4>4. CASE i # m + n + 1
        <5>1. i \in 1..(m + n) /\ i - m \in 1..n
          BY <1>0, <4>1, <4>4
        <5> QED
          BY <1>0, <2>3, <2>4, <4>1, <4>2, <5>1
      <4> QED
        BY <4>3, <4>4
    <3> QED
      BY <3>1, <3>2
  <2> HIDE DEF v
  <2> QED
    BY <2>3, <2>5, <2>6, SeqEqual
<1>3. ASSUME c # "/" PROVE u = v
  <2> DEFINE Q == Seq(T)
             l == Append(y[n], c)
  <2>1. /\ u = Append(SubSeq(z, 1, Len(z) - 1), Append(z[Len(z)], c))
        /\ w = Append(SubSeq(y, 1, Len(y) - 1), Append(y[Len(y)], c))
    BY <1>3 DEF SplitStep, Front, Last
  <2>2. /\ u = Append(SubSeq(z, 1, m + n - 1), l)
        /\ w = Append(SubSeq(y, 1, n - 1), l)
    BY <1>0, <2>1
  <2>3. l \in Q /\ x \in Seq(Q) /\ y \in Seq(Q) /\ z \in Seq(Q)
    BY <1>0, <1>1
  <2> HIDE DEF Q, l, u, w
  <2>4. /\ u \in Seq(Q) /\ Len(u) = m + n /\ u[m + n] = l
        /\ \A i \in 1..(m + n - 1) : u[i] = z[i]
    <3> DEFINE k == m + n - 1
    <3>1. k \in Nat /\ k <= Len(z) /\ u = Append(SubSeq(z, 1, k), l) /\ k + 1 = m + n
      BY <1>0, <2>2
    <3> HIDE DEF k
    <3>2. /\ u \in Seq(Q) /\ Len(u) = k + 1 /\ u[k + 1] = l
          /\ \A i \in 1..k : u[i] = z[i]
      BY <2>3, <3>1
    <3>3. k = m + n - 1
      BY DEF k
    <3> QED
      BY <3>1, <3>2, <3>3
  <2>5. /\ w \in Seq(Q) /\ Len(w) = n /\ w[n] = l
        /\ \A i \in 1..(n - 1) : w[i] = y[i]
    BY <1>0, <2>2, <2>3
  <2>6. /\ v \in Seq(Q) /\ Len(v) = m + n
        /\ \A i \in 1..m : v[i] = x[i]
        /\ \A i \in 1..n : v[m + i] = w[i]
    <3>1. x \in Seq(Q) /\ w \in Seq(Q)
      BY <2>3, <2>5
    <3>2. v \in Seq(Q)
      BY <3>1
    <3>3. IsConcat(v, x, w)
      BY <3>1, ConcatFacts
    <3> HIDE DEF v
    <3> QED
      BY <1>0, <2>5, <3>2, <3>3 DEF IsConcat
  <2>7. ASSUME NEW i \in 1..(m + n) PROVE u[i] = v[i]
    <3>1. CASE i \in 1..m
      <4>1. i \in 1..(m + n - 1)
        BY <1>0, <3>1
      <4> QED
        BY <1>0, <2>4, <2>6, <3>1, <4>1
    <3>2. CASE i \notin 1..m
      <4>1. i - m \in 1..n /\ m + (i - m) = i
        BY <1>0, <3>2
      <4>2. v[i] = w[i - m]
        BY <2>6, <4>1
      <4>3. CASE i = m + n
        BY <1>0, <2>4, <2>5, <4>2, <4>3
      <4>4. CASE i # m + n
        <5>1. i \in 1..(m + n - 1) /\ i - m \in 1..(n - 1)
          BY <1>0, <4>1, <4>4
        <5> QED
          BY <1>0, <2>4, <2>5, <4>1, <4>2, <5>1
      <4> QED
        BY <4>3, <4>4
    <3> QED
      BY <3>1, <3>2
  <2> HIDE DEF v
  <2> QED
    BY <2>4, <2>6, <2>7, SeqEqual
<1>4. u = v
  BY <1>2, <1>3
<1> QED
  BY <1>4 DEF u, v, w, z

\* Two texts with a separator between them have the pieces of the one and then
\* those of the other.
LEMMA SplitJoined ==
  ASSUME NEW T, "/" \in T, NEW a \in Seq(T), NEW b \in Seq(T)
  PROVE  Split(Slashed(a) \o b) = Split(a) \o Split(b)
<1> DEFINE Q == {y \in Seq(T) : Split(Slashed(a) \o y) = Split(a) \o Split(y)}
<1>1. Split(a) \in Seq(Seq(T)) /\ Slashed(a) \in Seq(T)
  BY SplitType DEF Pieces, Slashed
<1>2. <<>> \in Q
  <2>1. Slashed(a) \o <<>> = Slashed(a)
    BY <1>1
  <2>2. Split(Slashed(a)) = SplitStep(Split(a), "/")
    BY SplitAppend DEF Slashed
  <2>3. SplitStep(Split(a), "/") = Append(Split(a), <<>>)
    BY DEF SplitStep
  <2> DEFINE p == Split(a)
             P == Seq(T)
  <2>4. p \in Seq(P) /\ <<>> \in P
    BY <1>1
  <2> HIDE DEF p, P
  <2>5. Append(p, <<>>) = p \o << <<>> >>
    <3> DEFINE u == Append(p, <<>>)
               v == p \o << <<>> >>
               k == Len(p) + 1
    <3>1. u \in Seq(P) /\ v \in Seq(P) /\ Len(u) = k /\ Len(v) = k /\ k \in Nat
      BY <2>4
    <3>2. \A i \in 1..k : u[i] = v[i]
      BY <2>4
    <3> HIDE DEF u, v
    <3>3. u = v
      BY <3>1, <3>2, SeqEqual
    <3> QED
      BY <3>3 DEF u, v
  <2>6. <<>> \in Seq(T)
    OBVIOUS
  <2> QED
    BY <2>1, <2>2, <2>3, <2>5, <2>6, SplitEmpty DEF p
<1>3. ASSUME NEW y \in Seq(T), NEW c \in T, y \in Q PROVE Append(y, c) \in Q
  <2> DEFINE v == Slashed(a) \o y
  <2>1. v \in Seq(T) /\ Slashed(a) \o Append(y, c) = Append(v, c)
    BY <1>1
  <2>2. Split(v) = Split(a) \o Split(y)
    BY <1>3
  <2> HIDE DEF v
  <2>3. Split(Append(v, c)) = SplitStep(Split(a) \o Split(y), c)
    BY <2>1, <2>2, SplitAppend
  <2>4. Split(y) \in Pieces(T)
    BY SplitType
  <2>5. SplitStep(Split(a) \o Split(y), c) = Split(a) \o SplitStep(Split(y), c)
    BY <1>1, <2>4, SplitStepAfter
  <2>6. Split(Append(y, c)) = SplitStep(Split(y), c)
    BY SplitAppend
  <2>7. Append(y, c) \in Seq(T)
    OBVIOUS
  <2> QED
    BY <2>1, <2>3, <2>5, <2>6, <2>7
<1> HIDE DEF Q
<1>4. Seq(T) \subseteq Q
  BY <1>2, <1>3, TextInduction
<1> QED
  BY <1>4 DEF Q

\* A text without separators is one piece.
LEMMA SplitWhole ==
  ASSUME NEW T, "/" \notin T, NEW s \in Seq(T)
  PROVE  Split(s) = <<s>>
<1> DEFINE Q == {x \in Seq(T) : Split(x) = <<x>>}
<1>1. <<>> \in Q
  BY SplitEmpty
<1>2. ASSUME NEW x \in Seq(T), NEW c \in T, x \in Q PROVE Append(x, c) \in Q
  <2>1. Split(x) = <<x>> /\ c # "/" /\ Append(x, c) \in Seq(T)
    BY <1>2
  <2>2. Split(Append(x, c)) = SplitStep(<<x>>, c)
    BY <2>1, SplitAppend
  <2>3. SplitStep(<<x>>, c) = Append(Front(<<x>>), Append(Last(<<x>>), c))
    BY <2>1 DEF SplitStep
  <2>4. Front(<<x>>) = <<>> /\ Last(<<x>>) = x
    BY DEF Front, Last
  <2> QED
    BY <2>1, <2>2, <2>3, <2>4
<1> HIDE DEF Q
<1>3. Seq(T) \subseteq Q
  BY <1>1, <1>2, TextInduction
<1> QED
  BY <1>3 DEF Q

\* q is the pieces of a text that starts with a separator, those of parts after it.
AfterRoot(q, parts) ==
  /\ Len(q) = Len(parts) + 1 /\ q[1] = <<>>
  /\ \A k \in 1..Len(parts) : q[k + 1] = parts[k]

\* Two ways to put a separator between two texts.
LEMMA SlashedJoined ==
  ASSUME NEW U, "/" \in U, NEW a \in Seq(U), NEW b \in Seq(U)
  PROVE  a \o (<<"/">> \o b) = Slashed(a) \o b
<1> DEFINE l == <<"/">> \o b
           u == a \o l
           s == Slashed(a)
           v == s \o b
<1>1. l \in Seq(U) /\ Len(l) = Len(b) + 1 /\ l[1] = "/" /\ \A i \in 1..Len(b) : l[i + 1] = b[i]
  OBVIOUS
<1>2. s \in Seq(U) /\ Len(s) = Len(a) + 1 /\ s[Len(a) + 1] = "/" /\ \A i \in 1..Len(a) : s[i] = a[i]
  BY DEF Slashed
<1> HIDE DEF l, s
<1>3. u \in Seq(U) /\ v \in Seq(U)
  BY <1>1, <1>2
<1>4. IsConcat(u, a, l) /\ IsConcat(v, s, b)
  BY <1>1, <1>2, ConcatFacts
<1>5. Len(a) \in Nat /\ Len(b) \in Nat
  OBVIOUS
<1> HIDE DEF u, v
<1>6. Len(u) = Len(a) + Len(b) + 1 /\ Len(v) = Len(a) + Len(b) + 1
  BY <1>1, <1>2, <1>4, <1>5 DEF IsConcat
<1>7. ASSUME NEW i \in 1..(Len(a) + Len(b) + 1) PROVE u[i] = v[i]
  <2>1. CASE i \in 1..Len(a)
    <3>1. u[i] = a[i]
      BY <1>4, <2>1 DEF IsConcat
    <3>2. i \in 1..Len(s) /\ s[i] = a[i]
      BY <1>2, <1>5, <2>1
    <3>3. v[i] = s[i]
      BY <1>4, <3>2 DEF IsConcat
    <3> QED
      BY <3>1, <3>2, <3>3
  <2>2. CASE i = Len(a) + 1
    <3>1. 1 \in 1..Len(l) /\ i \in 1..Len(s)
      BY <1>1, <1>2, <1>5, <2>2
    <3>2. u[i] = l[1]
      BY <1>4, <2>2, <3>1 DEF IsConcat
    <3>3. v[i] = s[i]
      BY <1>4, <3>1 DEF IsConcat
    <3> QED
      BY <1>1, <1>2, <2>2, <3>2, <3>3
  <2>3. CASE i > Len(a) + 1
    <3> DEFINE k == i - (Len(a) + 1)
    <3>1. k \in 1..Len(b) /\ k + 1 \in 1..Len(l) /\ i = Len(a) + (k + 1) /\ i = Len(s) + k
      BY <1>1, <1>2, <1>5, <2>3
    <3> HIDE DEF k
    <3>2. u[i] = l[k + 1]
      BY <1>4, <3>1 DEF IsConcat
    <3>3. v[i] = b[k]
      BY <1>4, <3>1 DEF IsConcat
    <3> QED
      BY <1>1, <3>1, <3>2, <3>3
  <2> QED
    BY <1>5, <2>1, <2>2, <2>3
<1>8. u = v
  BY <1>3, <1>6, <1>7, SeqEqual
<1> QED
  BY <1>8 DEF u, v, l, s

\* A path that is written from its parts has these parts.
LEMMA SplitText ==
  ASSUME NEW T, "/" \notin T, NEW parts \in Seq(Seq(T)), parts # <<>>
  PROVE  /\ <<"/">> \o Join(parts) \in Seq(T \cup {"/"})
         /\ AfterRoot(Split(<<"/">> \o Join(parts)), parts)
<1> DEFINE U == T \cup {"/"}
           n == Len(parts)
           seqs == [i \in DOMAIN parts |-> <<"/">> \o parts[i]]
           F == FlattenSeq(seqs)
<1>1. /\ n \in Nat /\ n > 0 /\ DOMAIN parts = 1..n /\ "/" \in U
      /\ \A i \in 1..n : parts[i] \in Seq(T)
  OBVIOUS
<1>2. \A i \in 1..n : parts[i] \in Seq(U)
  BY <1>1
<1>3. \A i \in 1..n : seqs[i] = <<"/">> \o parts[i]
  BY <1>1
<1>4. \A i \in 1..n : seqs[i] \in Seq(U) /\ Len(seqs[i]) > 0 /\ seqs[i][1] = "/"
  <2> SUFFICES ASSUME NEW i \in 1..n
               PROVE  seqs[i] \in Seq(U) /\ Len(seqs[i]) > 0 /\ seqs[i][1] = "/"
    OBVIOUS
  <2> DEFINE x == parts[i]
  <2>1. x \in Seq(U) /\ seqs[i] = <<"/">> \o x
    BY <1>2, <1>3
  <2> HIDE DEF x, seqs, U
  <2> QED
    BY <1>1, <2>1
<1> HIDE DEF U
<1>5. seqs \in Seq(Seq(U)) /\ Len(seqs) = n /\ seqs # <<>>
  <2>1. seqs = [i \in 1..n |-> seqs[i]]
    BY <1>1
  <2> HIDE DEF seqs
  <2>2. seqs \in [1..n -> Seq(U)]
    BY <1>4, <2>1
  <2>3. Len(seqs) = n
    BY <1>1, <2>2
  <2> QED
    BY SMTT(40), <1>1, <2>2, <2>3
<1> HIDE DEF seqs
<1>6a. PICK f \in [1..Len(seqs) -> Seq(U)] :
         /\ FlattenSeq(seqs) = f[Len(seqs)]
         /\ f[1] = seqs[1]
         /\ \A i \in 2..Len(seqs) : f[i] = f[i - 1] \o seqs[i]
  BY <1>5, FlattenSteps
<1>6. PICK h \in [1..n -> Seq(U)] :
        /\ F = h[n]
        /\ h[1] = seqs[1]
        /\ \A i \in 2..n : h[i] = h[i - 1] \o seqs[i]
  BY <1>5, <1>6a
<1> HIDE DEF F
<1> DEFINE Front1(i) == /\ Len(h[i]) > 0 /\ h[i][1] = "/"
                        /\ Len(Split(h[i])) = i + 1 /\ Split(h[i])[1] = <<>>
                        /\ \A k \in 1..i : Split(h[i])[k + 1] = parts[k]
           N == {j \in Nat : j + 1 <= n => Front1(j + 1)}
<1>7. ASSUME NEW i \in 1..n PROVE Split(parts[i]) = <<parts[i]>>
  BY <1>1, SplitWhole
<1>8. 0 \in N
  <2>1. 1 \in 1..n
    BY <1>1
  <2>2. h[1] = <<"/">> \o parts[1]
    BY <1>3, <1>6, <2>1
  <2>3. <<>> \in Seq(U) /\ parts[1] \in Seq(U)
    BY <1>2, <2>1
  <2>4. Slashed(<<>>) = <<"/">>
    BY DEF Slashed
  <2>5. Split(h[1]) = Split(<<>>) \o Split(parts[1])
    BY <1>1, <2>2, <2>3, <2>4, SplitJoined
  <2> DEFINE x == Split(<<>>)
             y == Split(parts[1])
             Q == Seq(U)
  <2>6. /\ x \in Seq(Q) /\ Len(x) = 1 /\ x[1] = <<>>
        /\ y \in Seq(Q) /\ Len(y) = 1 /\ y[1] = parts[1]
    <3>1. x \in Seq(Q) /\ y \in Seq(Q)
      BY <2>3, SplitType DEF Pieces
    <3>2. x = << <<>> >> /\ y = <<parts[1]>>
      BY <1>7, <2>1, SplitEmpty
    <3> HIDE DEF x, y, Q
    <3> QED
      BY <3>1, <3>2
  <2> HIDE DEF x, y, Q
  <2>7. IsConcat(Split(h[1]), x, y)
    BY <2>5, <2>6, ConcatFacts DEF x, y
  <2>9. 1 \in 1..Len(x) /\ 1 \in 1..Len(y)
    BY <2>6
  <2>10. Len(Split(h[1])) = 2 /\ Split(h[1])[1] = <<>> /\ Split(h[1])[1 + 1] = parts[1]
    BY <2>6, <2>7, <2>9 DEF IsConcat
  <2>8. Front1(1)
    BY <1>4, <1>6, <2>1, <2>10
  <2> QED
    BY <2>8
<1>9. ASSUME NEW j \in Nat, j \in N PROVE j + 1 \in N
  <2> SUFFICES ASSUME (j + 1) + 1 <= n PROVE Front1((j + 1) + 1)
    BY SMTT(40)
  <2> DEFINE a == h[j + 1]
             b == parts[j + 2]
             g == h[j + 2]
             x == Split(a)
             y == <<b>>
  <2>1. j + 1 \in 1..n /\ j + 2 \in 1..n /\ j + 2 \in 2..n /\ (j + 2) - 1 = j + 1 /\ (j + 1) + 1 = j + 2
    BY <1>1
  <2>2. /\ a \in Seq(U) /\ b \in Seq(U) /\ b \in Seq(T)
        /\ g = a \o (<<"/">> \o b)
    BY <1>1, <1>2, <1>3, <1>6, <2>1
  <2>3. Front1(j + 1)
    BY <1>9, <2>1
  <2>4. /\ Len(a) > 0 /\ a[1] = "/" /\ Len(x) = j + 2 /\ x[1] = <<>>
        /\ \A k \in 1..(j + 1) : x[k + 1] = parts[k]
    BY <2>1, <2>3
  <2> HIDE DEF Front1
  <2>5. Split(b) = y
    BY <1>7, <2>1
  <2> HIDE DEF a, b, g
  <2>6. g = Slashed(a) \o b
    BY <1>1, <2>2, SlashedJoined
  <2>7. Split(g) = x \o y
    BY ZenonT(60), <1>1, <2>2, <2>5, <2>6, SplitJoined
  <2> DEFINE Q == Seq(U)
  <2>8. x \in Seq(Q) /\ y \in Seq(Q) /\ Len(y) = 1 /\ y[1] = b
    BY <2>2, SplitType DEF Pieces
  <2>9. Len(g) > 0 /\ g[1] = "/"
    <3>1. Slashed(a) \in Seq(U) /\ Len(Slashed(a)) > 0 /\ Slashed(a)[1] = a[1]
      BY SMTT(40), <1>1, <2>2, <2>4 DEF Slashed
    <3> DEFINE s == Slashed(a)
    <3> HIDE DEF s
    <3>2. Len(s \o b) > 0 /\ (s \o b)[1] = s[1]
      BY <2>2, <3>1 DEF s
    <3> QED
      BY <2>4, <2>6, <3>1, <3>2 DEF s
  <2> HIDE DEF Q, x, y
  <2>10. IsConcat(Split(g), x, y)
    BY <2>7, <2>8, ConcatFacts
  <2>11. Len(Split(g)) = j + 3
    BY <2>4, <2>8, <2>10 DEF IsConcat
  <2>12. ASSUME NEW k \in 1..(j + 3)
         PROVE  Split(g)[k] = IF k <= j + 2 THEN x[k] ELSE b
    <3>1. CASE k <= j + 2
      BY <2>4, <2>10, <3>1 DEF IsConcat
    <3>2. CASE k = j + 3
      <4>1. 1 \in 1..Len(y) /\ k = Len(x) + 1
        BY <2>4, <2>8, <3>2
      <4> QED
        BY <2>8, <2>10, <3>2, <4>1 DEF IsConcat
    <3> QED
      BY <3>1, <3>2
  <2>13. Split(g)[1] = <<>>
    BY <2>4, <2>12
  <2>14. ASSUME NEW k \in 1..(j + 2) PROVE Split(g)[k + 1] = parts[k]
    <3>0. k + 1 \in 1..(j + 3) /\ j \in Nat
      OBVIOUS
    <3>1. CASE k = j + 2
      BY <2>12, <3>0, <3>1 DEF b
    <3>2. CASE k \in 1..(j + 1)
      <4>1. Split(g)[k + 1] = x[k + 1]
        BY <2>12, <3>0, <3>2
      <4> QED
        BY <2>4, <3>2, <4>1
    <3> QED
      BY <3>1, <3>2
  <2> QED
    BY <2>1, <2>9, <2>11, <2>13, <2>14 DEF g, Front1
<1> HIDE DEF N, Front1
<1>10. Nat \subseteq N
  BY <1>8, <1>9, Induction
<1>11. Front1(n)
  <2>1. n - 1 \in N /\ (n - 1) + 1 = n
    BY <1>1, <1>10
  <2> QED
    BY <2>1 DEF N
<1>12a. n \in 1..n
  BY <1>1
<1>12. F \in Seq(U) /\ Len(F) > 0 /\ F[1] = "/" /\ AfterRoot(Split(F), parts)
  BY <1>1, <1>6, <1>11, <1>12a DEF Front1, AfterRoot
<1>13. <<"/">> \o Tail(F) = F
  <2> DEFINE u == <<"/">> \o Tail(F)
  <2>1. u \in Seq(U) /\ Len(u) = Len(F) /\ Len(F) \in Nat
    BY <1>1, <1>12
  <2>2. \A i \in 1..Len(F) : u[i] = F[i]
    BY <1>12
  <2> HIDE DEF u
  <2>3. u = F
    BY <1>12, <2>1, <2>2, SeqEqual
  <2> QED
    BY <2>3 DEF u
<1>14. Join(parts) = Tail(F)
  BY DEF Join, F, seqs
<1> QED
  BY <1>12, <1>13, <1>14 DEF U

-----------------------------------------------------------------------------
(* Following the parts of a path *)

\* What Walk makes of where it is and the next part.
WalkStep(at, w) ==
  IF w \in {<<>>, Dot} THEN at
  ELSE IF w = DotDot THEN (IF at = <<>> THEN at ELSE Front(at))
  ELSE Append(at, w)

LEMMA WalkStepType ==
  ASSUME NEW T, NEW at \in Seq(Seq(T)), NEW w \in Seq(T)
  PROVE  WalkStep(at, w) \in Seq(Seq(T))
<1> DEFINE Q == Seq(T)
<1>1. at \in Seq(Q) /\ w \in Q
  OBVIOUS
<1> HIDE DEF Q
<1>2. Append(at, w) \in Seq(Q)
  BY <1>1
<1>3. Front(at) \in Seq(Q)
  <2>1. CASE at = <<>>
    <3>1. Front(at) = SubSeq(<<>>, 1, 0 - 1)
      BY <2>1 DEF Front
    <3>2. SubSeq(<<>>, 1, 0 - 1) = <<>>
      OBVIOUS
    <3> QED
      BY <1>1, <2>1, <3>1, <3>2
  <2>2. CASE at # <<>>
    BY <1>1, <2>2 DEF Front
  <2> QED
    BY <2>1, <2>2
<1>4. WalkStep(at, w) \in {at, Front(at), Append(at, w)}
  BY DEF WalkStep
<1> QED
  BY <1>1, <1>2, <1>3, <1>4 DEF Q

Follow(pieces) ==
  FoldLeft(LAMBDA at, w :
             IF w \in {<<>>, Dot} THEN at
             ELSE IF w = DotDot THEN (IF at = <<>> THEN at ELSE Front(at))
             ELSE Append(at, w),
           <<>>, pieces)

LEMMA FollowSteps ==
  ASSUME NEW T, NEW s \in Seq(Seq(T))
  PROVE  \E f \in [0..Len(s) -> Seq(Seq(T))] :
           /\ f[0] = <<>>
           /\ \A i \in 1..Len(s) : f[i] = WalkStep(f[i - 1], s[i])
           /\ Follow(s) = f[Len(s)]
<1> DEFINE Q == Seq(T)
           V == Seq(Q)
           D == DOMAIN s
           b == <<>>
           g == [x \in V \X Q |-> WalkStep(x[1], x[2])]
           Step(F) == [S \in SUBSET D |->
                         IF S = {} THEN b ELSE WalkStep(F[S \ {Max(S)}], s[Max(S)])]
           chosen == CHOOSE F : F = Step(F)
<1>1. Len(s) \in Nat /\ D = 1..Len(s) /\ \A i \in 1..Len(s) : s[i] \in Q
  OBVIOUS
<1>2. Follow(s) = chosen[D]
  BY DEF Follow, FoldLeft, MapThenFoldSet, WalkStep
<1>3. b \in V /\ s \in Seq(Q)
  OBVIOUS
<1>4. g \in [V \X Q -> V] /\ \A v \in V, c \in Q : g[<<v, c>>] = WalkStep(v, c)
  <2>1. ASSUME NEW x \in V \X Q PROVE WalkStep(x[1], x[2]) \in V
    BY WalkStepType
  <2>2. g \in [V \X Q -> V]
    <3> HIDE DEF V, Q
    <3> QED
      BY <2>1
  <2>3. ASSUME NEW v \in V, NEW c \in Q PROVE g[<<v, c>>] = WalkStep(v, c)
    <3> HIDE DEF V, Q
    <3> QED
      OBVIOUS
  <2> QED
    BY <2>2, <2>3
<1> HIDE DEF g, V, Q, b
<1>5. PICK F \in [SUBSET D -> V] : ByFold(F, s, b, g)
  BY <1>3, <1>4, FoldExists
<1>6. \A S \in SUBSET D : S # {} => Max(S) \in 1..Len(s)
  BY <1>1, MaxFacts
<1>7. F = Step(F)
  <2>1. ASSUME NEW S \in SUBSET D, S # {}
        PROVE  g[<<F[S \ {Max(S)}], s[Max(S)]>>] = WalkStep(F[S \ {Max(S)}], s[Max(S)])
    <3>1. Max(S) \in 1..Len(s)
      BY <1>6, <2>1
    <3>2. s[Max(S)] \in Q /\ F[S \ {Max(S)}] \in V
      BY <1>1, <3>1
    <3> QED
      BY <1>4, <3>2
  <2>2. \A S \in SUBSET D : F[S] = IF S = {} THEN b ELSE g[<<F[S \ {Max(S)}], s[Max(S)]>>]
    BY <1>5 DEF ByFold
  <2>3. F = [S \in SUBSET D |-> F[S]]
    OBVIOUS
  <2> QED
    BY <2>1, <2>2, <2>3
<1>8. chosen = Step(chosen)
  <2> HIDE DEF Step
  <2> QED
    BY <1>7
<1> HIDE DEF chosen, D
<1>9. chosen[{}] = b
  <2>1. {} \in SUBSET D
    OBVIOUS
  <2> QED
    BY <1>8, <2>1
<1>10. ASSUME NEW S \in SUBSET D, S # {}, chosen[S \ {Max(S)}] \in V
       PROVE  chosen[S] = g[<<chosen[S \ {Max(S)}], s[Max(S)]>>]
  <2>1. Max(S) \in 1..Len(s)
    BY <1>1, <1>6, <1>10
  <2>2. chosen[S] = WalkStep(chosen[S \ {Max(S)}], s[Max(S)])
    BY <1>8, <1>10
  <2> QED
    BY <1>1, <1>4, <1>10, <2>1, <2>2
<1>11. PICK f \in [0..Len(s) -> V] : Successive(f, s, b, g) /\ chosen[D] = f[Len(s)]
  <2>1. g \in [V \X Q -> V]
    BY <1>4
  <2>2. ByFoldIn(V, chosen, s, b, g)
    BY <1>9, <1>10 DEF D, ByFoldIn
  <2> HIDE DEF chosen
  <2>3. Passes(V, s, b, g, chosen[DOMAIN s])
    BY <1>3, <2>1, <2>2, FoldSteps
  <2> QED
    BY <2>3 DEF D, Passes
<1>12. \A i \in 1..Len(s) : f[i] = WalkStep(f[i - 1], s[i])
  <2> SUFFICES ASSUME NEW i \in 1..Len(s) PROVE f[i] = WalkStep(f[i - 1], s[i])
    OBVIOUS
  <2>1. i - 1 \in 0..Len(s)
    BY <1>1
  <2>2. f[i - 1] \in V /\ s[i] \in Q
    BY <1>1, <1>11, <2>1
  <2> QED
    BY <1>4, <1>11, <2>2 DEF Successive
<1> QED
  BY <1>2, <1>11, <1>12 DEF V, Q, b, Successive

\* Without ".." the parts that are followed are those that name something.
LEMMA FollowIsWithout ==
  ASSUME NEW T, NEW s \in Seq(Seq(T)), s # <<>>, \A i \in 1..Len(s) : s[i] # DotDot
  PROVE  Follow(s) = Without(s, {<<>>, Dot})
<1> DEFINE Q == Seq(T)
           n == Len(s)
           seqs == [i \in DOMAIN s |-> IF s[i] \in Range(s) \ {<<>>, Dot} THEN <<s[i]>> ELSE <<>>]
<1>1. n \in Nat /\ n > 0 /\ DOMAIN s = 1..n /\ \A i \in 1..n : s[i] \in Q
  OBVIOUS
<1>2. PICK f \in [0..n -> Seq(Q)] :
        /\ f[0] = <<>>
        /\ \A i \in 1..n : f[i] = WalkStep(f[i - 1], s[i])
        /\ Follow(s) = f[n]
  BY FollowSteps
<1>3. Without(s, {<<>>, Dot}) = FlattenSeq(seqs)
  BY DEF Without, Only
<1>4. \A i \in 1..n : seqs[i] = IF s[i] \in {<<>>, Dot} THEN <<>> ELSE <<s[i]>>
  BY <1>1 DEF Range
<1>5. seqs \in Seq(Seq(Q)) /\ Len(seqs) = n /\ seqs # <<>>
  <2>1. \A i \in 1..n : seqs[i] \in Seq(Q)
    <3> HIDE DEF Q, seqs
    <3>1. ASSUME NEW i \in 1..n PROVE seqs[i] \in Seq(Q)
      <4> DEFINE e == s[i]
      <4>1. e \in Q /\ (seqs[i] = <<>> \/ seqs[i] = <<e>>)
        BY <1>1, <1>4
      <4> HIDE DEF e
      <4>2. <<>> \in Seq(Q) /\ <<e>> \in Seq(Q)
        BY <4>1
      <4> QED
        BY <4>1, <4>2
    <3> QED
      BY <3>1
  <2>2. seqs = [i \in 1..n |-> seqs[i]]
    BY <1>1
  <2> HIDE DEF seqs, Q
  <2> QED
    BY <1>1, <2>1, <2>2
<1> HIDE DEF seqs, Q, n
<1>6. PICK h \in [1..n -> Seq(Q)] :
        /\ FlattenSeq(seqs) = h[n]
        /\ h[1] = seqs[1]
        /\ \A i \in 2..n : h[i] = h[i - 1] \o seqs[i]
  <2>1. PICK f1 \in [1..Len(seqs) -> Seq(Q)] :
          /\ FlattenSeq(seqs) = f1[Len(seqs)]
          /\ f1[1] = seqs[1]
          /\ \A i \in 2..Len(seqs) : f1[i] = f1[i - 1] \o seqs[i]
    BY <1>5, FlattenSteps
  <2> QED
    BY <1>5, <2>1
<1>7. \A i \in 1..n : s[i] # DotDot
  BY DEF n
<1> DEFINE N == {i \in Nat : i \in 1..n => f[i] = h[i]}
<1>8. 0 \in N
  OBVIOUS
<1>9. ASSUME NEW i \in Nat, i \in N PROVE i + 1 \in N
  <2> SUFFICES ASSUME i + 1 \in 1..n PROVE f[i + 1] = h[i + 1]
    OBVIOUS
  <2> DEFINE e == s[i + 1]
  <2>1. e \in Q /\ e # DotDot /\ i \in 0..n /\ (i + 1) - 1 = i
    BY <1>1, <1>7
  <2>2. f[i + 1] = WalkStep(f[i], e)
    BY <1>2, <2>1
  <2>3. seqs[i + 1] = IF e \in {<<>>, Dot} THEN <<>> ELSE <<e>>
    BY <1>4
  <2> HIDE DEF e
  <2>4. f[i + 1] = IF e \in {<<>>, Dot} THEN f[i] ELSE Append(f[i], e)
    BY <2>1, <2>2 DEF WalkStep
  <2>5. CASE i = 0
    <3>1. h[i + 1] = IF e \in {<<>>, Dot} THEN <<>> ELSE <<e>>
      BY <1>6, <2>3, <2>5
    <3>2. Append(<<>>, e) = <<e>>
      OBVIOUS
    <3> QED
      BY <1>2, <2>4, <2>5, <3>1, <3>2
  <2>6. CASE i # 0
    <3>1. i \in 1..n /\ i + 1 \in 2..n
      BY <1>1, <2>1, <2>6
    <3>2. f[i] = h[i] /\ f[i] \in Seq(Q)
      BY <1>9, <2>1, <3>1
    <3>3. h[i + 1] = h[i] \o seqs[i + 1]
      BY <1>6, <2>1, <3>1
    <3> DEFINE a == f[i]
    <3>4. a \o <<>> = a /\ a \o <<e>> = Append(a, e)
      BY <2>1, <3>2
    <3> QED
      BY <2>3, <2>4, <3>2, <3>3, <3>4
  <2> QED
    BY <2>5, <2>6
<1>10. n \in N
  <2> HIDE DEF N
  <2> QED
    BY <1>1, <1>8, <1>9, Induction
<1> QED
  BY <1>1, <1>2, <1>3, <1>6, <1>10

\* The pieces of a text that starts with a separator.
LEMMA SplitSlash ==
  ASSUME NEW T, "/" \in T, NEW b \in Seq(T)
  PROVE  AfterRoot(Split(<<"/">> \o b), Split(b))
<1> DEFINE Q == Seq(T)
           x == Split(<<>>)
           y == Split(b)
<1>1. <<>> \in Seq(T) /\ Slashed(<<>>) = <<"/">>
  BY DEF Slashed
<1>2. Split(<<"/">> \o b) = x \o y
  BY <1>1, SplitJoined
<1>3. x \in Seq(Q) /\ y \in Seq(Q)
  BY <1>1, SplitType DEF Pieces
<1>4. Len(x) = 1 /\ x[1] = <<>>
  BY SplitEmpty
<1>5. Len(y) \in Nat
  BY <1>3
<1> HIDE DEF x, y, Q
<1>6. IsConcat(Split(<<"/">> \o b), x, y)
  BY <1>2, <1>3, ConcatFacts
<1>7. AfterRoot(Split(<<"/">> \o b), y)
  <2>1. 1 \in 1..Len(x)
    BY <1>4
  <2>2. /\ Len(Split(<<"/">> \o b)) = 1 + Len(y) /\ Split(<<"/">> \o b)[1] = <<>>
        /\ \A k \in 1..Len(y) : Split(<<"/">> \o b)[1 + k] = y[k]
    BY <1>4, <1>6, <2>1 DEF IsConcat
  <2>3. \A k \in 1..Len(y) : 1 + k = k + 1
    OBVIOUS
  <2> QED
    BY <1>5, <2>2, <2>3 DEF AfterRoot
<1> QED
  BY <1>7 DEF y

\* A path that is written from parts does not start with two separators, unless the
\* first part is empty.
LEMMA JoinStarts ==
  ASSUME NEW T, "/" \notin T, NEW parts \in Seq(Seq(T)), parts # <<>>, parts[1] # <<>>
  PROVE  Join(parts)[1] # "/"
<1> DEFINE U == T \cup {"/"}
           j == Join(parts)
           t == Tail(j)
<1>1. parts \in Seq(Seq(U)) /\ "/" \in U
  <2>1. \A i \in 1..Len(parts) : parts[i] \in Seq(U)
    OBVIOUS
  <2>2. parts = [i \in 1..Len(parts) |-> parts[i]] /\ Len(parts) \in Nat
    OBVIOUS
  <2> DEFINE n == Len(parts)
  <2> HIDE DEF U, n
  <2>3. parts \in [1..n -> Seq(U)] /\ n \in Nat
    BY <2>1, <2>2 DEF n
  <2>4. "/" \in U
    BY DEF U
  <2> QED
    BY <2>3, <2>4
<1>2. j \in Seq(U)
  <2> HIDE DEF U
  <2> QED
    BY <1>1, JoinType
<1>3. AfterRoot(Split(<<"/">> \o j), parts)
  BY SplitText
<1> HIDE DEF U, j
<1> SUFFICES ASSUME j[1] = "/", j # <<>> PROVE FALSE
  <2>1. j = <<>> => FALSE
    <3> SUFFICES ASSUME j = <<>> PROVE FALSE
      OBVIOUS
    <3>1. AfterRoot(Split(<<"/">> \o j), Split(j))
      BY <1>1, <1>2, SplitSlash
    <3>2. Split(j) = << <<>> >>
      BY SplitEmpty
    <3> DEFINE z == Split(j)
    <3>3. Len(z) = 1 /\ z[1] = <<>>
      BY <3>2
    <3> HIDE DEF z
    <3>4. 1 \in 1..Len(z) /\ 1 \in 1..Len(parts)
      BY <3>3
    <3>5. parts[1] = <<>>
      BY <1>3, <3>1, <3>3, <3>4 DEF AfterRoot, z
    <3> QED
      BY <3>5
  <2> QED
    BY <2>1 DEF j
<1>4. t \in Seq(U) /\ j = <<"/">> \o t
  <2>0. Len(j) \in Nat /\ Len(j) > 0
    BY <1>2
  <2>4. Len(t) = Len(j) - 1
    BY <1>2, <2>0
  <2>5. t \in Seq(U)
    BY <1>2, <2>0
  <2>6. \A i \in 1..(Len(j) - 1) : t[i] = j[i + 1]
    BY <1>2, <2>0
  <2>1. t \in Seq(U) /\ Len(t) = Len(j) - 1 /\ \A i \in 1..(Len(j) - 1) : t[i] = j[i + 1]
    BY <2>4, <2>5, <2>6
  <2> HIDE DEF t
  <2> DEFINE u == <<"/">> \o t
  <2>2. u \in Seq(U) /\ Len(u) = Len(j) /\ \A i \in 1..Len(j) : u[i] = j[i]
    BY <1>1, <1>2, <2>1
  <2> HIDE DEF u
  <2>3. u = j
    BY <1>2, <2>2, SeqEqual
  <2> QED
    BY <2>1, <2>3 DEF u
<1> HIDE DEF t
<1> DEFINE z == Split(j)
           w == Split(t)
<1>5. AfterRoot(z, w)
  BY <1>1, <1>4, SplitSlash
<1>6. AfterRoot(Split(<<"/">> \o j), z)
  BY <1>1, <1>2, SplitSlash
<1>7. Len(w) \in Nat /\ Len(z) = Len(w) + 1 /\ z[1] = <<>>
  <2>1. w \in Pieces(U)
    BY <1>4, SplitType
  <2> HIDE DEF w
  <2>2. Len(w) \in Nat
    BY <2>1 DEF Pieces
  <2> QED
    BY <1>5, <2>2 DEF AfterRoot
<1> HIDE DEF z, w
<1>8. 1 \in 1..Len(z) /\ 1 \in 1..Len(parts)
  BY <1>7
<1>9. parts[1] = <<>>
  BY <1>3, <1>6, <1>7, <1>8 DEF AfterRoot
<1> QED
  BY <1>9

\* The parts of a text that name something.
LEMMA PartsFacts ==
  ASSUME NEW T, NEW s \in Seq(T), NEW set
  PROVE  /\ Without(Split(s), set) \in Seq(Seq(T \ {"/"}))
         /\ Range(Without(Split(s), set)) = Range(Split(s)) \ set
<1> DEFINE Q == Seq(T \ {"/"})
           q == Split(s)
           S == Range(q) \ set
<1>1. q \in Seq(Q)
  BY SplitPieces DEF Pieces
<1>2. Without(q, set) = Only(q, S)
  BY DEF Without
<1> HIDE DEF Q, q, S
<1>3. Only(q, S) \in Seq(Q \cap S) /\ Range(Only(q, S)) = Range(q) \cap S
  BY <1>1, OnlyFacts
<1>4. Only(q, S) \in Seq(Q)
  <2>1. Q \cap S \subseteq Q
    OBVIOUS
  <2> QED
    BY <1>3, <2>1
<1>5. Range(q) \cap S = Range(q) \ set
  BY DEF S
<1> QED
  BY <1>2, <1>3, <1>4, <1>5 DEF Q, q

\* A path that is accepted is written from the parts of what was asked, and these
\* are what it leads to when they are followed.
LEMMA NormalFacts ==
  ASSUME NEW T, NEW raw \in Seq(T),
         NormalizeApiPath(raw) # Refused, NormalizeApiPath(raw) # Root
  PROVE  /\ NormalizeApiPath(raw) = ApiPath(Relative(NormalizeApiPath(raw)))
         /\ Walk(raw) = Tail(Split(NormalizeApiPath(raw)))
         /\ \A i \in 1..Len(Walk(raw)) : Walk(raw)[i] # <<>>
<1> DEFINE U == T \cup {"/"}
           V == U \ {"/"}
           s == Forward(raw)
           p == NormalizeApiPath(raw)
           pieces == Split(s)
           parts == Without(pieces, {<<>>, Dot})
<1>1. s \in Seq(U) /\ "/" \in U /\ "/" \notin V
  BY ForwardType
<1>2. /\ p = IF parts = <<>> THEN Lead(s) ELSE Lead(s) \o Join(parts)
      /\ IsPrefix(Slashed(Root), p) /\ ~Contains(Split(p), DotDot)
  BY DEF NormalizeApiPath, Posix
<1>3. p \in Seq(U)
  BY NormalText
<1>4. parts \in Seq(Seq(V)) /\ Range(parts) = Range(pieces) \ {<<>>, Dot}
  <2> HIDE DEF s, U
  <2> QED
    BY <1>1, PartsFacts
<1>5. pieces \in Seq(Seq(V)) /\ pieces # <<>>
  <2> HIDE DEF s, U
  <2> QED
    BY <1>1, SplitPieces DEF Pieces
<1>6. Walk(raw) = Follow(pieces)
  BY DEF Walk, Follow
<1> HIDE DEF U, V, s, p, pieces, parts
<1>7. /\ Len(p) \in Nat /\ Len(p) >= 3
      /\ p[1] = "/" /\ p[2] = "config" /\ p[3] = "/"
  <2> DEFINE A == U \cup {"/", "config"}
  <2>1. Root \in Seq(A) /\ Len(Root) = 2 /\ Root[1] = "/" /\ Root[2] = "config" /\ p \in Seq(A)
    BY <1>3 DEF Root
  <2> HIDE DEF A
  <2>2. /\ Len(Root) + 1 <= Len(p)
        /\ \A i \in 1..Len(Root) : p[i] = Root[i]
        /\ p[Len(Root) + 1] = "/"
    BY ZenonT(60), <1>2, <2>1, BelowFacts
  <2>3. 1 \in 1..Len(Root) /\ 2 \in 1..Len(Root) /\ Len(Root) + 1 = 3 /\ Len(p) \in Nat
    BY <2>1
  <2> QED
    BY <2>1, <2>2, <2>3
<1>8. Lead(s) \in {<<"/", "/">>, <<"/">>, <<>>}
  BY DEF Lead
<1>9. parts # <<>>
  <2> SUFFICES ASSUME parts = <<>> PROVE FALSE
    OBVIOUS
  <2>1. p \in {<<"/", "/">>, <<"/">>, <<>>}
    BY <1>2, <1>8
  <2> QED
    BY <1>7, <2>1
<1>10. Join(parts) \in Seq(U) /\ parts[1] # <<>>
  <2>1. \A i \in 1..Len(parts) : parts[i] \in Seq(U) /\ parts[i] \in Range(parts)
    BY <1>4 DEF Range, V
  <2>2. 1 \in 1..Len(parts)
    BY <1>4, <1>9
  <2>3. parts \in Seq(Seq(U))
    <3> DEFINE n == Len(parts)
    <3>1. parts = [i \in 1..n |-> parts[i]] /\ n \in Nat
      BY <1>4
    <3>2. parts \in [1..n -> Seq(U)]
      BY <2>1, <3>1
    <3> HIDE DEF n
    <3> QED
      BY <3>1, <3>2
  <2> QED
    BY <1>1, <1>4, <1>9, <2>1, <2>2, <2>3, JoinType
<1>11. Join(parts)[1] # "/"
  BY <1>1, <1>4, <1>9, <1>10, JoinStarts
<1> DEFINE j == Join(parts)
<1>12. p = <<"/">> \o j
  <2>1. p = Lead(s) \o j
    BY <1>2, <1>9
  <2>2. j \in Seq(U) /\ j[1] # "/"
    BY <1>10, <1>11
  <2> HIDE DEF j
  <2>3. Lead(s) # <<>>
    <3> SUFFICES ASSUME Lead(s) = <<>> PROVE FALSE
      OBVIOUS
    <3>1. <<>> \o j = j
      BY <2>2
    <3> QED
      BY <1>7, <2>1, <2>2, <3>1
  <2>4. Lead(s) # <<"/", "/">>
    <3> SUFFICES ASSUME Lead(s) = <<"/", "/">> PROVE FALSE
      OBVIOUS
    <3>1. (<<"/", "/">> \o j)[2] = "/"
      BY <1>1, <2>2
    <3> QED
      BY <1>7, <2>1, <3>1
  <2> QED
    BY <1>8, <2>1, <2>3, <2>4
<1>13. AfterRoot(Split(p), parts)
  BY <1>1, <1>4, <1>9, <1>12, SplitText
<1> HIDE DEF j
<1> DEFINE q == Split(p)
           m == Len(parts)
           Q == Seq(V)
<1>14. m \in Nat /\ m > 0 /\ parts \in Seq(Q) /\ \A k \in 1..m : parts[k] \in Range(parts)
  <2>1. parts \in Seq(Q)
    BY <1>4
  <2> HIDE DEF Q
  <2> QED
    BY <1>9, <2>1, RangeFacts
<1>15. q \in Seq(Seq(U))
  BY <1>3, SplitType DEF Pieces
<1> HIDE DEF q, m, Q
<1>16. Len(q) = m + 1 /\ \A k \in 1..m : q[k + 1] = parts[k]
  BY <1>13 DEF AfterRoot, m, q
<1>17. Tail(q) = parts
  <2> DEFINE P == Seq(U)
             t == Tail(q)
  <2>1. q \in Seq(P)
    BY <1>15
  <2>2. parts \in Seq(P)
    <3>1. \A k \in 1..m : parts[k] \in P
      <4>1. \A k \in 1..m : parts[k] \in Q
        BY <1>14 DEF m
      <4>2. Q \subseteq P
        <5>1. V \subseteq U
          BY DEF V
        <5> QED
          BY <5>1 DEF Q
      <4> QED
        BY <4>1, <4>2
    <3>2. parts = [k \in 1..m |-> parts[k]]
      BY <1>14 DEF m
    <3> HIDE DEF P
    <3>3. parts \in [1..m -> P]
      BY <3>1, <3>2
    <3> QED
      BY <1>14, <3>3
  <2> HIDE DEF P
  <2>3. t \in Seq(P) /\ Len(t) = m /\ \A k \in 1..m : t[k] = q[k + 1]
    BY <1>14, <1>16, <2>1
  <2> HIDE DEF t
  <2>4. Len(parts) = m
    BY DEF m
  <2>5. \A k \in 1..m : t[k] = parts[k]
    BY <1>16, <2>3
  <2>6. t = parts
    BY <2>2, <2>3, <2>4, <2>5, SeqEqual
  <2> QED
    BY <2>6 DEF t
<1>18. \A k \in 1..m : parts[k] # DotDot
  <2> SUFFICES ASSUME NEW k \in 1..m, parts[k] = DotDot PROVE FALSE
    OBVIOUS
  <2>1. k + 1 \in DOMAIN q
    <3>1. k + 1 \in 1..Len(q)
      BY <1>14, <1>16
    <3> QED
      BY <1>15, <3>1
  <2>2. Contains(q, DotDot)
    BY <1>16, <2>1 DEF Contains
  <2> QED
    BY <1>2, <2>2 DEF q
<1>19. \A i \in 1..Len(pieces) : pieces[i] # DotDot
  <2> SUFFICES ASSUME NEW i \in 1..Len(pieces), pieces[i] = DotDot PROVE FALSE
    OBVIOUS
  <2>1. pieces[i] \in Range(pieces)
    BY <1>5 DEF Range
  <2>2. DotDot \notin {<<>>, Dot}
    <3>1. Len(DotDot) = 2 /\ Len(Dot) = 1 /\ Len(<<>>) = 0
      BY DEF DotDot, Dot
    <3> QED
      BY <3>1
  <2>3. DotDot \in Range(parts)
    BY <1>4, <2>1, <2>2
  <2>4. \E k \in 1..m : DotDot = parts[k]
    BY <1>14, <2>3, RangeFacts DEF m
  <2> QED
    BY <1>18, <2>4
<1>20. Walk(raw) = parts
  <2>1. Follow(pieces) = Without(pieces, {<<>>, Dot})
    BY <1>5, <1>19, FollowIsWithout
  <2> QED
    BY <1>6, <2>1 DEF parts
<1>21. \A i \in 1..m : parts[i] # <<>>
  BY <1>4, <1>14
<1>22. p = ApiPath(Relative(p))
  <2> DEFINE f == SubSeq(p, 4, Len(p))
             r == Slashed(Root)
             A == U \cup {"/", "config"}
             u == r \o f
  <2>1. Relative(p) = f
    <3>1. Len(Root) + 2 = 4
      BY DEF Root
    <3> QED
      BY <1>2, <3>1 DEF Relative
  <2>2. p \in Seq(A) /\ Root \in Seq(A) /\ Len(Root) = 2 /\ Root[1] = "/" /\ Root[2] = "config"
    BY <1>3 DEF Root
  <2>3. "/" \in A
    OBVIOUS
  <2> HIDE DEF A
  <2>4. r \in Seq(A) /\ Len(r) = 3 /\ r[1] = "/" /\ r[2] = "config" /\ r[3] = "/"
    <3>1. /\ r \in Seq(A) /\ Len(r) = Len(Root) + 1 /\ r[Len(Root) + 1] = "/"
          /\ \A i \in 1..Len(Root) : r[i] = Root[i]
      BY <2>2, <2>3, SlashedText
    <3>2. 1 \in 1..Len(Root) /\ 2 \in 1..Len(Root) /\ Len(Root) + 1 = 3
      BY <2>2
    <3> HIDE DEF r
    <3> QED
      BY <2>2, <3>1, <3>2
  <2>5. /\ f \in Seq(A) /\ Len(f) = Len(p) - 3
        /\ \A i \in 1..(Len(p) - 3) : f[i] = p[i + 3]
    <3> DEFINE n == Len(p)
    <3>1. n \in Nat /\ n >= 3 /\ n = Len(p)
      BY <1>7
    <3> HIDE DEF n
    <3>2. f = SubSeq(p, 4, n)
      BY <3>1
    <3>3. SubSeq(p, 4, n) \in Seq(A) /\ Len(SubSeq(p, 4, n)) = n - 3
      BY <2>2, <3>1
    <3>4. \A i \in 1..(n - 3) : SubSeq(p, 4, n)[i] = p[i + 3]
      BY <2>2, <3>1
    <3> QED
      BY <3>1, <3>2, <3>3, <3>4
  <2> HIDE DEF f, r
  <2>6. IsConcat(u, r, f) /\ u \in Seq(A)
    BY <2>4, <2>5, ConcatFacts
  <2>7. Len(u) = Len(p)
    BY <1>7, <2>4, <2>5, <2>6 DEF IsConcat
  <2>8. ASSUME NEW i \in 1..Len(p) PROVE u[i] = p[i]
    <3>1. CASE i \in 1..3
      <4>1. u[i] = r[i]
        BY <2>4, <2>6, <3>1 DEF IsConcat
      <4>2. i = 1 \/ i = 2 \/ i = 3
        BY <3>1
      <4> QED
        BY <1>7, <2>4, <4>1, <4>2
    <3>2. CASE i > 3
      <4> DEFINE k == i - 3
      <4>1. k \in 1..(Len(p) - 3) /\ i = 3 + k /\ i = k + 3
        BY <1>7, <3>2
      <4> HIDE DEF k
      <4>2. u[3 + k] = f[k]
        BY <2>4, <2>5, <2>6, <4>1 DEF IsConcat
      <4> QED
        BY <2>5, <4>1, <4>2
    <3>3. i \in 1..3 \/ i > 3
      BY <1>7
    <3> QED
      BY <3>1, <3>2, <3>3
  <2> HIDE DEF u
  <2>9. u = p
    BY <2>2, <2>6, <2>7, <2>8, SeqEqual
  <2> QED
    BY <2>1, <2>9 DEF ApiPath, f, r, u
<1> QED
  BY <1>17, <1>20, <1>21, <1>22 DEF p, q, m

-----------------------------------------------------------------------------
(* What is protected *)

\* The parts of the path of a file: the name of the root, and those of the file.
LEMMA ApiPathParts ==
  ASSUME NEW T, NEW f \in Seq(T)
  PROVE  LET parts == Tail(Split(ApiPath(f)))
             names == Split(f)
         IN /\ parts \in Pieces(T \cup {"/", "config"}) /\ names \in Pieces(T)
            /\ Len(parts) = Len(names) + 1
            /\ \A k \in 1..Len(names) : parts[k + 1] = names[k]
<1> DEFINE U == T \cup {"/", "config"}
           Q == Seq(U)
           q == Split(ApiPath(f))
           a == Split(Root)
           b == Split(f)
           w == Split(<<"config">>)
<1>1. Root \in Seq(U) /\ f \in Seq(U) /\ "/" \in U /\ <<"config">> \in Seq(U)
  BY DEF Root
<1>2. b \in Pieces(T)
  BY SplitType
<1> HIDE DEF U
<1>3. q = a \o b
  BY <1>1, SplitJoined DEF ApiPath
<1>4. a \in Seq(Q) /\ b \in Seq(Q) /\ b # <<>>
  BY <1>1, SplitType DEF Pieces
<1>5. Len(a) = 2
  <2>1. <<"/">> \o <<"config">> = Root
    <3> DEFINE u == <<"/">> \o <<"config">>
               V == {"/", "config"}
    <3>1. u \in Seq(V) /\ Len(u) = 2 /\ u[1] = "/" /\ u[2] = "config"
      OBVIOUS
    <3>2. Root \in Seq(V) /\ Len(Root) = 2 /\ Root[1] = "/" /\ Root[2] = "config"
      BY DEF Root
    <3> HIDE DEF u, V
    <3>3. \A i \in 1..2 : u[i] = Root[i]
      BY <3>1, <3>2
    <3>4. u = Root
      BY <3>1, <3>2, <3>3, SeqEqual
    <3> QED
      BY <3>4 DEF u
  <2>2. AfterRoot(a, w)
    BY <1>1, <2>1, SplitSlash
  <2>3. <<"config">> \in Seq({"config"}) /\ "/" \notin {"config"}
    OBVIOUS
  <2>4. w = << <<"config">> >>
    BY <2>3, SplitWhole
  <2>5. Len(w) = 1
    BY <2>4
  <2> HIDE DEF a, w
  <2> QED
    BY <2>2, <2>5 DEF AfterRoot
<1> HIDE DEF Q, q, a, b
<1> DEFINE n == Len(b)
           parts == Tail(q)
<1>6. n \in Nat /\ n > 0
  BY <1>4
<1>7. IsConcat(q, a, b) /\ q \in Seq(Q)
  BY <1>3, <1>4, ConcatFacts
<1>8. Len(q) = n + 2 /\ \A k \in 1..n : q[2 + k] = b[k]
  BY <1>5, <1>6, <1>7 DEF IsConcat
<1> HIDE DEF n
<1>9. parts \in Seq(Q) /\ Len(parts) = n + 1 /\ \A k \in 1..(n + 1) : parts[k] = q[k + 1]
  BY <1>6, <1>7, <1>8
<1>10. \A k \in 1..n : parts[k + 1] = b[k]
  <2> SUFFICES ASSUME NEW k \in 1..n PROVE parts[k + 1] = b[k]
    OBVIOUS
  <2>1. k + 1 \in 1..(n + 1) /\ (k + 1) + 1 = 2 + k
    BY <1>6
  <2> QED
    BY <1>8, <1>9, <2>1
<1> HIDE DEF parts
<1>11. parts \in Pieces(U)
  <2>1. Len(parts) # 0
    BY <1>6, <1>9
  <2>2. parts # <<>>
    BY <2>1
  <2> QED
    BY <1>9, <2>2 DEF Pieces, Q
<1> QED
  BY <1>2, <1>9, <1>10, <1>11 DEF U, n, b, q, parts

\* The suffix of a name that ends with ".db".
LEMMA DatabaseSuffix ==
  ASSUME NEW T, NEW x \in Seq(T), x # <<>>
  PROVE  Suffix(Append(Append(x, "."), "db")) = <<".", "db">>
<1> DEFINE U == T \cup {".", "db"}
           n == Len(x)
           y == Append(Append(x, "."), "db")
           S == {i \in 1..Len(y) : y[i] = "."}
<1>1. n \in Nat /\ n > 0
  OBVIOUS
<1>2. /\ y \in Seq(U) /\ Len(y) = n + 2 /\ y[n + 1] = "." /\ y[n + 2] = "db"
      /\ DOMAIN y = 1..(n + 2)
  <2>1. Append(x, ".") \in Seq(U) /\ Len(Append(x, ".")) = n + 1 /\ Append(x, ".")[n + 1] = "."
    OBVIOUS
  <2> DEFINE z == Append(x, ".")
  <2> HIDE DEF z
  <2>2. z \in Seq(U) /\ Len(z) = n + 1 /\ z[n + 1] = "." /\ "db" \in U
    BY <2>1 DEF z
  <2> HIDE DEF U, n
  <2>3. LET v == Append(z, "db")
        IN /\ v \in Seq(U) /\ Len(v) = n + 2 /\ v[n + 1] = "." /\ v[n + 2] = "db"
           /\ DOMAIN v = 1..(n + 2)
    BY <1>1, <2>2
  <2> QED
    BY <2>3 DEF z
<1> HIDE DEF y, n, U
<1>3. S \in SUBSET (1..(n + 1)) /\ n + 1 \in S
  <2>1. \A i \in S : i # n + 2
    BY <1>2
  <2>2. n + 1 \in S
    BY <1>1, <1>2
  <2> QED
    BY <1>1, <1>2, <2>1, <2>2
<1>4. SelectLastInSeq(y, LAMBDA c : c = ".") = IF S # {} THEN Max(S) ELSE 0
  BY DEF SelectLastInSeq
<1>5. Max(S) = n + 1
  <2> HIDE DEF S
  <2>1. n + 1 \in Nat
    BY <1>1
  <2> QED
    BY <1>3, <2>1, MaxIs
<1> HIDE DEF S
<1>6. SelectLastInSeq(y, LAMBDA c : c = ".") = n + 1
  BY <1>3, <1>4, <1>5
<1>7. Suffix(y) = SubSeq(y, n + 1, n + 2)
  BY <1>1, <1>2, <1>6 DEF Suffix
<1>8. SubSeq(y, n + 1, n + 2) = <<".", "db">>
  <2> DEFINE u == SubSeq(y, n + 1, n + 2)
             v == <<".", "db">>
  <2>1. u \in Seq(U) /\ Len(u) = 2 /\ u[1] = y[n + 1] /\ u[2] = y[n + 2]
    BY <1>1, <1>2
  <2>2. v \in Seq(U) /\ Len(v) = 2 /\ v[1] = "." /\ v[2] = "db"
    BY DEF U
  <2> HIDE DEF u, v
  <2>3. \A i \in 1..2 : i = 1 \/ i = 2
    OBVIOUS
  <2>4. u = v
    BY <1>2, <2>1, <2>2, <2>3, SeqEqual
  <2> QED
    BY <2>4 DEF u, v
<1> QED
  BY <1>7, <1>8 DEF y

LEMMA DatabaseName == Head(Append(Append(<<>>, "."), "db")) = "."
<1> DEFINE a == Append(<<>>, ".")
           V == {".", "db"}
<1>1. a \in Seq(V) /\ a # <<>> /\ Head(a) = "." /\ "db" \in V
  OBVIOUS
<1> HIDE DEF a, V
<1>2. Head(Append(a, "db")) = Head(a)
  BY <1>1, AppendStarts
<1> QED
  BY <1>1, <1>2 DEF a

\* Whatever is protected is forbidden.
LEMMA ProtectedIsForbidden ==
  ASSUME NEW T, NEW f \in Seq(T), Protected(f)
  PROVE  Forbidden(ApiPath(f))
<1> DEFINE parts == Tail(Split(ApiPath(f)))
           names == Split(f)
           n == Len(names)
           U == T \cup {"/", "config"}
           Q == Seq(U)
<1>1. /\ parts \in Seq(Q) /\ names \in Seq(Q) /\ names # <<>>
      /\ Len(parts) = n + 1
      /\ \A k \in 1..n : parts[k + 1] = names[k]
  <2>1. /\ parts \in Pieces(U) /\ names \in Pieces(T)
        /\ Len(parts) = n + 1
        /\ \A k \in 1..n : parts[k + 1] = names[k]
    BY ApiPathParts
  <2>2. f \in Seq(U)
    OBVIOUS
  <2> HIDE DEF parts, U
  <2>3. names \in Pieces(U)
    BY <2>2, SplitType
  <2> HIDE DEF names
  <2> QED
    BY <2>1, <2>3 DEF Pieces
<1>2. Forbidden(ApiPath(f)) <=>
        \/ Last(parts) = <<"secrets", ".", "yaml">>
        \/ \E i \in DOMAIN parts : Head(parts[i]) = "."
        \/ \E i \in 1..(Len(parts) - 1) : parts[i] \in HiddenFolders
        \/ Suffix(Last(parts)) \in {<<".", "db">>, <<".", "DB">>}
  BY DEF Forbidden
<1>3. \/ f = <<"secrets", ".", "yaml">>
      \/ n > 1 /\ Head(names) \in HiddenFolders
      \/ IsSuffix(<<".", "db">>, f)
      \/ \E i \in DOMAIN names : IsPrefix(Dot, names[i])
  BY DEF Protected
<1>4. f = <<"secrets", ".", "yaml">> => names = <<f>>
  <2> SUFFICES ASSUME f = <<"secrets", ".", "yaml">> PROVE Split(f) = <<f>>
    OBVIOUS
  <2> DEFINE W == {"secrets", ".", "yaml"}
  <2>1. f \in Seq(W) /\ "/" \notin W
    OBVIOUS
  <2> HIDE DEF W
  <2> QED
    BY <2>1, SplitWhole
<1>5. IsSuffix(<<".", "db">>, f) =>
        \E x \in Seq(T) : names[n] = Append(Append(x, "."), "db")
  <2> SUFFICES ASSUME IsSuffix(<<".", "db">>, f)
               PROVE  \E x \in Seq(T) : names[n] = Append(Append(x, "."), "db")
    OBVIOUS
  <2> DEFINE m == Len(f)
             g == SubSeq(f, 1, m - 2)
             h == Append(g, ".")
             s == Append(h, "db")
  <2>1. m \in Nat /\ m >= 2 /\ f[m - 1] = "." /\ f[m] = "db"
    <3> DEFINE d == <<".", "db">>
    <3>1. Len(d) = 2 /\ d[1] = "." /\ d[2] = "db"
      OBVIOUS
    <3> DEFINE e == Reverse(d)
               r == Reverse(f)
               V == {".", "db"}
    <3>2. m \in Nat
      OBVIOUS
    <3>3. e = [i \in 1..2 |-> d[(2 - i) + 1]] /\ r = [i \in 1..m |-> f[(m - i) + 1]]
      BY <3>1 DEF Reverse
    <3>4. e \in Seq(V) /\ Len(e) = 2 /\ e[1] = "db" /\ e[2] = "."
      <4>1. e \in [1..2 -> V]
        BY <3>1, <3>3
      <4> HIDE DEF e, V
      <4> DEFINE k == 2
      <4>3. k \in Nat /\ k = 2 /\ e \in [1..k -> V]
        BY <4>1
      <4> HIDE DEF k
      <4>5. k \in Nat /\ e \in [1..k -> V]
        BY <4>3
      <4>4. e \in Seq(V) /\ Len(e) = k
        BY <4>5
      <4>2. e \in Seq(V) /\ Len(e) = 2
        BY <4>3, <4>4
      <4> QED
        BY <3>1, <3>3, <4>2
    <3>5. r \in Seq(T) /\ Len(r) = m
      <4>1. \A i \in 1..m : f[(m - i) + 1] \in T
        BY <3>2
      <4>2. r \in [1..m -> T]
        BY <3>3, <4>1
      <4> HIDE DEF r, m
      <4> QED
        BY <3>2, <4>2
    <3>6. IsPrefix(e, r)
      BY DEF IsSuffix
    <3> HIDE DEF e, r, V, m
    <3>7. m >= 2 /\ SubSeq(e, 1, 2) = SubSeq(r, 1, 2)
      BY <3>2, <3>4, <3>5, <3>6 DEF IsPrefix
    <3>8. SubSeq(e, 1, 2)[1] = e[1] /\ SubSeq(e, 1, 2)[2] = e[2]
      BY <3>4
    <3>9. SubSeq(r, 1, 2)[1] = r[1] /\ SubSeq(r, 1, 2)[2] = r[2]
      BY <3>2, <3>5, <3>7
    <3>10. r[1] = f[m] /\ r[2] = f[m - 1]
      <4>1. 1 \in 1..m /\ 2 \in 1..m /\ (m - 1) + 1 = m /\ (m - 2) + 1 = m - 1
        BY <3>2, <3>7
      <4> QED
        BY <3>3, <4>1
    <3> QED
      BY <3>2, <3>4, <3>7, <3>8, <3>9, <3>10 DEF m
  <2>2. "." \in T /\ "db" \in T
    <3>1. m - 1 \in 1..m /\ m \in 1..m
      BY <2>1
    <3> QED
      BY <2>1, <3>1
  <2>3. g \in Seq(T) /\ Len(g) = m - 2 /\ \A i \in 1..(m - 2) : g[i] = f[i]
    BY <2>1
  <2> HIDE DEF g
  <2>4. /\ h \in Seq(T) /\ Len(h) = m - 1 /\ h[m - 1] = "."
        /\ \A i \in 1..(m - 2) : h[i] = g[i]
    BY <2>1, <2>2, <2>3
  <2> HIDE DEF h
  <2>5. /\ s \in Seq(T) /\ Len(s) = m /\ s[m] = "db"
        /\ \A i \in 1..(m - 1) : s[i] = h[i]
    BY <2>1, <2>2, <2>4
  <2> HIDE DEF s
  <2>6. s = f
    <3>1. ASSUME NEW i \in 1..m PROVE s[i] = f[i]
      <4>1. i = m \/ i = m - 1 \/ i \in 1..(m - 2)
        BY <2>1
      <4>2. i = m - 1 => i \in 1..(m - 1)
        BY <2>1
      <4>3. i \in 1..(m - 2) => i \in 1..(m - 1)
        BY <2>1
      <4> QED
        BY <2>1, <2>3, <2>4, <2>5, <4>1, <4>2, <4>3
    <3> QED
      BY <2>1, <2>5, <3>1, SeqEqual
  <2> DEFINE p == Split(g)
             r == Split(h)
             P == Seq(T)
  <2>7. r = SplitStep(p, ".")
    BY <2>2, <2>3, SplitAppend DEF h
  <2>8. names = SplitStep(r, "db")
    BY <2>2, <2>4, <2>6, SplitAppend DEF s
  <2>9. p \in Seq(P) /\ r \in Seq(P) /\ p # <<>> /\ r # <<>>
    BY <2>3, <2>4, SplitType DEF Pieces
  <2>10. Last(p) \in P /\ Last(r) \in P
    <3> HIDE DEF p, r, P
    <3> QED
      BY <2>9 DEF Last
  <2> DEFINE x == Last(p)
             y == Append(x, ".")
             z == Append(Last(r), "db")
  <2>11. y \in P /\ z \in P
    BY <2>2, <2>10
  <2>12. r = Append(Front(p), y) /\ names = Append(Front(r), z)
    BY <2>7, <2>8 DEF SplitStep
  <2> HIDE DEF p, r, names, y, z, P
  <2>13. Front(p) \in Seq(P) /\ Front(r) \in Seq(P)
    BY <2>9 DEF Front
  <2>14. Last(r) = y
    BY <2>11, <2>12, <2>13 DEF Last
  <2>15. names[n] = z
    BY <2>11, <2>12, <2>13
  <2>16. x \in Seq(T)
    BY <2>10 DEF P
  <2> QED
    BY <2>14, <2>15, <2>16 DEF y, z
<1> HIDE DEF parts, names, U, Q
<1>6. n \in Nat /\ n > 0 /\ DOMAIN parts = 1..(n + 1) /\ n \in 1..n /\ n + 1 \in 1..(n + 1)
  BY <1>1
<1>7. Last(parts) = names[n]
  BY <1>1, <1>6 DEF Last
<1>8. CASE f = <<"secrets", ".", "yaml">>
  <2>1. names = <<f>>
    BY <1>4, <1>8
  <2>2. n = 1 /\ names[1] = f
    BY <2>1
  <2> QED
    BY <1>2, <1>7, <1>8, <2>2
<1>9. CASE n > 1 /\ Head(names) \in HiddenFolders
  <2>1. 1 \in 1..n /\ 1 + 1 = 2 /\ 2 \in 1..(Len(parts) - 1)
    BY <1>1, <1>6, <1>9
  <2>2. Head(names) = names[1]
    BY <1>1
  <2>3. parts[2] \in HiddenFolders
    BY <1>1, <1>9, <2>1, <2>2
  <2> QED
    BY <1>2, <2>1, <2>3
<1>10. ASSUME NEW i \in 1..n, Head(names[i]) = "." PROVE Forbidden(ApiPath(f))
  <2>1. i + 1 \in DOMAIN parts /\ parts[i + 1] = names[i]
    BY <1>1, <1>6
  <2>2. Head(parts[i + 1]) = "."
    BY <1>10, <2>1
  <2> QED
    BY <1>2, <2>1, <2>2
<1>11. CASE IsSuffix(<<".", "db">>, f)
  <2>1. PICK x \in Seq(T) : names[n] = Append(Append(x, "."), "db")
    BY <1>5, <1>11
  <2>2. CASE x = <<>>
    <3>1. Head(names[n]) = "."
      BY <2>1, <2>2, DatabaseName
    <3> QED
      BY <1>6, <1>10, <3>1
  <2>3. CASE x # <<>>
    <3>1. Suffix(Last(parts)) = <<".", "db">>
      BY <1>7, <2>1, <2>3, DatabaseSuffix
    <3> QED
      BY <1>2, <3>1
  <2> QED
    BY <2>2, <2>3
<1>12. CASE \E i \in DOMAIN names : IsPrefix(Dot, names[i])
  <2>1. PICK i \in 1..n : IsPrefix(Dot, names[i])
    BY <1>1, <1>12
  <2> DEFINE w == names[i]
  <2>2. w \in Q
    BY <1>1
  <2>3. w \in Seq(U) /\ IsPrefix(Dot, w)
    BY <2>1, <2>2 DEF Q
  <2> HIDE DEF w, U
  <2>4. Head(w) = "."
    BY <2>3 DEF IsPrefix, Dot
  <2> QED
    BY <1>10, <2>4 DEF w
<1> QED
  BY <1>3, <1>8, <1>9, <1>11, <1>12

-----------------------------------------------------------------------------
(* A name and a pattern of one part *)

\* A character of a pattern and a character of a name.
Takes(x, c) == x = c \/ (x = "?" /\ c \notin Words)

\* The character x of a pattern has the characters of d from i to before j.
CutStep(x, d, i, j) ==
  IF x = "*" THEN i <= j ELSE j = i + 1 /\ Takes(x, d[i])

\* What is before e in d can be cut so that each character of b has its share.
CutsTo(d, b, e) ==
  \E cut \in [1..(Len(b) + 1) -> 1..e] :
    /\ cut[1] = 1 /\ cut[Len(b) + 1] = e
    /\ \A i \in 1..Len(b) : CutStep(b[i], d, cut[i], cut[i + 1])

LEMMA PartIsCut ==
  ASSUME NEW U, NEW a \in Seq(U), NEW T, NEW b \in Seq(T)
  PROVE  PartMatches(a, b) <=> CutsTo(a, b, Len(a) + 1)
<1>1. DOMAIN b = 1..Len(b)
  OBVIOUS
<1> QED
  BY <1>1 DEF PartMatches, CutsTo, CutStep, Takes

\* A character more in the pattern.
LEMMA CutsAppend ==
  ASSUME NEW d, NEW T, NEW b \in Seq(T), NEW x \in T, NEW e \in Nat \ {0}
  PROVE  CutsTo(d, Append(b, x), e)
           <=> \E m \in 1..e : CutsTo(d, b, m) /\ CutStep(x, d, m, e)
<1> DEFINE k == Len(b)
           bx == Append(b, x)
<1>1. /\ k \in Nat /\ Len(bx) = k + 1 /\ bx[k + 1] = x
      /\ \A i \in 1..k : bx[i] = b[i]
  OBVIOUS
<1> HIDE DEF bx, k
<1>2. ASSUME CutsTo(d, bx, e)
      PROVE  \E m \in 1..e : CutsTo(d, b, m) /\ CutStep(x, d, m, e)
  <2>1. PICK cut \in [1..((k + 1) + 1) -> 1..e] :
               /\ cut[1] = 1 /\ cut[(k + 1) + 1] = e
               /\ \A i \in 1..(k + 1) : CutStep(bx[i], d, cut[i], cut[i + 1])
    BY <1>1, <1>2 DEF CutsTo
  <2> DEFINE m == cut[k + 1]
             N == {n \in Nat : n <= k => cut[(k + 1) - n] <= m}
  <2>2. ASSUME NEW i \in 1..(k + 1)
        PROVE  /\ cut[i] \in 1..e /\ cut[i + 1] \in 1..e
               /\ cut[i] \in Nat /\ cut[i + 1] \in Nat /\ cut[i] <= cut[i + 1]
    <3>1. i \in 1..((k + 1) + 1) /\ i + 1 \in 1..((k + 1) + 1)
      BY <1>1
    <3>2. cut[i] \in 1..e /\ cut[i + 1] \in 1..e
      BY <3>1
    <3> QED
      BY <2>1, <3>2 DEF CutStep
  <2>3. 0 \in N /\ \A n \in Nat : n \in N => n + 1 \in N
    <3>1. (k + 1) - 0 = k + 1 /\ k + 1 \in 1..(k + 1)
      BY <1>1
    <3>2. 0 \in N
      BY <2>2, <3>1
    <3>3. ASSUME NEW n \in Nat, n \in N, n + 1 <= k PROVE cut[(k + 1) - (n + 1)] <= m
      <4> DEFINE i == k - n
      <4>1. /\ (k + 1) - (n + 1) = i /\ (k + 1) - n = i + 1 /\ n <= k
            /\ i \in 1..(k + 1) /\ k + 1 \in 1..(k + 1)
        BY <1>1, <3>3
      <4>2. cut[i + 1] <= m
        BY <3>3, <4>1
      <4> HIDE DEF i
      <4>3. cut[i] \in Nat /\ cut[i + 1] \in Nat /\ cut[i] <= cut[i + 1]
        BY <2>2, <4>1
      <4>4. m \in Nat
        BY <2>2, <4>1
      <4> HIDE DEF m
      <4> QED
        BY <4>1, <4>2, <4>3, <4>4
    <3> QED
      BY <3>2, <3>3
  <2>4. \A i \in 1..(k + 1) : cut[i] <= m
    <3>1. Nat \subseteq N
      <4> HIDE DEF N
      <4> QED
        BY <2>3, Induction
    <3>2. ASSUME NEW i \in 1..(k + 1) PROVE cut[i] <= m
      <4>1. (k + 1) - i \in Nat /\ (k + 1) - i <= k /\ (k + 1) - ((k + 1) - i) = i
        BY <1>1
      <4> QED
        BY <3>1, <4>1
    <3> QED
      BY <3>2
  <2>5. m \in 1..e /\ k + 1 \in 1..(k + 1)
    BY <1>1, <2>2
  <2>6. CutStep(x, d, m, e)
    BY <1>1, <2>1, <2>5
  <2> DEFINE c == [i \in 1..(k + 1) |-> cut[i]]
  <2>7. c \in [1..(k + 1) -> 1..m]
    BY <2>2, <2>4, <2>5
  <2>8. /\ c[1] = 1 /\ c[k + 1] = m
        /\ \A i \in 1..k : CutStep(b[i], d, c[i], c[i + 1])
    <3>1. 1 \in 1..(k + 1) /\ \A i \in 1..k : i \in 1..(k + 1) /\ i + 1 \in 1..(k + 1)
      BY <1>1
    <3>2. c[1] = 1 /\ c[k + 1] = m
      BY <2>1, <2>5, <3>1
    <3>3. ASSUME NEW i \in 1..k PROVE CutStep(b[i], d, c[i], c[i + 1])
      <4>1. c[i] = cut[i] /\ c[i + 1] = cut[i + 1] /\ bx[i] = b[i]
        BY <1>1, <3>1
      <4> HIDE DEF c
      <4> QED
        BY <2>1, <3>1, <4>1
    <3> QED
      BY <3>2, <3>3
  <2> HIDE DEF c
  <2>9. CutsTo(d, b, m)
    BY <2>7, <2>8 DEF CutsTo, k
  <2> QED
    BY <2>5, <2>6, <2>9
<1>3. ASSUME NEW m \in 1..e, CutsTo(d, b, m), CutStep(x, d, m, e)
      PROVE  CutsTo(d, bx, e)
  <2>1. PICK cut \in [1..(k + 1) -> 1..m] :
               /\ cut[1] = 1 /\ cut[k + 1] = m
               /\ \A i \in 1..k : CutStep(b[i], d, cut[i], cut[i + 1])
    BY <1>3 DEF CutsTo, k
  <2> DEFINE c == [i \in 1..((k + 1) + 1) |-> IF i = k + 2 THEN e ELSE cut[i]]
  <2>2. /\ c \in [1..((k + 1) + 1) -> 1..e]
        /\ \A i \in 1..(k + 1) : c[i] = cut[i]
        /\ c[(k + 1) + 1] = e
    BY <1>1
  <2> HIDE DEF c
  <2>3. ASSUME NEW i \in 1..(k + 1) PROVE CutStep(bx[i], d, c[i], c[i + 1])
    <3>1. CASE i = k + 1
      BY <1>1, <1>3, <2>1, <2>2, <3>1
    <3>2. CASE i \in 1..k
      <4>1. i \in 1..(k + 1) /\ i + 1 \in 1..(k + 1)
        BY <1>1, <3>2
      <4> QED
        BY <1>1, <2>1, <2>2, <3>2, <4>1
    <3> QED
      BY <1>1, <3>1, <3>2
  <2>4. c[1] = 1
    BY <1>1, <2>1, <2>2
  <2> QED
    BY <1>1, <2>2, <2>3, <2>4 DEF CutsTo
<1> QED
  BY <1>2, <1>3 DEF bx

\* What comes later in the name does not matter.
LEMMA CutsBefore ==
  ASSUME NEW U, NEW a \in Seq(U), NEW c \in U, NEW T, NEW b \in Seq(T), NEW e \in 1..(Len(a) + 1)
  PROVE  CutsTo(Append(a, c), b, e) <=> CutsTo(a, b, e)
<1>1. \A i \in 1..Len(a) : Append(a, c)[i] = a[i]
  OBVIOUS
<1>2. ASSUME NEW x, NEW i \in 1..e, NEW j \in 1..e
      PROVE  CutStep(x, Append(a, c), i, j) <=> CutStep(x, a, i, j)
  <2>1. j = i + 1 => i \in 1..Len(a)
    OBVIOUS
  <2> QED
    BY <1>1, <2>1 DEF CutStep
<1>3. ASSUME NEW cut \in [1..(Len(b) + 1) -> 1..e], NEW i \in 1..Len(b)
      PROVE  cut[i] \in 1..e /\ cut[i + 1] \in 1..e
  <2>1. i \in 1..(Len(b) + 1) /\ i + 1 \in 1..(Len(b) + 1)
    OBVIOUS
  <2> QED
    BY <2>1
<1> QED
  BY <1>2, <1>3 DEF CutsTo

\* PartMatches, character by character from behind.
LEMMA PartNothing ==
  ASSUME NEW U, NEW a \in Seq(U)
  PROVE  PartMatches(a, <<>>) <=> a = <<>>
<1>1. <<>> \in Seq({}) /\ Len(<<>>) = 0 /\ Len(a) \in Nat /\ (a = <<>> <=> Len(a) = 0)
  OBVIOUS
<1>2. PartMatches(a, <<>>) <=> CutsTo(a, <<>>, Len(a) + 1)
  BY <1>1, PartIsCut
<1>3. ASSUME CutsTo(a, <<>>, Len(a) + 1) PROVE Len(a) = 0
  BY <1>1, <1>3 DEF CutsTo
<1>4. ASSUME Len(a) = 0 PROVE CutsTo(a, <<>>, Len(a) + 1)
  <2> DEFINE cut == [i \in 1..(Len(<<>>) + 1) |-> 1]
  <2>1. cut \in [1..(Len(<<>>) + 1) -> 1..(Len(a) + 1)] /\ cut[1] = 1
    BY <1>1, <1>4
  <2> HIDE DEF cut
  <2> QED
    BY <1>1, <1>4, <2>1 DEF CutsTo
<1> QED
  BY <1>1, <1>2, <1>3, <1>4

LEMMA PartNext ==
  ASSUME NEW U, NEW a \in Seq(U), NEW c \in U, NEW T, NEW b \in Seq(T), NEW x \in T, x # "*"
  PROVE  /\ ~PartMatches(<<>>, Append(b, x))
         /\ PartMatches(Append(a, c), Append(b, x)) <=> Takes(x, c) /\ PartMatches(a, b)
<1> DEFINE n == Len(a)
           ac == Append(a, c)
           bx == Append(b, x)
<1>1. ac \in Seq(U) /\ Len(ac) = n + 1 /\ ac[n + 1] = c /\ n \in Nat /\ bx \in Seq(T)
  OBVIOUS
<1>2. \A e \in 1..(n + 1) : CutsTo(ac, b, e) <=> CutsTo(a, b, e)
  BY CutsBefore
<1> HIDE DEF ac
<1>3. (n + 1) + 1 \in Nat \ {0} /\ n + 1 \in 1..((n + 1) + 1) /\ n + 1 \in 1..(n + 1)
  BY <1>1
<1>4. CutsTo(ac, bx, (n + 1) + 1)
        <=> \E m \in 1..((n + 1) + 1) : CutsTo(ac, b, m) /\ CutStep(x, ac, m, (n + 1) + 1)
  BY <1>3, CutsAppend
<1>5. PartMatches(ac, bx) <=> CutsTo(ac, bx, (n + 1) + 1)
  BY <1>1, PartIsCut
<1>6. PartMatches(a, b) <=> CutsTo(a, b, n + 1)
  BY PartIsCut
<1> HIDE DEF bx, n
<1>7. \A m \in 1..((n + 1) + 1) :
        CutStep(x, ac, m, (n + 1) + 1) <=> m = n + 1 /\ Takes(x, c)
  BY <1>1 DEF CutStep
<1>8. PartMatches(ac, bx) <=> Takes(x, c) /\ PartMatches(a, b)
  BY <1>2, <1>3, <1>4, <1>5, <1>6, <1>7
<1>9. ~PartMatches(<<>>, bx)
  <2>1. <<>> \in Seq(U) /\ Len(<<>>) = 0 /\ 1 \in Nat \ {0}
    OBVIOUS
  <2>2. CutsTo(<<>>, bx, 1) <=> \E m \in 1..1 : CutsTo(<<>>, b, m) /\ CutStep(x, <<>>, m, 1)
    BY <2>1, CutsAppend DEF bx
  <2>3. \A m \in 1..1 : ~CutStep(x, <<>>, m, 1)
    BY DEF CutStep
  <2>4. ~CutsTo(<<>>, bx, 0 + 1)
    BY <2>2, <2>3
  <2> QED
    BY <1>1, <2>1, <2>4, PartIsCut
<1> QED
  BY <1>8, <1>9 DEF ac, bx

LEMMA PartStar ==
  ASSUME NEW U, NEW a \in Seq(U), NEW c \in U, NEW T, NEW b \in Seq(T), "*" \in T
  PROVE  /\ PartMatches(<<>>, Append(b, "*")) <=> PartMatches(<<>>, b)
         /\ PartMatches(Append(a, c), Append(b, "*"))
              <=> PartMatches(Append(a, c), b) \/ PartMatches(a, Append(b, "*"))
<1> DEFINE n == Len(a)
           ac == Append(a, c)
           bx == Append(b, "*")
<1>1. ac \in Seq(U) /\ Len(ac) = n + 1 /\ n \in Nat /\ bx \in Seq(T)
  OBVIOUS
<1>2. \A e \in 1..(n + 1) : CutsTo(ac, b, e) <=> CutsTo(a, b, e)
  BY CutsBefore
<1> HIDE DEF ac
<1>3. \A d : \A e \in Nat \ {0} :
        CutsTo(d, bx, e) <=> \E m \in 1..e : CutsTo(d, b, m)
  <2>1. ASSUME NEW d, NEW e \in Nat \ {0}
        PROVE  CutsTo(d, bx, e) <=> \E m \in 1..e : CutsTo(d, b, m) /\ CutStep("*", d, m, e)
    BY CutsAppend
  <2>2. \A d : \A e \in Nat \ {0} : \A m \in 1..e : CutStep("*", d, m, e)
    BY DEF CutStep
  <2> HIDE DEF bx
  <2> QED
    BY <2>1, <2>2
<1>4. PartMatches(ac, bx) <=> CutsTo(ac, bx, (n + 1) + 1)
  BY <1>1, PartIsCut
<1>5. PartMatches(ac, b) <=> CutsTo(ac, b, (n + 1) + 1)
  BY <1>1, PartIsCut
<1>6. PartMatches(a, bx) <=> CutsTo(a, bx, n + 1)
  BY <1>1, PartIsCut
<1> HIDE DEF bx, n
<1>7. \A m \in 1..((n + 1) + 1) : m \in 1..(n + 1) \/ m = (n + 1) + 1
  BY <1>1
<1>8. /\ \A m \in 1..(n + 1) : m \in 1..((n + 1) + 1)
      /\ n + 1 \in Nat \ {0} /\ (n + 1) + 1 \in Nat \ {0} /\ (n + 1) + 1 \in 1..((n + 1) + 1)
  BY <1>1
<1>9. PartMatches(ac, bx) <=> PartMatches(ac, b) \/ PartMatches(a, bx)
  BY <1>2, <1>3, <1>4, <1>5, <1>6, <1>7, <1>8
<1>10. PartMatches(<<>>, bx) <=> PartMatches(<<>>, b)
  <2>1. <<>> \in Seq(U) /\ Len(<<>>) = 0 /\ 1 \in Nat \ {0}
    OBVIOUS
  <2>2. CutsTo(<<>>, bx, 1) <=> \E m \in 1..1 : CutsTo(<<>>, b, m)
    BY <1>3, <2>1
  <2>3. CutsTo(<<>>, bx, 0 + 1) <=> CutsTo(<<>>, b, 0 + 1)
    BY <2>2
  <2>4. PartMatches(<<>>, bx) <=> CutsTo(<<>>, bx, Len(<<>>) + 1)
    BY <1>1, <2>1, PartIsCut
  <2>5. PartMatches(<<>>, b) <=> CutsTo(<<>>, b, Len(<<>>) + 1)
    BY <2>1, PartIsCut
  <2> QED
    BY <2>1, <2>3, <2>4, <2>5
<1> QED
  BY <1>9, <1>10 DEF ac, bx

\* The last piece of a text, and those before it.
EndsIn(T, s, front, piece) ==
  /\ front \in Seq(Seq(T)) /\ piece \in Seq(T)
  /\ Split(s) = Append(front, piece)

LEMMA EndExists ==
  ASSUME NEW T, NEW s \in Seq(T)
  PROVE  \E front, piece : EndsIn(T, s, front, piece)
<1> DEFINE Q == Seq(T)
           z == Split(s)
<1>1. z \in Seq(Q) /\ z # <<>>
  BY SplitType DEF Pieces
<1> HIDE DEF Q, z
<1>2. PICK front \in Seq(Q), piece \in Q : z = Append(front, piece)
  BY <1>1, SequenceEmptyOrAppend
<1> QED
  BY <1>2 DEF EndsIn, Q, z

LEMMA EndOfNothing ==
  ASSUME NEW T
  PROVE  EndsIn(T, <<>>, <<>>, <<>>)
<1> DEFINE Q == Seq(T)
           e == <<>>
<1>1. <<>> \in Q /\ Append(<<>>, <<>>) = << <<>> >>
  OBVIOUS
<1> HIDE DEF Q
<1>2. <<>> \in Seq(Q)
  OBVIOUS
<1> QED
  BY <1>1, <1>2, SplitEmpty DEF EndsIn, Q

LEMMA EndAfter ==
  ASSUME NEW T, NEW s \in Seq(T), NEW c \in T, NEW front, NEW piece, EndsIn(T, s, front, piece)
  PROVE  /\ c = "/" => EndsIn(T, Append(s, c), Append(front, piece), <<>>)
         /\ c # "/" => EndsIn(T, Append(s, c), front, Append(piece, c))
<1> DEFINE Q == Seq(T)
           z == Append(front, piece)
           e == <<>>
           w == Append(piece, c)
<1>1. front \in Seq(Q) /\ piece \in Q /\ Split(s) = z
  BY DEF EndsIn
<1>2. e \in Q /\ w \in Q
  BY <1>1
<1> HIDE DEF Q, e, w
<1>3. z \in Seq(Q) /\ Front(z) = front /\ Last(z) = piece
  <2>1. /\ z \in Seq(Q) /\ Len(z) = Len(front) + 1 /\ z[Len(front) + 1] = piece
        /\ Len(front) \in Nat /\ \A i \in 1..Len(front) : z[i] = front[i]
    BY <1>1, AppendProperties
  <2> DEFINE f == Front(z)
             n == Len(front)
  <2> HIDE DEF z
  <2>2. f \in Seq(Q) /\ Len(f) = n /\ \A i \in 1..n : f[i] = z[i]
    <3>1. f = SubSeq(z, 1, n)
      BY <2>1 DEF Front
    <3>2. \A i \in 1..n : z[i] \in Q
      BY <2>1
    <3>3. SubSeq(z, 1, n) \in Seq(Q) /\ Len(SubSeq(z, 1, n)) = IF 1 <= n THEN (n - 1) + 1 ELSE 0
      BY <2>1, <3>2, SubSeqProperties
    <3>4. \A i \in 1..((n - 1) + 1) : SubSeq(z, 1, n)[i] = z[(1 + i) - 1]
      BY <2>1, <3>2, SubSeqProperties
    <3> HIDE DEF f, n
    <3>5. n \in Nat
      BY <2>1 DEF n
    <3>6. \A i \in 1..n : i \in 1..((n - 1) + 1) /\ (1 + i) - 1 = i
      BY <3>5
    <3> QED
      BY <3>1, <3>3, <3>4, <3>5, <3>6
  <2> HIDE DEF f
  <2>3. f = front
    BY <1>1, <2>1, <2>2, SeqEqual
  <2> QED
    BY <2>1, <2>3 DEF Last, f
<1>4. Split(Append(s, c)) = SplitStep(z, c)
  BY <1>1, SplitAppend
<1> HIDE DEF z
<1>5. ASSUME c = "/" PROVE EndsIn(T, Append(s, c), z, e)
  BY <1>2, <1>3, <1>4, <1>5 DEF EndsIn, SplitStep, Q, e
<1>6. ASSUME c # "/" PROVE EndsIn(T, Append(s, c), front, w)
  BY <1>1, <1>2, <1>3, <1>4, <1>6 DEF EndsIn, SplitStep, Q, w
<1> QED
  BY <1>5, <1>6 DEF e, w, z

\* As many names as patterns, each name matched by its pattern.
AllMatch(names, patterns) ==
  /\ Len(names) = Len(patterns)
  /\ \A i \in 1..Len(names) : PartMatches(names[i], patterns[i])

LEMMA AllMatchAppend ==
  ASSUME NEW A, NEW x \in Seq(A), NEW a \in A, NEW B, NEW y \in Seq(B), NEW b \in B
  PROVE  /\ AllMatch(Append(x, a), Append(y, b)) <=> AllMatch(x, y) /\ PartMatches(a, b)
         /\ AllMatch(<<>>, <<>>) /\ ~AllMatch(Append(x, a), <<>>) /\ ~AllMatch(<<>>, Append(y, b))
<1> DEFINE n == Len(x)
           m == Len(y)
           xa == Append(x, a)
           yb == Append(y, b)
<1>1. /\ n \in Nat /\ Len(xa) = n + 1 /\ xa[n + 1] = a /\ \A i \in 1..n : xa[i] = x[i]
      /\ m \in Nat /\ Len(yb) = m + 1 /\ yb[m + 1] = b /\ \A i \in 1..m : yb[i] = y[i]
  BY AppendProperties
<1> HIDE DEF xa, yb
<1>2. AllMatch(<<>>, <<>>) /\ ~AllMatch(xa, <<>>) /\ ~AllMatch(<<>>, yb)
  BY <1>1 DEF AllMatch
<1>3. ASSUME AllMatch(xa, yb) PROVE AllMatch(x, y) /\ PartMatches(a, b)
  <2>1. n = m /\ \A i \in 1..(n + 1) : PartMatches(xa[i], yb[i])
    BY <1>1, <1>3 DEF AllMatch
  <2>2. n + 1 \in 1..(n + 1) /\ \A i \in 1..n : i \in 1..(n + 1) /\ i \in 1..m
    BY <1>1, <2>1
  <2> QED
    BY <1>1, <2>1, <2>2 DEF AllMatch
<1>4. ASSUME AllMatch(x, y), PartMatches(a, b) PROVE AllMatch(xa, yb)
  <2>1. n = m /\ \A i \in 1..n : PartMatches(x[i], y[i])
    BY <1>4 DEF AllMatch
  <2>2. \A i \in 1..(n + 1) : (i \in 1..n /\ i \in 1..m) \/ i = n + 1
    BY <1>1, <2>1
  <2> QED
    BY <1>1, <1>4, <2>1, <2>2 DEF AllMatch
<1> QED
  BY <1>2, <1>3, <1>4 DEF xa, yb

LEMMA ByPartAtEnd ==
  ASSUME NEW U, NEW p, NEW fp, NEW lp, EndsIn(U, p, fp, lp),
         NEW T, NEW g, NEW fg, NEW lg, EndsIn(T, g, fg, lg)
  PROVE  MatchesByPart(p, g) <=> AllMatch(fp, fg) /\ PartMatches(lp, lg)
<1> DEFINE A == Seq(U)
           B == Seq(T)
<1>1. /\ fp \in Seq(A) /\ lp \in A /\ Split(p) = Append(fp, lp)
      /\ fg \in Seq(B) /\ lg \in B /\ Split(g) = Append(fg, lg)
  BY DEF EndsIn
<1> HIDE DEF A, B
<1>2. AllMatch(Append(fp, lp), Append(fg, lg)) <=> AllMatch(fp, fg) /\ PartMatches(lp, lg)
  BY <1>1, AllMatchAppend
<1>3. DOMAIN Split(p) = 1..Len(Split(p))
  <2>1. Append(fp, lp) \in Seq(A)
    BY <1>1
  <2> QED
    BY <1>1, <2>1
<1>4. MatchesByPart(p, g) <=> AllMatch(Split(p), Split(g))
  BY <1>3 DEF MatchesByPart, AllMatch
<1> QED
  BY <1>1, <1>2, <1>4

\* MatchesByPart, character by character from behind.
LEMMA ByPartNothing ==
  ASSUME NEW U, NEW p \in Seq(U)
  PROVE  MatchesByPart(p, <<>>) <=> p = <<>>
<1>1. EndsIn({}, <<>>, <<>>, <<>>) /\ EndsIn(U, <<>>, <<>>, <<>>)
  BY EndOfNothing
<1>2. CASE p = <<>>
  <2>1. MatchesByPart(<<>>, <<>>) <=> AllMatch(<<>>, <<>>) /\ PartMatches(<<>>, <<>>)
    BY <1>1, ByPartAtEnd
  <2>2. AllMatch(<<>>, <<>>)
    BY DEF AllMatch
  <2>3. PartMatches(<<>>, <<>>)
    <3>1. <<>> \in Seq(U)
      OBVIOUS
    <3> QED
      BY <3>1, PartNothing
  <2> QED
    BY <1>2, <2>1, <2>2, <2>3
<1>3. CASE p # <<>>
  <2>1. PICK q \in Seq(U), c \in U : p = Append(q, c)
    BY <1>3, SequenceEmptyOrAppend
  <2>2. PICK front, piece : EndsIn(U, q, front, piece)
    BY EndExists
  <2>3. front \in Seq(Seq(U)) /\ piece \in Seq(U)
    BY <2>2 DEF EndsIn
  <2>4. ASSUME c = "/" PROVE ~MatchesByPart(p, <<>>)
    <3>1. EndsIn(U, p, Append(front, piece), <<>>)
      BY <2>1, <2>2, <2>4, EndAfter
    <3>2. Len(Append(front, piece)) # 0
      <4> DEFINE A == Seq(U)
      <4>1. front \in Seq(A) /\ piece \in A
        BY <2>3
      <4> HIDE DEF A
      <4> QED
        BY <4>1
    <3>3. ~AllMatch(Append(front, piece), <<>>)
      BY <3>2 DEF AllMatch
    <3> QED
      BY <1>1, <3>1, <3>3, ByPartAtEnd
  <2>5. ASSUME c # "/" PROVE ~MatchesByPart(p, <<>>)
    <3>1. EndsIn(U, p, front, Append(piece, c))
      BY <2>1, <2>2, <2>5, EndAfter
    <3>2. Append(piece, c) \in Seq(U) /\ Append(piece, c) # <<>>
      BY <2>3, AppendProperties
    <3>3. ~PartMatches(Append(piece, c), <<>>)
      BY <3>2, PartNothing
    <3> QED
      BY <1>1, <3>1, <3>3, ByPartAtEnd
  <2> QED
    BY <1>3, <2>4, <2>5
<1> QED
  BY <1>2, <1>3

\* A character of a glob and its piece take the same.
LEMMA PieceTakesSame ==
  ASSUME NEW x, x # "*", x \notin Wild, NEW c
  PROVE  /\ c # "/" /\ x # "/" => (Takes(x, c) <=> PieceTakes(Piece(x), c))
         /\ c = "/" => (PieceTakes(Piece(x), c) <=> x = "/")
         /\ x = "/" => (PieceTakes(Piece(x), c) <=> c = "/")
<1>1. "?" \notin Words
  BY WordAssumption
<1> QED
  BY <1>1 DEF Takes, PieceTakes, Piece, Wild

LEMMA ByPartNext ==
  ASSUME NEW U, NEW q \in Seq(U), NEW c \in U,
         NEW T, NEW g \in Seq(T), NEW x \in T, x # "*", x \notin Wild
  PROVE  /\ ~MatchesByPart(<<>>, Append(g, x))
         /\ MatchesByPart(Append(q, c), Append(g, x))
              <=> PieceTakes(Piece(x), c) /\ MatchesByPart(q, g)
<1>1. PICK fq, lq : EndsIn(U, q, fq, lq)
  BY EndExists
<1>2. PICK fg, lg : EndsIn(T, g, fg, lg)
  BY EndExists
<1>3. fq \in Seq(Seq(U)) /\ lq \in Seq(U) /\ fg \in Seq(Seq(T)) /\ lg \in Seq(T)
  BY <1>1, <1>2 DEF EndsIn
<1>4. EndsIn(U, <<>>, <<>>, <<>>)
  BY EndOfNothing
<1> DEFINE fqc == Append(fq, lq)
           lqc == Append(lq, c)
           fgx == Append(fg, lg)
           lgx == Append(lg, x)
           qc == Append(q, c)
           gx == Append(g, x)
<1>5. /\ c = "/" => EndsIn(U, qc, fqc, <<>>)
      /\ c # "/" => EndsIn(U, qc, fq, lqc)
  BY <1>1, EndAfter
<1>6. /\ x = "/" => EndsIn(T, gx, fgx, <<>>)
      /\ x # "/" => EndsIn(T, gx, fg, lgx)
  BY <1>2, EndAfter
<1>7. /\ AllMatch(fqc, fgx) <=> AllMatch(fq, fg) /\ PartMatches(lq, lg)
      /\ ~AllMatch(<<>>, fgx)
  <2> DEFINE A == Seq(U)
             B == Seq(T)
  <2>1. fq \in Seq(A) /\ lq \in A /\ fg \in Seq(B) /\ lg \in B
    BY <1>3
  <2> HIDE DEF A, B
  <2> QED
    BY <2>1, AllMatchAppend
<1>8. MatchesByPart(q, g) <=> AllMatch(fq, fg) /\ PartMatches(lq, lg)
  BY <1>1, <1>2, ByPartAtEnd
<1>9. /\ PartMatches(<<>>, <<>>) /\ ~PartMatches(lqc, <<>>)
      /\ ~PartMatches(<<>>, lgx)
      /\ PartMatches(lqc, lgx) <=> Takes(x, c) /\ PartMatches(lq, lg)
  <2>1. <<>> \in Seq(U) /\ lqc \in Seq(U) /\ lqc # <<>>
    <3>1. lqc \in Seq(U) /\ Len(lqc) = Len(lq) + 1 /\ Len(lq) \in Nat /\ <<>> \in Seq(U)
      BY <1>3
    <3> HIDE DEF lqc
    <3> QED
      BY <3>1
  <2>2. PartMatches(<<>>, <<>>) /\ ~PartMatches(lqc, <<>>)
    <3> HIDE DEF lqc
    <3> QED
      BY <2>1, PartNothing
  <2> QED
    BY <1>3, <2>2, PartNext
<1> HIDE DEF fqc, lqc, fgx, lgx, qc, gx
<1>10. CASE x = "/"
  <2>1. ~MatchesByPart(<<>>, gx)
    BY <1>4, <1>6, <1>7, <1>10, ByPartAtEnd
  <2>2. CASE c = "/"
    <3>1. MatchesByPart(qc, gx) <=> AllMatch(fqc, fgx) /\ PartMatches(<<>>, <<>>)
      BY <1>5, <1>6, <1>10, <2>2, ByPartAtEnd
    <3> QED
      BY <1>7, <1>8, <1>9, <1>10, <2>1, <2>2, <3>1, PieceTakesSame DEF qc, gx
  <2>3. CASE c # "/"
    <3>1. MatchesByPart(qc, gx) <=> AllMatch(fq, fgx) /\ PartMatches(lqc, <<>>)
      BY <1>5, <1>6, <1>10, <2>3, ByPartAtEnd
    <3> QED
      BY <1>9, <1>10, <2>1, <2>3, <3>1, PieceTakesSame DEF qc, gx
  <2> QED
    BY <2>2, <2>3
<1>11. CASE x # "/"
  <2>1. ~MatchesByPart(<<>>, gx)
    BY <1>4, <1>6, <1>9, <1>11, ByPartAtEnd
  <2>2. CASE c = "/"
    <3>1. MatchesByPart(qc, gx) <=> AllMatch(fqc, fg) /\ PartMatches(<<>>, lgx)
      BY <1>5, <1>6, <1>11, <2>2, ByPartAtEnd
    <3> QED
      BY <1>9, <1>11, <2>1, <2>2, <3>1, PieceTakesSame DEF qc, gx
  <2>3. CASE c # "/"
    <3>1. MatchesByPart(qc, gx) <=> AllMatch(fq, fg) /\ PartMatches(lqc, lgx)
      BY <1>5, <1>6, <1>11, <2>3, ByPartAtEnd
    <3> QED
      BY <1>8, <1>9, <1>11, <2>1, <2>3, <3>1, PieceTakesSame DEF qc, gx
  <2> QED
    BY <2>2, <2>3
<1> QED
  BY <1>10, <1>11

LEMMA ByPartStar ==
  ASSUME NEW U, NEW q \in Seq(U), NEW c \in U, NEW T, NEW g \in Seq(T), "*" \in T
  PROVE  /\ MatchesByPart(<<>>, Append(g, "*")) <=> MatchesByPart(<<>>, g)
         /\ MatchesByPart(Append(q, c), Append(g, "*"))
              <=> \/ MatchesByPart(Append(q, c), g)
                  \/ c # "/" /\ MatchesByPart(q, Append(g, "*"))
<1>1. PICK fq, lq : EndsIn(U, q, fq, lq)
  BY EndExists
<1>2. PICK fg, lg : EndsIn(T, g, fg, lg)
  BY EndExists
<1>3. fq \in Seq(Seq(U)) /\ lq \in Seq(U) /\ fg \in Seq(Seq(T)) /\ lg \in Seq(T)
  BY <1>1, <1>2 DEF EndsIn
<1>4. EndsIn(U, <<>>, <<>>, <<>>)
  BY EndOfNothing
<1> DEFINE fqc == Append(fq, lq)
           lqc == Append(lq, c)
           lgx == Append(lg, "*")
           qc == Append(q, c)
           gx == Append(g, "*")
<1>5. /\ c = "/" => EndsIn(U, qc, fqc, <<>>)
      /\ c # "/" => EndsIn(U, qc, fq, lqc)
  BY <1>1, EndAfter
<1>6. EndsIn(T, gx, fg, lgx)
  BY <1>2, EndAfter
<1>7. /\ PartMatches(<<>>, lgx) <=> PartMatches(<<>>, lg)
      /\ PartMatches(lqc, lgx) <=> PartMatches(lqc, lg) \/ PartMatches(lq, lgx)
  BY <1>3, PartStar
<1> HIDE DEF fqc, lqc, lgx, qc, gx
<1>8. MatchesByPart(<<>>, gx) <=> MatchesByPart(<<>>, g)
  <2>1. MatchesByPart(<<>>, gx) <=> AllMatch(<<>>, fg) /\ PartMatches(<<>>, lgx)
    BY <1>4, <1>6, ByPartAtEnd
  <2>2. MatchesByPart(<<>>, g) <=> AllMatch(<<>>, fg) /\ PartMatches(<<>>, lg)
    BY <1>2, <1>4, ByPartAtEnd
  <2> QED
    BY <1>7, <2>1, <2>2
<1>9. CASE c = "/"
  <2>1. MatchesByPart(qc, gx) <=> AllMatch(fqc, fg) /\ PartMatches(<<>>, lgx)
    BY <1>5, <1>6, <1>9, ByPartAtEnd
  <2>2. MatchesByPart(qc, g) <=> AllMatch(fqc, fg) /\ PartMatches(<<>>, lg)
    BY <1>2, <1>5, <1>9, ByPartAtEnd
  <2> QED
    BY <1>7, <1>8, <1>9, <2>1, <2>2 DEF qc, gx
<1>10. CASE c # "/"
  <2>1. MatchesByPart(qc, gx) <=> AllMatch(fq, fg) /\ PartMatches(lqc, lgx)
    BY <1>5, <1>6, <1>10, ByPartAtEnd
  <2>2. MatchesByPart(qc, g) <=> AllMatch(fq, fg) /\ PartMatches(lqc, lg)
    BY <1>2, <1>5, <1>10, ByPartAtEnd
  <2>3. MatchesByPart(q, gx) <=> AllMatch(fq, fg) /\ PartMatches(lq, lgx)
    BY <1>1, <1>6, ByPartAtEnd
  <2> QED
    BY <1>7, <1>8, <1>10, <2>1, <2>2, <2>3 DEF qc, gx
<1> QED
  BY <1>9, <1>10

-----------------------------------------------------------------------------
(* Expressions and parts *)

\* What the expressions of the ends of a glob are, and where the text fits them.
LEMMA DoubledStars ==
  ASSUME NEW T, NEW g \in Seq(T), NEW i \in 1..Len(g)
  PROVE  Doubled(g, i) <=> i < Len(g) /\ g[i] = "*" /\ g[i + 1] = "*"
<1> SUFFICES ASSUME i < Len(g) PROVE SubSeq(g, i, i + 1) = <<"*", "*">> <=> g[i] = "*" /\ g[i + 1] = "*"
  BY DEF Doubled
<1> DEFINE u == SubSeq(g, i, i + 1)
           v == <<"*", "*">>
<1>1. u \in Seq(T) /\ Len(u) = 2 /\ u[1] = g[i] /\ u[2] = g[i + 1]
  <2>1. i \in 1..Len(g) /\ i + 1 \in i..Len(g) /\ (i + 1) - i + 1 = 2 /\ i \in Int /\ Len(g) \in Nat
    OBVIOUS
  <2>2. u \in Seq(T) /\ Len(u) = (i + 1) - i + 1
        /\ \A k \in 1..((i + 1) - i + 1) : u[k] = g[i + k - 1]
    BY <2>1, SubSeqProperties
  <2>3. Len(u) = 2 /\ \A k \in 1..2 : u[k] = g[i + k - 1]
    BY <2>1, <2>2
  <2>4. i + 1 - 1 = i /\ i + 2 - 1 = i + 1 /\ 1 \in 1..2 /\ 2 \in 1..2
    BY <2>1
  <2>5. u[1] = g[i + 1 - 1] /\ u[2] = g[i + 2 - 1]
    BY <2>3, <2>4
  <2> QED
    BY <2>2, <2>3, <2>4, <2>5
<1>2. v \in Seq({"*"}) /\ Len(v) = 2 /\ v[1] = "*" /\ v[2] = "*"
  OBVIOUS
<1> HIDE DEF u, v
<1>3. ASSUME g[i] = "*", g[i + 1] = "*" PROVE u = v
  <2>1. \A k \in 1..2 : u[k] = v[k]
    BY <1>1, <1>2, <1>3
  <2>2. u \in Seq(T \cup {"*"}) /\ v \in Seq(T \cup {"*"})
    BY <1>1, <1>2
  <2> QED
    BY <1>1, <1>2, <2>1, <2>2, SeqEqual
<1>4. ASSUME u = v PROVE g[i] = "*" /\ g[i + 1] = "*"
  BY <1>1, <1>2, <1>4
<1> QED
  BY <1>3, <1>4 DEF u, v

LaterFits(regex, s, j) == \E b \in j..(Len(s) + 1) : FitsFrom(regex, s, b)

LEMMA EndFits ==
  ASSUME NEW T, Wild \cap T = {}, NEW g \in Seq(T), NEW U, NEW p \in Seq(U),
         NEW f \in [1..(Len(g) + 1) -> Seq(T \cup Wild)], IsTranslation(f, g),
         NEW i \in 1..Len(g), NEW j \in 1..(Len(p) + 1)
  PROVE  /\ g[i] # "*" =>
              (FitsFrom(f[i], p, j)
                 <=> j <= Len(p) /\ PieceTakes(Piece(g[i]), p[j]) /\ FitsFrom(f[i + 1], p, j + 1))
         /\ Doubled(g, i) => (FitsFrom(f[i], p, j) <=> LaterFits(f[i + 2], p, j))
         /\ g[i] = "*" /\ ~Doubled(g, i) =>
              (FitsFrom(f[i], p, j)
                 <=> \E b \in j..(Len(p) + 1) : /\ \A q \in j..(b - 1) : p[q] # "/"
                                                /\ FitsFrom(f[i + 1], p, b))
<1> DEFINE n == Len(g)
           m == Len(p)
           A == T \cup Wild \cup U
<1>1. /\ n \in Nat /\ m \in Nat /\ p \in Seq(A) /\ g[i] \in T /\ i \in 1..(n + 1) /\ ~(i > n)
      /\ i + 1 \in 1..(n + 1) /\ (i < n => i + 2 \in 1..(n + 1))
  OBVIOUS
<1>2. /\ f[i + 1] \in Seq(A) /\ (i < n => f[i + 2] \in Seq(A))
      /\ \A k \in Seq(T \cup Wild) : k \in Seq(A)
      /\ Wild \subseteq A /\ Piece(g[i]) \in A /\ Piece(g[i]) \in T \cup Wild
  <2>1. \A k \in Seq(T \cup Wild) : k \in Seq(A)
    OBVIOUS
  <2>2. Piece(g[i]) \in T \cup Wild
    BY <1>1 DEF Piece, Wild
  <2>3. f[i + 1] \in Seq(T \cup Wild) /\ (i < n => f[i + 2] \in Seq(T \cup Wild))
    BY <1>1
  <2> QED
    BY <2>1, <2>2, <2>3
<1>3. f[i] = IF Doubled(g, i) THEN <<".*">> \o f[i + 2] ELSE <<Piece(g[i])>> \o f[i + 1]
  BY <1>1 DEF IsTranslation
<1> HIDE DEF n, m, A
<1>4. ASSUME g[i] # "*"
      PROVE  FitsFrom(f[i], p, j)
               <=> j <= m /\ PieceTakes(Piece(g[i]), p[j]) /\ FitsFrom(f[i + 1], p, j + 1)
  <2>1. ~Doubled(g, i)
    BY <1>4, DoubledStars
  <2>2. Piece(g[i]) \in A /\ ~IsStar(Piece(g[i]))
    BY <1>1, <1>2, <1>4 DEF Piece, IsStar, Wild
  <2>3. FitsFrom(f[i], p, j)
          <=> \E b \in 1..(m + 1) : Share(Piece(g[i]), p, j, b) /\ FitsFrom(f[i + 1], p, b)
    BY <1>1, <1>2, <1>3, <2>1, FitsNext DEF m
  <2>4. \A b : Share(Piece(g[i]), p, j, b) <=> b = j + 1 /\ PieceTakes(Piece(g[i]), p[j])
    BY <2>2 DEF Share
  <2>5. j <= m <=> j + 1 \in 1..(m + 1)
    BY <1>1 DEF m
  <2> QED
    BY <2>3, <2>4, <2>5
<1>5. ASSUME Doubled(g, i)
      PROVE  FitsFrom(f[i], p, j) <=> LaterFits(f[i + 2], p, j)
  <2>1. i < n /\ ".*" \in A
    BY <1>2, <1>5, DoubledStars DEF Wild, n
  <2>2. FitsFrom(f[i], p, j)
          <=> \E b \in 1..(m + 1) : Share(".*", p, j, b) /\ FitsFrom(f[i + 2], p, b)
    BY <1>1, <1>2, <1>3, <1>5, <2>1, FitsNext DEF m
  <2>3. \A b : Share(".*", p, j, b) <=> j <= b
    BY DEF Share, IsStar, StarTakes
  <2>4. \A b : b \in j..(m + 1) <=> b \in 1..(m + 1) /\ j <= b
    BY <1>1
  <2> QED
    BY <2>2, <2>3, <2>4 DEF LaterFits, m
<1>6. ASSUME g[i] = "*", ~Doubled(g, i)
      PROVE  FitsFrom(f[i], p, j)
               <=> \E b \in j..(m + 1) : /\ \A q \in j..(b - 1) : p[q] # "/"
                                         /\ FitsFrom(f[i + 1], p, b)
  <2>1. Piece(g[i]) = "[^/]*" /\ "[^/]*" \in A
    BY <1>2, <1>6 DEF Piece, Wild
  <2>2. FitsFrom(f[i], p, j)
          <=> \E b \in 1..(m + 1) : Share("[^/]*", p, j, b) /\ FitsFrom(f[i + 1], p, b)
    BY <1>1, <1>2, <1>3, <1>6, <2>1, FitsNext DEF m
  <2>3. \A b : Share("[^/]*", p, j, b) <=> j <= b /\ \A q \in j..(b - 1) : p[q] # "/"
    BY DEF Share, IsStar, StarTakes
  <2>4. \A b : b \in j..(m + 1) <=> b \in 1..(m + 1) /\ j <= b
    BY <1>1
  <2> QED
    BY <2>2, <2>3, <2>4
<1> QED
  BY <1>4, <1>5, <1>6 DEF m

\* A lone star has nothing more, or a character that is no separator.
LEMMA StarFits ==
  ASSUME NEW x, NEW y, NEW p, NEW m \in Nat,
         \A j \in 1..(m + 1) :
           FitsFrom(x, p, j) <=> \E b \in j..(m + 1) : /\ \A q \in j..(b - 1) : p[q] # "/"
                                                       /\ FitsFrom(y, p, b),
         NEW j \in 1..(m + 1)
  PROVE  FitsFrom(x, p, j) <=> \/ FitsFrom(y, p, j)
                               \/ j <= m /\ p[j] # "/" /\ FitsFrom(x, p, j + 1)
<1>1. ASSUME FitsFrom(y, p, j) PROVE FitsFrom(x, p, j)
  <2>1. j \in j..(m + 1) /\ j..(j - 1) = {}
    OBVIOUS
  <2> QED
    BY <1>1, <2>1
<1>2. ASSUME j <= m, p[j] # "/", FitsFrom(x, p, j + 1) PROVE FitsFrom(x, p, j)
  <2>1. j + 1 \in 1..(m + 1)
    BY <1>2
  <2>2. PICK b \in (j + 1)..(m + 1) : /\ \A q \in (j + 1)..(b - 1) : p[q] # "/"
                                      /\ FitsFrom(y, p, b)
    BY <1>2, <2>1
  <2>3. b \in j..(m + 1) /\ \A q \in j..(b - 1) : q = j \/ q \in (j + 1)..(b - 1)
    OBVIOUS
  <2> QED
    BY <1>2, <2>2, <2>3
<1>3. ASSUME FitsFrom(x, p, j), ~FitsFrom(y, p, j)
      PROVE  j <= m /\ p[j] # "/" /\ FitsFrom(x, p, j + 1)
  <2>1. PICK b \in j..(m + 1) : (\A q \in j..(b - 1) : p[q] # "/") /\ FitsFrom(y, p, b)
    BY <1>3
  <2>2. b # j
    BY <1>3, <2>1
  <2>3. /\ j <= m /\ j \in j..(b - 1) /\ j + 1 \in 1..(m + 1) /\ b \in (j + 1)..(m + 1)
        /\ \A q \in (j + 1)..(b - 1) : q \in j..(b - 1)
    BY <2>2
  <2> QED
    BY <2>1, <2>3
<1> QED
  BY <1>1, <1>2, <1>3

\* A table of pieces and characters: H holds the places from which the end can
\* be reached, P those that can be reached from the start, where a star takes
\* any number of the characters it can and another piece one of them.
\* Either says whether the whole can be cut.
EndSide(H, n, m, stars, takes) ==
  \A i \in 1..(n + 1), j \in 1..(m + 1) :
    <<i, j>> \in H <=>
      IF i = n + 1 THEN j = m + 1
      ELSE IF i \in stars THEN \/ <<i + 1, j>> \in H
                               \/ j <= m /\ <<i, j>> \in takes /\ <<i, j + 1>> \in H
      ELSE j <= m /\ <<i, j>> \in takes /\ <<i + 1, j + 1>> \in H

StartSide(P, n, m, stars, takes) ==
  /\ \A j \in 1..(m + 1) : <<1, j>> \in P <=> j = 1
  /\ \A i \in 1..n, j \in 1..(m + 1) :
       <<i + 1, j>> \in P <=>
         IF i \in stars THEN \/ <<i, j>> \in P
                             \/ j > 1 /\ <<i, j - 1>> \in takes /\ <<i + 1, j - 1>> \in P
         ELSE j > 1 /\ <<i, j - 1>> \in takes /\ <<i, j - 1>> \in P

LEMMA BothSides ==
  ASSUME NEW n \in Nat, NEW m \in Nat, NEW stars, NEW takes, NEW H, NEW P,
         EndSide(H, n, m, stars, takes), StartSide(P, n, m, stars, takes)
  PROVE  <<1, 1>> \in H <=> <<n + 1, m + 1>> \in P
<1> DEFINE Meet(i) == \E j \in 1..(m + 1) : <<i, j>> \in P /\ <<i, j>> \in H
<1>1. ASSUME NEW i \in 1..n, i \notin stars PROVE Meet(i) <=> Meet(i + 1)
  <2>1. i \in 1..(n + 1) /\ i # n + 1 /\ i + 1 \in 1..(n + 1)
    OBVIOUS
  <2>2. ASSUME NEW j \in 1..(m + 1), <<i, j>> \in P, <<i, j>> \in H PROVE Meet(i + 1)
    <3>1. j <= m /\ <<i, j>> \in takes /\ <<i + 1, j + 1>> \in H
      BY <1>1, <2>1, <2>2 DEF EndSide
    <3>2. j + 1 \in 1..(m + 1) /\ j + 1 > 1 /\ (j + 1) - 1 = j
      BY <3>1
    <3>3. <<i + 1, j + 1>> \in P
      BY <1>1, <2>2, <3>1, <3>2 DEF StartSide
    <3> QED
      BY <3>1, <3>2, <3>3
  <2>3. ASSUME NEW j \in 1..(m + 1), <<i + 1, j>> \in P, <<i + 1, j>> \in H PROVE Meet(i)
    <3>1. j > 1 /\ <<i, j - 1>> \in takes /\ <<i, j - 1>> \in P
      BY <1>1, <2>3 DEF StartSide
    <3>2. j - 1 \in 1..(m + 1) /\ j - 1 <= m /\ (j - 1) + 1 = j
      BY <3>1
    <3>3. <<i, j - 1>> \in H
      BY <1>1, <2>1, <2>3, <3>1, <3>2 DEF EndSide
    <3> QED
      BY <3>1, <3>2, <3>3
  <2> QED
    BY <2>2, <2>3
<1>2. ASSUME NEW i \in 1..n, i \in stars PROVE Meet(i) <=> Meet(i + 1)
  <2> DEFINE S == {j \in 1..(m + 1) : <<i + 1, j>> \in P /\ <<i, j>> \in H}
  <2>1. i \in 1..(n + 1) /\ i # n + 1 /\ S \in SUBSET (1..(m + 1)) /\ S \in SUBSET Nat /\ m + 1 \in Nat
    OBVIOUS
  <2>2. ASSUME NEW j \in 1..(m + 1), <<i, j>> \in P, <<i, j>> \in H PROVE S # {}
    BY <1>2, <2>2 DEF StartSide
  <2>3. ASSUME S # {} PROVE Meet(i + 1)
    <3>1. Max(S) \in S /\ \A j \in S : j <= Max(S)
      <4> HIDE DEF S
      <4> QED
        BY <2>1, <2>3, MaxFacts
    <3>2. PICK j \in S : \A k \in S : k <= j
      BY <3>1
    <3>3. j + 1 \notin S /\ j \in 1..(m + 1) /\ <<i + 1, j>> \in P /\ <<i, j>> \in H
      BY <3>2
    <3>4. CASE <<i + 1, j>> \in H
      BY <3>3, <3>4
    <3>5. CASE j <= m /\ <<i, j>> \in takes /\ <<i, j + 1>> \in H
      <4>1. j + 1 \in 1..(m + 1) /\ j + 1 > 1 /\ (j + 1) - 1 = j
        BY <3>3, <3>5
      <4>2. <<i + 1, j + 1>> \in P
        BY <1>2, <3>3, <3>5, <4>1 DEF StartSide
      <4> QED
        BY <3>3, <3>5, <4>1, <4>2
    <3> QED
      BY <1>2, <2>1, <3>3, <3>4, <3>5 DEF EndSide
  <2>4. ASSUME NEW j \in 1..(m + 1), <<i + 1, j>> \in P, <<i + 1, j>> \in H PROVE S # {}
    <3>1. <<i, j>> \in H
      BY <1>2, <2>1, <2>4 DEF EndSide
    <3> QED
      BY <2>4, <3>1
  <2>5. ASSUME S # {} PROVE Meet(i)
    <3>1. PICK j \in S : \A k \in S : j <= k
      <4> HIDE DEF S
      <4> QED
        BY <2>1, <2>5, LeastNumber
    <3>2. j - 1 \notin S /\ j \in 1..(m + 1) /\ <<i + 1, j>> \in P /\ <<i, j>> \in H
      BY <3>1
    <3>3. CASE <<i, j>> \in P
      BY <3>2, <3>3
    <3>4. CASE j > 1 /\ <<i, j - 1>> \in takes /\ <<i + 1, j - 1>> \in P
      <4>1. j - 1 \in 1..(m + 1) /\ j - 1 <= m /\ (j - 1) + 1 = j
        BY <3>2, <3>4
      <4>2. <<i, j - 1>> \in H
        BY <1>2, <2>1, <3>2, <3>4, <4>1 DEF EndSide
      <4> QED
        BY <3>2, <3>4, <4>1, <4>2
    <3> QED
      BY <1>2, <3>2, <3>3, <3>4 DEF StartSide
  <2> QED
    BY <2>2, <2>3, <2>4, <2>5
<1> DEFINE N == {k \in Nat : k <= n => (Meet(1) <=> Meet(k + 1))}
<1>3. 0 \in N /\ \A k \in Nat : k \in N => k + 1 \in N
  <2>1. ASSUME NEW k \in Nat, k \in N, k + 1 <= n PROVE Meet(1) <=> Meet((k + 1) + 1)
    <3>1. k <= n /\ k + 1 \in 1..n
      BY <2>1
    <3> HIDE DEF Meet
    <3> QED
      BY <1>1, <1>2, <2>1, <3>1
  <2> HIDE DEF Meet
  <2> QED
    BY <2>1
<1>4. Meet(1) <=> Meet(n + 1)
  <2>1. Nat \subseteq N
    <3> HIDE DEF N
    <3> QED
      BY <1>3, Induction
  <2> HIDE DEF Meet
  <2> QED
    BY <2>1
<1>5. Meet(1) <=> <<1, 1>> \in H
  <2>1. 1 \in 1..(m + 1) /\ \A j \in 1..(m + 1) : <<1, j>> \in P <=> j = 1
    BY DEF StartSide
  <2> QED
    BY <2>1
<1>6. Meet(n + 1) <=> <<n + 1, m + 1>> \in P
  <2>1. n + 1 \in 1..(n + 1) /\ m + 1 \in 1..(m + 1)
    OBVIOUS
  <2>2. \A j \in 1..(m + 1) : <<n + 1, j>> \in H <=> j = m + 1
    BY <2>1 DEF EndSide
  <2> QED
    BY <2>1, <2>2
<1> HIDE DEF Meet
<1> QED
  BY <1>4, <1>5, <1>6

GlobStars(g) == {i \in 1..Len(g) : g[i] = "*"}

\* What a character of a glob may have of a text, any number of them if it is a star.
GlobTakes(g, p) ==
  {x \in (1..Len(g)) \X (1..Len(p)) :
     IF g[x[1]] = "*" THEN InRow(g, x[1]) \/ p[x[2]] # "/"
     ELSE PieceTakes(Piece(g[x[1]]), p[x[2]])}

\* Where the text from j on fits the expression of the glob from i on, or, where
\* a star of a row is, does so later.
GlobEnds(g, p, f) ==
  {x \in (1..(Len(g) + 1)) \X (1..(Len(p) + 1)) :
     IF x[1] <= Len(g) /\ InRow(g, x[1]) THEN LaterFits(f[x[1]], p, x[2])
     ELSE FitsFrom(f[x[1]], p, x[2])}

LEMMA EndsOfGlob ==
  ASSUME NEW T, Wild \cap T = {}, NEW g \in Seq(T), NEW U, NEW p \in Seq(U),
         NEW f \in [1..(Len(g) + 1) -> Seq(T \cup Wild)], IsTranslation(f, g)
  PROVE  /\ EndSide(GlobEnds(g, p, f), Len(g), Len(p), GlobStars(g), GlobTakes(g, p))
         /\ <<1, 1>> \in GlobEnds(g, p, f) <=> FitsFrom(f[1], p, 1)
<1> DEFINE n == Len(g)
           m == Len(p)
           D(i, j) == FitsFrom(f[i], p, j)
           A(i, j) == LaterFits(f[i], p, j)
           H == GlobEnds(g, p, f)
<1>1. n \in Nat /\ m \in Nat /\ \A i \in 1..n : g[i] \in T
  OBVIOUS
<1>2. /\ \A i \in 1..n : i \in GlobStars(g) <=> g[i] = "*"
      /\ \A i \in 1..n, j \in 1..m :
           <<i, j>> \in GlobTakes(g, p) <=>
             IF g[i] = "*" THEN InRow(g, i) \/ p[j] # "/" ELSE PieceTakes(Piece(g[i]), p[j])
      /\ \A i \in 1..n, j \in 1..(m + 1) :
           <<i, j>> \in H <=> IF InRow(g, i) THEN A(i, j) ELSE D(i, j)
      /\ \A j \in 1..(m + 1) : <<n + 1, j>> \in H <=> D(n + 1, j)
  <2>1. \A i \in 1..n : i \in 1..(n + 1) /\ i <= n
    BY <1>1
  <2>2. n + 1 \in 1..(n + 1) /\ ~(n + 1 <= n)
    BY <1>1
  <2> QED
    BY <2>1, <2>2 DEF GlobStars, GlobTakes, GlobEnds
<1>3. \A j \in 1..(m + 1) : D(n + 1, j) <=> j = m + 1
  <2>1. n + 1 \in 1..(n + 1) /\ n + 1 > n
    BY <1>1
  <2>2. f[n + 1] = <<>>
    BY <2>1 DEF IsTranslation
  <2> QED
    BY <2>2, FitsEnd
<1>4. \A i \in 1..n, j \in 1..(m + 1) :
        /\ g[i] # "*" =>
             (D(i, j) <=> j <= m /\ PieceTakes(Piece(g[i]), p[j]) /\ D(i + 1, j + 1))
        /\ Doubled(g, i) => (D(i, j) <=> A(i + 2, j))
        /\ g[i] = "*" /\ ~Doubled(g, i) =>
             (D(i, j) <=> \E b \in j..(m + 1) : (\A q \in j..(b - 1) : p[q] # "/") /\ D(i + 1, b))
  BY EndFits
<1>5. \A i : \A j \in 1..(m + 1) :
        /\ A(i, j) <=> \E b \in j..(m + 1) : D(i, b)
        /\ A(i, j) <=> D(i, j) \/ (j <= m /\ A(i, j + 1))
  <2>1. \A i : \A j : A(i, j) <=> \E b \in j..(m + 1) : D(i, b)
    BY DEF LaterFits
  <2> HIDE DEF m, A, D
  <2>2. \A j \in 1..(m + 1) : /\ j \in j..(m + 1)
                              /\ \A b \in j..(m + 1) : b = j \/ (j <= m /\ b \in (j + 1)..(m + 1))
                              /\ \A b \in (j + 1)..(m + 1) : j <= m /\ b \in j..(m + 1)
    BY <1>1
  <2> QED
    BY <2>1, <2>2
<1>6. ASSUME NEW i \in 1..n
      PROVE  Doubled(g, i) <=> i < n /\ g[i] = "*" /\ g[i + 1] = "*"
  BY DoubledStars
<1>7. ASSUME NEW i \in 1..n
      PROVE  InRow(g, i) <=> g[i] = "*" /\ ((i > 1 /\ g[i - 1] = "*") \/ (i < n /\ g[i + 1] = "*"))
  BY DEF InRow
<1> HIDE DEF n, m, D, A, H
<1>8. ASSUME NEW i \in 1..n, Doubled(g, i), NEW j \in 1..(m + 1)
      PROVE  A(i, j) <=> D(i, j)
  <2>1. ASSUME NEW b \in j..(m + 1), D(i, b) PROVE D(i, j)
    <3>1. b \in 1..(m + 1) /\ \A c \in b..(m + 1) : c \in j..(m + 1)
      OBVIOUS
    <3>2. A(i + 2, b)
      BY <1>4, <1>8, <2>1, <3>1
    <3>3. A(i + 2, j)
      BY <1>5, <3>1, <3>2
    <3> QED
      BY <1>4, <1>8, <3>3
  <2>2. j \in j..(m + 1)
    BY <1>1
  <2> QED
    BY <1>5, <2>1, <2>2
<1>9. \A i \in 1..n : g[i] = "*" => \A j \in 1..(m + 1) : A(i, j) <=> A(i + 1, j)
  <2> DEFINE C(i) == g[i] = "*" => \A j \in 1..(m + 1) : A(i, j) <=> A(i + 1, j)
             N == {k \in Nat : k < n => C(n - k)}
  <2>1. ASSUME NEW i \in 1..n, i < n => C(i + 1) PROVE C(i)
    <3> SUFFICES ASSUME g[i] = "*", NEW j \in 1..(m + 1) PROVE A(i, j) <=> A(i + 1, j)
      OBVIOUS
    <3>1. CASE Doubled(g, i)
      <4>1. i < n /\ g[i + 1] = "*" /\ (i + 1) + 1 = i + 2
        BY <1>6, <3>1
      <4>2. A(i + 1, j) <=> A(i + 2, j)
        BY <2>1, <4>1
      <4> QED
        BY <1>4, <1>8, <3>1, <4>2
    <3>2. CASE ~Doubled(g, i)
      <4>1. ASSUME NEW b \in j..(m + 1), D(i, b) PROVE A(i + 1, j)
        <5>1. b \in 1..(m + 1) /\ \A c \in b..(m + 1) : c \in j..(m + 1)
          OBVIOUS
        <5>2. \E c \in b..(m + 1) : D(i + 1, c)
          BY <1>4, <3>2, <4>1, <5>1
        <5> QED
          BY <1>5, <5>1, <5>2
      <4>2. ASSUME NEW b \in j..(m + 1), D(i + 1, b) PROVE D(i, b)
        <5>1. b \in 1..(m + 1) /\ b \in b..(m + 1) /\ b..(b - 1) = {}
          OBVIOUS
        <5> QED
          BY <1>4, <3>2, <4>2, <5>1
      <4> QED
        BY <1>5, <4>1, <4>2
    <3> QED
      BY <3>1, <3>2
  <2> HIDE DEF C
  <2>2. 0 \in N /\ \A k \in Nat : k \in N => k + 1 \in N
    <3>1. 0 \in N
      <4>1. 0 < n => n - 0 \in 1..n /\ ~(n - 0 < n)
        BY <1>1
      <4> QED
        BY <2>1, <4>1
    <3>2. ASSUME NEW k \in Nat, k \in N, k + 1 < n PROVE C(n - (k + 1))
      <4>1. n - (k + 1) \in 1..n /\ (n - (k + 1)) + 1 = n - k /\ k < n
        BY <1>1, <3>2
      <4> QED
        BY <2>1, <3>2, <4>1
    <3> QED
      BY <3>1, <3>2
  <2>3. Nat \subseteq N
    <3> HIDE DEF N
    <3> QED
      BY <2>2, Induction
  <2>4. ASSUME NEW i \in 1..n PROVE C(i)
    <3>1. n - i \in Nat /\ n - i < n /\ n - (n - i) = i
      BY <1>1
    <3> QED
      BY <2>3, <3>1
  <2> QED
    BY <2>4 DEF C
<1>10. ASSUME NEW i \in 1..n, NEW j \in 1..(m + 1), g[i] # "*"
       PROVE  <<i, j>> \in H <=> j <= m /\ <<i, j>> \in GlobTakes(g, p) /\ <<i + 1, j + 1>> \in H
  <2>1. <<i, j>> \in H <=> D(i, j)
    BY <1>2, <1>7, <1>10
  <2>2. D(i, j) <=> j <= m /\ PieceTakes(Piece(g[i]), p[j]) /\ D(i + 1, j + 1)
    BY <1>4, <1>10
  <2>3. j <= m => j \in 1..m /\ j + 1 \in 1..(m + 1)
    BY <1>1
  <2>4. ASSUME j <= m PROVE <<i + 1, j + 1>> \in H <=> D(i + 1, j + 1)
    <3>1. CASE i = n
      BY <1>2, <2>3, <2>4, <3>1
    <3>2. CASE i # n
      <4>1. i + 1 \in 1..n /\ (i + 1) - 1 = i
        BY <1>1, <3>2
      <4>2. CASE InRow(g, i + 1)
        <5>1. Doubled(g, i + 1)
          BY <1>6, <1>7, <1>10, <4>1, <4>2
        <5> QED
          BY <1>2, <1>8, <2>3, <2>4, <4>1, <4>2, <5>1
      <4>3. CASE ~InRow(g, i + 1)
        BY <1>2, <2>3, <2>4, <4>1, <4>3
      <4> QED
        BY <4>2, <4>3
    <3> QED
      BY <3>1, <3>2
  <2> QED
    BY <1>2, <1>10, <2>1, <2>2, <2>3, <2>4
<1>11. ASSUME NEW i \in 1..n, NEW j \in 1..(m + 1), g[i] = "*"
       PROVE  <<i, j>> \in H <=> \/ <<i + 1, j>> \in H
                                 \/ j <= m /\ <<i, j>> \in GlobTakes(g, p) /\ <<i, j + 1>> \in H
  <2>1. j <= m => j \in 1..m /\ j + 1 \in 1..(m + 1)
    BY <1>1
  <2>2. i + 1 \in 1..n \/ i = n
    BY <1>1
  <2>3. CASE InRow(g, i)
    <3>1. <<i, j>> \in H <=> A(i, j)
      BY <1>2, <2>3
    <3>2. j <= m => <<i, j>> \in GlobTakes(g, p) /\ (<<i, j + 1>> \in H <=> A(i, j + 1))
      BY <1>2, <1>11, <2>1, <2>3
    <3>3. j <= m /\ A(i, j + 1) => A(i, j)
      BY <1>5
    <3>4. CASE i < n /\ g[i + 1] = "*"
      <4>1. i + 1 \in 1..n /\ (i + 1) - 1 = i /\ i + 1 > 1
        BY <1>1, <3>4
      <4>2. InRow(g, i + 1)
        BY <1>7, <1>11, <3>4, <4>1
      <4>3. <<i + 1, j>> \in H <=> A(i, j)
        BY <1>2, <1>9, <1>11, <4>1, <4>2
      <4> QED
        BY <3>1, <3>2, <3>3, <4>3
    <3>5. CASE ~(i < n /\ g[i + 1] = "*")
      <4>1. <<i + 1, j>> \in H <=> D(i + 1, j)
        <5>1. CASE i = n
          BY <1>2, <5>1
        <5>2. CASE i # n
          <6>1. i < n /\ i + 1 \in 1..n
            BY <1>1, <5>2
          <6>2. ~InRow(g, i + 1)
            BY <1>7, <3>5, <6>1
          <6> QED
            BY <1>2, <6>1, <6>2
        <5> QED
          BY <5>1, <5>2
      <4>2. A(i, j) <=> D(i + 1, j) \/ (j <= m /\ A(i + 1, j + 1))
        BY <1>5, <1>9, <1>11
      <4>3. j <= m => (A(i, j + 1) <=> A(i + 1, j + 1))
        BY <1>9, <1>11, <2>1
      <4> QED
        BY <3>1, <3>2, <4>1, <4>2, <4>3
    <3> QED
      BY <3>4, <3>5
  <2>4. CASE ~InRow(g, i)
    <3>1. <<i, j>> \in H <=> D(i, j)
      BY <1>2, <2>4
    <3>2. j <= m => (<<i, j>> \in GlobTakes(g, p) <=> p[j] # "/") /\ (<<i, j + 1>> \in H <=> D(i, j + 1))
      BY <1>2, <1>11, <2>1, <2>4
    <3>3. ~Doubled(g, i) /\ ~(i < n /\ g[i + 1] = "*")
      BY <1>6, <1>7, <1>11, <2>4
    <3>4. <<i + 1, j>> \in H <=> D(i + 1, j)
      <4>1. CASE i = n
        BY <1>2, <4>1
      <4>2. CASE i # n
        <5>1. i < n /\ i + 1 \in 1..n
          BY <1>1, <4>2
        <5>2. ~InRow(g, i + 1)
          BY <1>7, <3>3, <5>1
        <5> QED
          BY <1>2, <5>1, <5>2
      <4> QED
        BY <4>1, <4>2
    <3>5. D(i, j) <=> D(i + 1, j) \/ (j <= m /\ p[j] # "/" /\ D(i, j + 1))
      <4>1. \A k \in 1..(m + 1) :
              D(i, k) <=> \E b \in k..(m + 1) : /\ \A q \in k..(b - 1) : p[q] # "/"
                                                /\ D(i + 1, b)
        BY <1>4, <1>11, <3>3
      <4> QED
        BY <1>1, <4>1, StarFits DEF D
    <3> QED
      BY <3>1, <3>2, <3>4, <3>5
  <2> QED
    BY <2>3, <2>4
<1>12. EndSide(H, n, m, GlobStars(g), GlobTakes(g, p))
  <2> SUFFICES ASSUME NEW i \in 1..(n + 1), NEW j \in 1..(m + 1)
               PROVE  <<i, j>> \in H <=>
                        IF i = n + 1 THEN j = m + 1
                        ELSE IF i \in GlobStars(g)
                          THEN \/ <<i + 1, j>> \in H
                               \/ j <= m /\ <<i, j>> \in GlobTakes(g, p) /\ <<i, j + 1>> \in H
                        ELSE j <= m /\ <<i, j>> \in GlobTakes(g, p) /\ <<i + 1, j + 1>> \in H
    BY DEF EndSide
  <2>1. CASE i = n + 1
    BY <1>2, <1>3, <2>1
  <2>2. CASE i \in 1..n
    <3>1. i # n + 1 /\ (i \in GlobStars(g) <=> g[i] = "*")
      BY <1>1, <1>2, <2>2
    <3> QED
      BY <1>10, <1>11, <2>2, <3>1
  <2> QED
    BY <1>1, <2>1, <2>2
<1>13. <<1, 1>> \in H <=> D(1, 1)
  <2>1. 1 \in 1..(m + 1)
    BY <1>1
  <2>2. CASE n = 0
    BY <1>2, <2>1, <2>2
  <2>3. CASE n # 0
    <3>1. 1 \in 1..n /\ ~(1 > 1)
      BY <1>1, <2>3
    <3>2. InRow(g, 1) => Doubled(g, 1)
      BY <1>6, <1>7, <3>1
    <3> QED
      BY <1>2, <1>8, <2>1, <3>1, <3>2
  <2> QED
    BY <2>2, <2>3
<1> QED
  BY <1>12, <1>13 DEF n, m, D, H

\* The starts of a text, by their lengths.
AreStarts(st, T, s) ==
  /\ st \in [0..Len(s) -> Seq(T)]
  /\ st[0] = <<>> /\ st[Len(s)] = s
  /\ \A i \in 1..Len(s) : st[i] = Append(st[i - 1], s[i])

LEMMA StartsExist ==
  ASSUME NEW T, NEW s \in Seq(T)
  PROVE  \E st : AreStarts(st, T, s)
<1> DEFINE n == Len(s)
           start(k) == [i \in 1..k |-> s[i]]
           st == [k \in 0..n |-> start(k)]
<1>1. n \in Nat /\ \A i \in 1..n : s[i] \in T
  OBVIOUS
<1>2. \A k \in 0..n : start(k) \in Seq(T) /\ Len(start(k)) = k /\ \A i \in 1..k : start(k)[i] = s[i]
  BY <1>1
<1> HIDE DEF n, start
<1>3. start(0) = <<>>
  <2>1. 0 \in 0..n
    BY <1>1
  <2>2. start(0) \in Seq(T) /\ Len(start(0)) = 0
    BY <1>2, <2>1
  <2> QED
    BY <2>2
<1>4. start(n) = s
  <2>1. n \in 0..n
    BY <1>1
  <2>2. start(n) \in Seq(T) /\ Len(start(n)) = n /\ \A i \in 1..n : start(n)[i] = s[i]
    BY <1>2, <2>1
  <2> QED
    BY <2>2, SeqEqual DEF n
<1>5. ASSUME NEW k \in 1..n PROVE start(k) = Append(start(k - 1), s[k])
  <2> DEFINE a == start(k - 1)
             u == start(k)
             v == Append(a, s[k])
  <2>1. k \in 0..n /\ k - 1 \in 0..n /\ k \in 1..k /\ s[k] \in T
    BY <1>1
  <2>2. /\ u \in Seq(T) /\ Len(u) = k /\ \A i \in 1..k : u[i] = s[i]
        /\ a \in Seq(T) /\ Len(a) = k - 1 /\ \A i \in 1..(k - 1) : a[i] = s[i]
    BY <1>2, <2>1
  <2> HIDE DEF a, u
  <2>3. /\ v \in Seq(T) /\ Len(v) = k /\ v[k] = s[k]
        /\ \A i \in 1..(k - 1) : v[i] = a[i]
    BY <2>1, <2>2
  <2> HIDE DEF v
  <2>4. ASSUME NEW i \in 1..k PROVE u[i] = v[i]
    <3>1. i \in 1..(k - 1) \/ i = k
      BY <2>1
    <3> QED
      BY <2>2, <2>3, <3>1
  <2>5. u = v
    BY <2>2, <2>3, <2>4, SeqEqual
  <2> QED
    BY <2>5 DEF a, u, v
<1>6. /\ st \in [0..n -> Seq(T)] /\ st[0] = <<>> /\ st[n] = s
      /\ \A i \in 1..n : st[i] = Append(st[i - 1], s[i])
  <2>1. 0 \in 0..n /\ n \in 0..n /\ \A i \in 1..n : i \in 0..n /\ i - 1 \in 0..n
    BY <1>1
  <2>2. \A k \in 0..n : st[k] = start(k)
    OBVIOUS
  <2>3. st \in [0..n -> Seq(T)]
    BY <1>2
  <2> HIDE DEF st
  <2> QED
    BY <1>3, <1>4, <1>5, <2>1, <2>2, <2>3
<1> HIDE DEF st
<1>7. AreStarts(st, T, s)
  BY <1>6 DEF AreStarts, n
<1> QED
  BY <1>7

\* A row of stars, with a part more and without.
LEMMA MoreParts ==
  ASSUME NEW T, {"*", "/"} \subseteq T, NEW e \in Seq(T)
  PROVE  /\ \A k \in Nat : AnyParts(k) \in Seq(T) /\ e \o AnyParts(k) \in Seq(T)
         /\ e \o AnyParts(0) = Append(e, "*")
         /\ \A k \in Nat :
              e \o AnyParts(k + 1) = Append(Append(e \o AnyParts(k), "/"), "*")
<1>1. ASSUME NEW k \in Nat
      PROVE  /\ AnyParts(k) \in Seq(T) /\ Len(AnyParts(k)) = 2 * k + 1
             /\ \A i \in 1..(2 * k + 1) : AnyParts(k)[i] = IF i % 2 = 1 THEN "*" ELSE "/"
  <2>1. 2 * k + 1 \in Nat
    OBVIOUS
  <2> QED
    BY <2>1 DEF AnyParts
<1> DEFINE m == Len(e)
<1>2. m \in Nat /\ \A i \in 1..m : e[i] \in T
  OBVIOUS
<1>3. ASSUME NEW k \in Nat
      PROVE  /\ e \o AnyParts(k) \in Seq(T) /\ Len(e \o AnyParts(k)) = m + (2 * k + 1)
             /\ \A i \in 1..m : (e \o AnyParts(k))[i] = e[i]
             /\ \A i \in 1..(2 * k + 1) : (e \o AnyParts(k))[m + i] = IF i % 2 = 1 THEN "*" ELSE "/"
  <2> DEFINE a == AnyParts(k)
             l == 2 * k + 1
  <2> l \in Nat
    OBVIOUS
  <2> HIDE DEF a
  <2>1. a \in Seq(T) /\ Len(a) = l /\ \A i \in 1..l : a[i] = IF i % 2 = 1 THEN "*" ELSE "/"
    BY <1>1 DEF a
  <2> HIDE DEF l
  <2>2. /\ e \o a \in Seq(T) /\ Len(e \o a) = m + l
        /\ \A i \in 1..m : (e \o a)[i] = e[i]
        /\ \A i \in 1..l : (e \o a)[m + i] = a[i]
    BY <2>1
  <2> QED
    BY <2>1, <2>2 DEF a, l
<1> HIDE DEF m
<1>4. e \o AnyParts(0) = Append(e, "*")
  <2> DEFINE u == e \o AnyParts(0)
             v == Append(e, "*")
  <2>1. /\ u \in Seq(T) /\ Len(u) = m + 1 /\ u[m + 1] = "*"
        /\ \A i \in 1..m : u[i] = e[i]
    <3>1. 0 \in Nat /\ 2 * 0 + 1 = 1 /\ 1 \in 1..1 /\ 1 % 2 = 1
      OBVIOUS
    <3> QED
      BY <1>3, <3>1
  <2>2. /\ v \in Seq(T) /\ Len(v) = m + 1 /\ v[m + 1] = "*"
        /\ \A i \in 1..m : v[i] = e[i]
    BY DEF m
  <2> HIDE DEF u, v
  <2>3. \A i \in 1..(m + 1) : u[i] = v[i]
    <3>1. \A i \in 1..(m + 1) : i \in 1..m \/ i = m + 1
      BY <1>2
    <3> QED
      BY <2>1, <2>2, <3>1
  <2>4. u = v
    BY <2>1, <2>2, <2>3, SeqEqual
  <2> QED
    BY <2>4 DEF u, v
<1>5. ASSUME NEW k \in Nat PROVE e \o AnyParts(k + 1) = Append(Append(e \o AnyParts(k), "/"), "*")
  <2> DEFINE a == e \o AnyParts(k)
             u == e \o AnyParts(k + 1)
             w == Append(a, "/")
             v == Append(w, "*")
             l == 2 * k + 1
  <2>1. /\ l \in Nat /\ 2 * (k + 1) + 1 = l + 2 /\ k + 1 \in Nat
        /\ (l + 1) % 2 # 1 /\ (l + 2) % 2 = 1
    OBVIOUS
  <2>2. /\ u \in Seq(T) /\ Len(u) = m + (l + 2)
        /\ \A i \in 1..m : u[i] = e[i]
        /\ \A i \in 1..(l + 2) : u[m + i] = IF i % 2 = 1 THEN "*" ELSE "/"
    <3> HIDE DEF l
    <3> QED
      BY <1>3, <2>1
  <2>3. /\ a \in Seq(T) /\ Len(a) = m + l
        /\ \A i \in 1..m : a[i] = e[i]
        /\ \A i \in 1..l : a[m + i] = IF i % 2 = 1 THEN "*" ELSE "/"
    BY <1>3
  <2> HIDE DEF a, u, l
  <2>4. /\ w \in Seq(T) /\ Len(w) = (m + l) + 1 /\ w[(m + l) + 1] = "/"
        /\ \A i \in 1..(m + l) : w[i] = a[i]
    BY <2>3, AppendProperties
  <2> HIDE DEF w
  <2>5. /\ v \in Seq(T) /\ Len(v) = (m + l) + 2 /\ v[(m + l) + 2] = "*"
        /\ \A i \in 1..((m + l) + 1) : v[i] = w[i]
    <3>1. Len(w) + 1 = (m + l) + 2
      BY <1>2, <2>1, <2>4
    <3> QED
      BY <2>4, <3>1, AppendProperties
  <2> HIDE DEF v
  <2>6. ASSUME NEW i \in 1..((m + l) + 2) PROVE u[i] = v[i]
    <3>1. CASE i \in 1..m
      <4>1. i \in 1..(m + l) /\ i \in 1..((m + l) + 1)
        BY <1>2, <2>1, <3>1
      <4> QED
        BY <2>2, <2>3, <2>4, <2>5, <3>1, <4>1
    <3>2. CASE i \in (m + 1)..(m + l)
      <4> DEFINE q == i - m
      <4>1. q \in 1..l /\ q \in 1..(l + 2) /\ i = m + q /\ i \in 1..(m + l) /\ i \in 1..((m + l) + 1)
        BY <1>2, <2>1, <3>2
      <4> HIDE DEF q
      <4>2. u[m + q] = a[m + q]
        BY <2>2, <2>3, <4>1
      <4> QED
        BY <2>4, <2>5, <4>1, <4>2
    <3>3. CASE i = (m + l) + 1
      <4>1. l + 1 \in 1..(l + 2) /\ i = m + (l + 1) /\ i \in 1..((m + l) + 1)
        BY <1>2, <2>1, <3>3
      <4>2. u[m + (l + 1)] = "/"
        BY <2>1, <2>2, <4>1
      <4> QED
        BY <2>4, <2>5, <3>3, <4>1, <4>2
    <3>4. CASE i = (m + l) + 2
      <4>1. l + 2 \in 1..(l + 2) /\ i = m + (l + 2)
        BY <1>2, <2>1, <3>4
      <4>2. u[m + (l + 2)] = "*"
        BY <2>1, <2>2, <4>1
      <4> QED
        BY <2>5, <3>4, <4>1, <4>2
    <3> QED
      BY <1>2, <2>1, <3>1, <3>2, <3>3, <3>4
  <2>7. Len(u) = (m + l) + 2
    BY <1>2, <2>1, <2>2
  <2>8. u = v
    BY <2>2, <2>5, <2>6, <2>7, SeqEqual
  <2> QED
    BY <2>8 DEF a, u, v, w
<1> QED
  BY <1>1, <1>3, <1>4, <1>5

\* The starts of a text, by their lengths, and a glob with a character more.
LEMMA StartsByPart ==
  ASSUME NEW U, NEW p \in Seq(U), NEW ps, AreStarts(ps, U, p),
         NEW T, NEW r \in Seq(T), NEW x \in T, x \notin Wild, NEW s, s = Append(r, x)
  PROVE  /\ x # "*" =>
              /\ ~MatchesByPart(ps[0], s)
              /\ \A b \in 1..Len(p) :
                   MatchesByPart(ps[b], s)
                     <=> PieceTakes(Piece(x), p[b]) /\ MatchesByPart(ps[b - 1], r)
         /\ x = "*" =>
              /\ MatchesByPart(ps[0], s) <=> MatchesByPart(ps[0], r)
              /\ \A b \in 1..Len(p) :
                   MatchesByPart(ps[b], s)
                     <=> \/ MatchesByPart(ps[b], r)
                         \/ p[b] # "/" /\ MatchesByPart(ps[b - 1], s)
<1>1. ps[0] = <<>> /\ <<>> \in Seq({0}) /\ 0 \in {0}
  BY DEF AreStarts
<1>2. ASSUME NEW b \in 1..Len(p)
      PROVE  ps[b - 1] \in Seq(U) /\ p[b] \in U /\ ps[b] = Append(ps[b - 1], p[b])
  <2>1. b - 1 \in 0..Len(p) /\ p[b] \in U
    OBVIOUS
  <2> QED
    BY <2>1 DEF AreStarts
<1>3. ASSUME x # "*"
      PROVE  /\ ~MatchesByPart(ps[0], s)
             /\ \A b \in 1..Len(p) :
                  MatchesByPart(ps[b], s)
                    <=> PieceTakes(Piece(x), p[b]) /\ MatchesByPart(ps[b - 1], r)
  <2>1. ~MatchesByPart(ps[0], s)
    BY <1>1, <1>3, ByPartNext
  <2>2. ASSUME NEW b \in 1..Len(p)
        PROVE  MatchesByPart(ps[b], s)
                 <=> PieceTakes(Piece(x), p[b]) /\ MatchesByPart(ps[b - 1], r)
    <3>1. MatchesByPart(Append(ps[b - 1], p[b]), Append(r, x))
            <=> PieceTakes(Piece(x), p[b]) /\ MatchesByPart(ps[b - 1], r)
      BY <1>2, <1>3, ByPartNext
    <3> QED
      BY <1>2, <3>1
  <2> QED
    BY <2>1, <2>2
<1>4. ASSUME x = "*"
      PROVE  /\ MatchesByPart(ps[0], s) <=> MatchesByPart(ps[0], r)
             /\ \A b \in 1..Len(p) :
                  MatchesByPart(ps[b], s)
                    <=> \/ MatchesByPart(ps[b], r)
                        \/ p[b] # "/" /\ MatchesByPart(ps[b - 1], s)
  <2>1. MatchesByPart(ps[0], s) <=> MatchesByPart(ps[0], r)
    BY <1>1, <1>4, ByPartStar
  <2>2. ASSUME NEW b \in 1..Len(p)
        PROVE  MatchesByPart(ps[b], s)
                 <=> \/ MatchesByPart(ps[b], r)
                     \/ p[b] # "/" /\ MatchesByPart(ps[b - 1], s)
    <3>1. MatchesByPart(Append(ps[b - 1], p[b]), Append(r, "*"))
            <=> \/ MatchesByPart(Append(ps[b - 1], p[b]), r)
                \/ p[b] # "/" /\ MatchesByPart(ps[b - 1], Append(r, "*"))
      BY <1>2, <1>4, ByPartStar
    <3> QED
      BY <1>2, <1>4, <3>1
  <2> QED
    BY <2>1, <2>2
<1> QED
  BY <1>3, <1>4

\* The starts of a text, by their lengths, match a glob of some parts more.
LEMMA PartsMore ==
  ASSUME NEW T, {"*", "/"} \subseteq T, Wild \cap T = {}, NEW e \in Seq(T), NEW U, NEW p \in Seq(U),
         NEW ps, AreStarts(ps, U, p), NEW j \in 0..Len(p)
  PROVE  (\E k \in 0..Len(p) : MatchesByPart(ps[j], e \o AnyParts(k)))
            <=> \E b \in 0..j : MatchesByPart(ps[b], e)
<1> DEFINE m == Len(p)
           B(k) == e \o AnyParts(k)
           W(k) == Append(B(k), "/")
           M(b, r) == MatchesByPart(ps[b], r)
           Star(r, s) == r \in Seq(T) /\ s = Append(r, "*")
           Slash(r, s) == r \in Seq(T) /\ s = Append(r, "/")
           Q(b) == /\ \A k \in Nat : M(b, B(k)) => \E c \in 0..b : M(c, e)
                   /\ (\E c \in 0..b : M(c, e)) => \E k \in 0..b : M(b, B(k))
           N == {b \in Nat : b <= m => Q(b)}
<1>1. m \in Nat
  OBVIOUS
<1>2. /\ Star(e, B(0))
      /\ \A k \in Nat : Slash(B(k), W(k)) /\ Star(W(k), B(k + 1))
  <2>1. \A k \in Nat : B(k) \in Seq(T)
    BY MoreParts
  <2>2. B(0) = Append(e, "*") /\ \A k \in Nat : B(k + 1) = Append(W(k), "*")
    BY MoreParts
  <2> HIDE DEF B
  <2>3. \A k \in Nat : W(k) \in Seq(T)
    BY <2>1
  <2> HIDE DEF W
  <2>4. \A k \in Nat : W(k) = Append(B(k), "/")
    BY DEF W
  <2> QED
    BY <2>1, <2>2, <2>3, <2>4
<1>3. \A k \in Nat : \E r : Star(r, B(k))
  <2> SUFFICES ASSUME NEW k \in Nat PROVE \E r : Star(r, B(k))
    OBVIOUS
  <2> HIDE DEF B, W, Star
  <2>1. CASE k = 0
    BY <1>2, <2>1
  <2>2. CASE k # 0
    <3>1. k - 1 \in Nat /\ (k - 1) + 1 = k
      BY <2>2
    <3>2. Star(W(k - 1), B((k - 1) + 1))
      BY <1>2, <3>1
    <3>3. Star(W(k - 1), B(k))
      BY <3>1, <3>2
    <3> QED
      BY <3>3
  <2> QED
    BY <2>1, <2>2
<1> HIDE DEF B, W, m
<1>4. ASSUME NEW r, NEW s
      PROVE  /\ Star(r, s) =>
                  /\ M(0, s) <=> M(0, r)
                  /\ \A b \in 1..m : M(b, s) <=> M(b, r) \/ (p[b] # "/" /\ M(b - 1, s))
             /\ Slash(r, s) =>
                  /\ ~M(0, s)
                  /\ \A b \in 1..m : M(b, s) <=> p[b] = "/" /\ M(b - 1, r)
  <2>1. "/" \notin Wild /\ "*" \notin Wild /\ "/" # "*" /\ "/" \in T /\ "*" \in T
    BY DEF Wild
  <2>2. \A c : PieceTakes(Piece("/"), c) <=> c = "/"
    BY DEF PieceTakes, Piece
  <2> QED
    BY <2>1, <2>2, StartsByPart DEF m
<1> HIDE DEF Star, Slash
<1> HIDE DEF M
<1>5. Q(0)
  <2>1. ASSUME NEW k \in Nat, M(0, B(k)) PROVE M(0, e)
    <3>1. CASE k = 0
      BY <1>2, <1>4, <2>1, <3>1
    <3>2. CASE k # 0
      <4>1. k - 1 \in Nat /\ (k - 1) + 1 = k
        BY <3>2
      <4>2. Slash(B(k - 1), W(k - 1)) /\ Star(W(k - 1), B((k - 1) + 1))
        BY <1>2, <4>1
      <4> QED
        BY <1>4, <2>1, <4>1, <4>2
    <3> QED
      BY <3>1, <3>2
  <2>2. M(0, e) => M(0, B(0))
    BY <1>2, <1>4
  <2>3. \A c : c \in 0..0 <=> c = 0
    OBVIOUS
  <2> QED
    BY <2>1, <2>2, <2>3
<1>6. ASSUME NEW b \in Nat, b + 1 <= m, Q(b) PROVE Q(b + 1)
  <2>1. b + 1 \in 1..m /\ (b + 1) - 1 = b /\ b + 1 \in 0..(b + 1) /\ 0 \in Nat
        /\ \A c \in 0..(b + 1) : c \in 0..b \/ c = b + 1
    BY <1>1, <1>6
  <2>2. \A c \in 0..b : c \in 0..(b + 1) /\ c \in Nat /\ c + 1 \in 0..(b + 1)
    BY <1>6
  <2>3. ASSUME NEW k \in Nat, M(b + 1, B(k)) PROVE \E c \in 0..(b + 1) : M(c, e)
    <3>1. ASSUME M(b, B(k)) PROVE \E c \in 0..(b + 1) : M(c, e)
      BY <1>6, <2>2, <3>1
    <3>2. CASE k = 0
      <4>1. M(b + 1, e) \/ M(b, B(0))
        BY <1>2, <1>4, <2>1, <2>3, <3>2
      <4> QED
        BY <2>1, <3>1, <3>2, <4>1
    <3>3. CASE k # 0
      <4>1. k - 1 \in Nat /\ (k - 1) + 1 = k
        BY <3>3
      <4>2. Slash(B(k - 1), W(k - 1)) /\ Star(W(k - 1), B((k - 1) + 1))
        BY <1>2, <4>1
      <4>3. M(b + 1, W(k - 1)) \/ M(b, B(k))
        BY <1>4, <2>1, <2>3, <4>1, <4>2
      <4>4. M(b + 1, W(k - 1)) => M(b, B(k - 1))
        BY <1>4, <2>1, <4>1, <4>2
      <4>5. M(b, B(k - 1)) => \E c \in 0..(b + 1) : M(c, e)
        BY <1>6, <2>2, <4>1
      <4> QED
        BY <3>1, <4>3, <4>4, <4>5
    <3> QED
      BY <3>2, <3>3
  <2>4. ASSUME NEW c \in 0..(b + 1), M(c, e) PROVE \E k \in 0..(b + 1) : M(b + 1, B(k))
    <3>1. CASE c = b + 1
      <4>1. M(b + 1, B(0)) /\ 0 \in 0..(b + 1)
        BY <1>2, <1>4, <2>1, <2>4, <3>1
      <4> QED
        BY <4>1
    <3>2. CASE c \in 0..b
      <4>1. PICK k \in 0..b : M(b, B(k))
        BY <1>6, <2>4, <3>2
      <4>2. k \in Nat /\ k \in 0..(b + 1) /\ k + 1 \in 0..(b + 1)
        BY <2>2
      <4>3. PICK r : Star(r, B(k))
        BY <1>3, <4>2
      <4>4. CASE p[b + 1] # "/"
        <5>1. M(b + 1, B(k))
          BY <1>4, <2>1, <4>1, <4>3, <4>4
        <5> QED
          BY <4>2, <5>1
      <4>5. CASE p[b + 1] = "/"
        <5>1. M(b + 1, W(k))
          <6>1. Slash(B(k), W(k))
            BY <1>2, <4>2
          <6> QED
            BY <1>4, <2>1, <4>1, <4>5, <6>1
        <5>2. M(b + 1, B(k + 1))
          BY <1>2, <1>4, <2>1, <4>2, <5>1
        <5> QED
          BY <4>2, <5>2
      <4> QED
        BY <4>4, <4>5
    <3> QED
      BY <2>1, <3>1, <3>2
  <2> QED
    BY <2>3, <2>4
<1> HIDE DEF Q
<1>7. 0 \in N /\ \A b \in Nat : b \in N => b + 1 \in N
  <2>1. \A b \in Nat : b + 1 <= m => b <= m
    BY <1>1
  <2> QED
    BY <1>5, <1>6, <2>1
<1>8. Q(j)
  <2>1. Nat \subseteq N
    <3> HIDE DEF N
    <3> QED
      BY <1>7, Induction
  <2>2. j \in Nat /\ j <= m
    BY <1>1 DEF m
  <2> QED
    BY <2>1, <2>2
<1>9. /\ \A k \in 0..m : k \in Nat
      /\ \A k \in 0..j : k \in 0..m
  BY <1>1 DEF m
<1> QED
  BY <1>8, <1>9 DEF Q, B, M, m

\* The readings of a start are those of the shorter start, and one character more.
MoreRead(v, g, n, i) ==
  IF ~InRow(g, i) THEN {Append(r, g[i]) : r \in v}
  ELSE IF i > 1 /\ g[i - 1] = "*" THEN v
  ELSE {r \o AnyParts(k) : r \in v, k \in 0..n}

IsRead(y, v, g, n, i) ==
  IF ~InRow(g, i) THEN \E r \in v : y = Append(r, g[i])
  ELSE IF i > 1 /\ g[i - 1] = "*" THEN y \in v
  ELSE \E r \in v, k \in 0..n : y = r \o AnyParts(k)

LEMMA ReadFacts ==
  ASSUME NEW v, NEW g, NEW n, NEW i, NEW y
  PROVE  y \in MoreRead(v, g, n, i) <=> IsRead(y, v, g, n, i)
<1>1. CASE ~InRow(g, i)
  <2>1. MoreRead(v, g, n, i) = {Append(r, g[i]) : r \in v}
    BY <1>1 DEF MoreRead
  <2>2. y \in MoreRead(v, g, n, i) <=> \E r \in v : y = Append(r, g[i])
    BY <2>1
  <2> QED
    BY <1>1, <2>2 DEF IsRead
<1>2. CASE InRow(g, i) /\ i > 1 /\ g[i - 1] = "*"
  BY <1>2 DEF MoreRead, IsRead
<1>3. CASE InRow(g, i) /\ ~(i > 1 /\ g[i - 1] = "*")
  <2>1. MoreRead(v, g, n, i) = {r \o AnyParts(k) : r \in v, k \in 0..n}
    <3> DEFINE many == {r \o AnyParts(k) : r \in v, k \in 0..n}
    <3>1. MoreRead(v, g, n, i)
            = IF ~InRow(g, i) THEN {Append(r, g[i]) : r \in v}
              ELSE IF i > 1 /\ g[i - 1] = "*" THEN v ELSE many
      BY DEF MoreRead
    <3> DEFINE single == {Append(r, g[i]) : r \in v}
               inner == i > 1 /\ g[i - 1] = "*"
    <3>2. MoreRead(v, g, n, i) = IF ~InRow(g, i) THEN single ELSE IF inner THEN v ELSE many
      BY <3>1
    <3>3. InRow(g, i) /\ ~inner
      BY <1>3
    <3> HIDE DEF many, single, inner
    <3>4. MoreRead(v, g, n, i) = many
      BY <3>2, <3>3
    <3> QED
      BY <3>4 DEF many
  <2>2. y \in MoreRead(v, g, n, i) <=> \E r \in v, k \in 0..n : y = r \o AnyParts(k)
    BY <2>1
  <2> QED
    BY <1>3, <2>2 DEF IsRead
<1> QED
  BY <1>1, <1>2, <1>3

AreReadings(E, g, n) ==
  E = [i \in 0..Len(g) |-> IF i = 0 THEN {<<>>} ELSE MoreRead(E[i - 1], g, n, i)]

LEMMA ReadingsExist ==
  ASSUME NEW T, {"*", "/"} \subseteq T, NEW g \in Seq(T), NEW n \in Nat
  PROVE  \E E \in [0..Len(g) -> SUBSET Seq(T)] :
           AreReadings(E, g, n) /\ Readings(g, n) = E[Len(g)]
<1> DEFINE L == Len(g)
           Q == Seq(T)
           V == SUBSET Q
           b == {<<>>}
           More(v, i) == MoreRead(v, g, n, i)
           step == [x \in V \X Nat |-> IF x[2] - 1 \in 1..L THEN More(x[1], x[2] - 1) ELSE x[1]]
           chosen == CHOOSE E : AreReadings(E, g, n)
<1>1. L \in Nat /\ \A i \in 1..L : g[i] \in T
  OBVIOUS
<1>2. Readings(g, n) = chosen[L]
  BY DEF Readings, AreReadings, MoreRead
<1> HIDE DEF L
<1>3. b \in V
  <2>1. <<>> \in Q
    OBVIOUS
  <2> HIDE DEF Q
  <2> QED
    BY <2>1
<1>4. ASSUME NEW v \in V, NEW i \in 1..L PROVE More(v, i) \in V
  <2>1. \A r \in Q : Append(r, g[i]) \in Q
    BY <1>1
  <2>2. \A r \in Q : \A k \in Nat : r \o AnyParts(k) \in Q
    BY MoreParts
  <2>3. \A k \in 0..n : k \in Nat
    OBVIOUS
  <2>4. ASSUME NEW y, IsRead(y, v, g, n, i) PROVE y \in Q
    <3> HIDE DEF Q
    <3>1. \A r \in v : r \in Q
      OBVIOUS
    <3> QED
      BY <2>1, <2>2, <2>3, <2>4, <3>1 DEF IsRead
  <2> HIDE DEF Q
  <2>5. ASSUME NEW y, y \in MoreRead(v, g, n, i) PROVE y \in Q
    BY <2>4, <2>5, ReadFacts
  <2> QED
    BY <2>5
<1> HIDE DEF V, b, More
<1>5. /\ step \in [V \X Nat -> V]
      /\ \A v \in V, t \in Nat : t - 1 \in 1..L => step[<<v, t>>] = More(v, t - 1)
  <2>1. ASSUME NEW x \in V \X Nat
        PROVE  (IF x[2] - 1 \in 1..L THEN More(x[1], x[2] - 1) ELSE x[1]) \in V
    BY <1>4
  <2>2. step \in [V \X Nat -> V]
    BY <2>1
  <2> QED
    BY <2>2
<1> HIDE DEF step
<1>6. PICK f \in [1..(L + 1) -> V] : ByRecursion(f, L + 1, b, step)
  <2>1. step \in [V \X Nat -> V] /\ L + 1 \in Nat
    BY <1>1, <1>5
  <2> QED
    BY <1>3, <2>1, RecursionExists
<1> DEFINE E == [i \in 0..L |-> f[i + 1]]
<1>7. /\ E \in [0..L -> V] /\ E[0] = b
      /\ \A i \in 1..L : E[i] = More(E[i - 1], i)
  <2>1. E \in [0..L -> V]
    <3>1. \A i \in 0..L : i + 1 \in 1..(L + 1)
      BY <1>1
    <3> QED
      BY <3>1
  <2>2. E[0] = b
    <3>1. 0 \in 0..L /\ 0 + 1 = 1 /\ 1 \in 1..(L + 1)
      BY <1>1
    <3>2. f[1] = b
      BY <1>6, <3>1 DEF ByRecursion
    <3> QED
      BY <3>1, <3>2
  <2>3. ASSUME NEW i \in 1..L PROVE E[i] = More(E[i - 1], i)
    <3>1. /\ i \in 0..L /\ i - 1 \in 0..L /\ (i - 1) + 1 = i /\ i + 1 # 1 /\ (i + 1) - 1 = i
          /\ i + 1 \in 1..(L + 1) /\ i \in 1..(L + 1) /\ i + 1 \in Nat
      BY <1>1
    <3>2. f[i + 1] = step[<<f[(i + 1) - 1], i + 1>>]
      BY <1>6, <3>1 DEF ByRecursion
    <3>3. f[i] \in V
      BY <3>1
    <3>4. step[<<f[i], i + 1>>] = More(f[i], (i + 1) - 1)
      BY <1>5, <3>1, <3>3
    <3>5. E[i] = f[i + 1] /\ E[i - 1] = f[i]
      BY <3>1
    <3> HIDE DEF E
    <3> QED
      BY <3>1, <3>2, <3>4, <3>5
  <2> QED
    BY <2>1, <2>2, <2>3
<1> HIDE DEF E
<1>8. AreReadings(E, g, n)
  <2>1. ASSUME NEW i \in 0..L PROVE E[i] = (IF i = 0 THEN {<<>>} ELSE MoreRead(E[i - 1], g, n, i))
    <3>1. CASE i = 0
      BY <1>7, <3>1 DEF b
    <3>2. CASE i # 0
      <4>1. i \in 1..L
        BY <1>1, <3>2
      <4> QED
        BY <1>7, <3>2, <4>1 DEF More
    <3> QED
      BY <3>1, <3>2
  <2>2. E = [i \in 0..L |-> E[i]]
    BY <1>7
  <2> QED
    BY <2>1, <2>2 DEF AreReadings, L
<1>9. AreReadings(chosen, g, n)
  BY <1>8
<1> HIDE DEF chosen
<1> DEFINE N == {k \in Nat : k <= L => chosen[k] \in V}
<1>10. /\ \A i \in 1..L : chosen[i] = More(chosen[i - 1], i)
       /\ chosen[0] = b /\ chosen = [i \in 0..L |-> chosen[i]]
  <2>1. chosen = [i \in 0..L |-> (IF i = 0 THEN {<<>>} ELSE MoreRead(chosen[i - 1], g, n, i))]
    BY <1>9 DEF AreReadings, L
  <2>2. 0 \in 0..L /\ \A i \in 1..L : i \in 0..L /\ i # 0
    BY <1>1
  <2>3. \A i \in 0..L : chosen[i] = (IF i = 0 THEN {<<>>} ELSE MoreRead(chosen[i - 1], g, n, i))
    BY <2>1
  <2>4. chosen[0] = b
    BY <2>2, <2>3 DEF b
  <2>5. \A i \in 1..L : chosen[i] = More(chosen[i - 1], i)
    BY <2>2, <2>3 DEF More
  <2>6. chosen = [i \in 0..L |-> chosen[i]]
    BY <2>1
  <2> QED
    BY <2>4, <2>5, <2>6
<1>11. 0 \in N /\ \A k \in Nat : k \in N => k + 1 \in N
  <2>1. 0 \in N
    BY <1>3, <1>10
  <2>2. ASSUME NEW k \in Nat, k \in N, k + 1 <= L PROVE chosen[k + 1] \in V
    <3>1. k + 1 \in 1..L /\ (k + 1) - 1 = k /\ k <= L
      BY <1>1, <2>2
    <3>2. chosen[k] \in V
      BY <2>2, <3>1
    <3>3. chosen[k + 1] = More(chosen[k], k + 1)
      BY <1>10, <3>1
    <3> QED
      BY <1>4, <3>1, <3>2, <3>3
  <2> QED
    BY <2>1, <2>2
<1>12. chosen \in [0..L -> V]
  <2>1. Nat \subseteq N
    <3> HIDE DEF N
    <3> QED
      BY <1>11, Induction
  <2>2. \A i \in 0..L : chosen[i] \in V
    <3>1. \A i \in 0..L : i \in Nat /\ i <= L
      BY <1>1
    <3> QED
      BY <2>1, <3>1
  <2> HIDE DEF N
  <2> QED
    BY <1>10, <2>2
<1> QED
  BY <1>2, <1>9, <1>12 DEF L, V, Q

\* A start of the path matches a reading of a start of the glob.
Reached(E, ps, i, b) == \E r \in E[i] : MatchesByPart(ps[b], r)

GlobReached(g, p, E, ps) ==
  {x \in (1..(Len(g) + 1)) \X (1..(Len(p) + 1)) : Reached(E, ps, x[1] - 1, x[2] - 1)}

LEMMA ReachedSteps ==
  ASSUME NEW T, {"*", "/"} \subseteq T, Wild \cap T = {}, NEW g \in Seq(T), NEW U, NEW p \in Seq(U),
         NEW ps, AreStarts(ps, U, p),
         NEW E \in [0..Len(g) -> SUBSET Seq(T)], AreReadings(E, g, Len(p)),
         NEW i \in 1..Len(g)
  PROVE  /\ g[i] # "*" =>
              /\ ~Reached(E, ps, i, 0)
              /\ \A b \in 1..Len(p) :
                   Reached(E, ps, i, b)
                     <=> PieceTakes(Piece(g[i]), p[b]) /\ Reached(E, ps, i - 1, b - 1)
         /\ g[i] = "*" /\ ~InRow(g, i) =>
              /\ Reached(E, ps, i, 0) <=> Reached(E, ps, i - 1, 0)
              /\ \A b \in 1..Len(p) :
                   Reached(E, ps, i, b)
                     <=> Reached(E, ps, i - 1, b) \/ (p[b] # "/" /\ Reached(E, ps, i, b - 1))
         /\ InRow(g, i) /\ i > 1 /\ g[i - 1] = "*" =>
              \A b : Reached(E, ps, i, b) <=> Reached(E, ps, i - 1, b)
         /\ InRow(g, i) /\ ~(i > 1 /\ g[i - 1] = "*") =>
              \A b \in 0..Len(p) :
                Reached(E, ps, i, b) <=> \E c \in 0..b : Reached(E, ps, i - 1, c)
<1> DEFINE n == Len(g)
           m == Len(p)
           v == E[i - 1]
           x == g[i]
           Q == Seq(T)
<1>1. /\ n \in Nat /\ m \in Nat /\ i \in 0..n /\ i # 0 /\ i - 1 \in 0..n /\ x \in T
      /\ x \notin Wild
  OBVIOUS
<1>2. E[i] = MoreRead(v, g, m, i)
  BY <1>1 DEF AreReadings
<1>3. v \in SUBSET Q
  BY <1>1
<1>4. \A y : y \in E[i] <=> IsRead(y, v, g, m, i)
  BY <1>2, ReadFacts
<1>5. \A b : Reached(E, ps, i - 1, b) <=> \E r \in v : MatchesByPart(ps[b], r)
  BY DEF Reached
<1>6. \A b : Reached(E, ps, i, b) <=> \E r \in E[i] : MatchesByPart(ps[b], r)
  BY DEF Reached
<1>7. \A r \in Q : Append(r, x) \in Q
  BY <1>1
<1> HIDE DEF v, Q
<1>8. ASSUME ~InRow(g, i)
      PROVE  \A b : Reached(E, ps, i, b) <=> \E r \in v : MatchesByPart(ps[b], Append(r, x))
  <2>1. \A y : y \in E[i] <=> \E r \in v : y = Append(r, x)
    BY <1>4, <1>8 DEF IsRead
  <2> SUFFICES ASSUME NEW b
               PROVE  Reached(E, ps, i, b) <=> \E r \in v : MatchesByPart(ps[b], Append(r, x))
    OBVIOUS
  <2> DEFINE M(y) == MatchesByPart(ps[b], y)
             S == E[i]
  <2>2. Reached(E, ps, i, b) <=> \E y \in S : M(y)
    BY <1>6
  <2>3. \A y : y \in S <=> \E r \in v : y = Append(r, x)
    BY <2>1
  <2> HIDE DEF M, S, x
  <2>4. (\E y \in S : M(y)) <=> \E r \in v : M(Append(r, x))
    BY <2>3, Zenon
  <2>5. Reached(E, ps, i, b) <=> \E r \in v : M(Append(r, x))
    BY <2>2, <2>4
  <2> QED
    BY <2>5 DEF M
<1>9. ASSUME x # "*"
      PROVE  /\ ~Reached(E, ps, i, 0)
             /\ \A b \in 1..m :
                  Reached(E, ps, i, b)
                    <=> PieceTakes(Piece(x), p[b]) /\ Reached(E, ps, i - 1, b - 1)
  <2>1. ~InRow(g, i)
    BY <1>9 DEF InRow
  <2>2. ASSUME NEW r \in v
        PROVE  /\ ~MatchesByPart(ps[0], Append(r, x))
               /\ \A b \in 1..m :
                    MatchesByPart(ps[b], Append(r, x))
                      <=> PieceTakes(Piece(x), p[b]) /\ MatchesByPart(ps[b - 1], r)
    <3>1. r \in Seq(T)
      BY <1>3 DEF Q
    <3> QED
      BY <1>1, <1>9, <3>1, StartsByPart
  <2> QED
    BY <1>5, <1>8, <2>1, <2>2
<1>10. ASSUME x = "*", ~InRow(g, i)
       PROVE  /\ Reached(E, ps, i, 0) <=> Reached(E, ps, i - 1, 0)
              /\ \A b \in 1..m :
                   Reached(E, ps, i, b)
                     <=> Reached(E, ps, i - 1, b) \/ (p[b] # "/" /\ Reached(E, ps, i, b - 1))
  <2>1. ASSUME NEW r \in v
        PROVE  /\ MatchesByPart(ps[0], Append(r, x)) <=> MatchesByPart(ps[0], r)
               /\ \A b \in 1..m :
                    MatchesByPart(ps[b], Append(r, x))
                      <=> \/ MatchesByPart(ps[b], r)
                          \/ p[b] # "/" /\ MatchesByPart(ps[b - 1], Append(r, x))
    <3>1. r \in Seq(T)
      BY <1>3 DEF Q
    <3> QED
      BY <1>1, <1>10, <3>1, StartsByPart
  <2> QED
    BY <1>5, <1>8, <1>10, <2>1
<1>11. ASSUME InRow(g, i), i > 1, g[i - 1] = "*"
       PROVE  \A b : Reached(E, ps, i, b) <=> Reached(E, ps, i - 1, b)
  BY <1>4, <1>5, <1>6, <1>11 DEF IsRead
<1>12. ASSUME InRow(g, i), ~(i > 1 /\ g[i - 1] = "*"), NEW b \in 0..m
       PROVE  Reached(E, ps, i, b) <=> \E c \in 0..b : Reached(E, ps, i - 1, c)
  <2>1. \A y : y \in E[i] <=> \E r \in v, k \in 0..m : y = r \o AnyParts(k)
    BY <1>4, <1>12 DEF IsRead
  <2>2. Reached(E, ps, i, b) <=> \E r \in v : \E k \in 0..m : MatchesByPart(ps[b], r \o AnyParts(k))
    <3> DEFINE M(y) == MatchesByPart(ps[b], y)
               S == E[i]
               W == 0..m
    <3>1. Reached(E, ps, i, b) <=> \E y \in S : M(y)
      BY <1>6
    <3>2. \A y : y \in S <=> \E r \in v : \E k \in W : y = r \o AnyParts(k)
      BY <2>1
    <3> HIDE DEF M, S, W
    <3>3. ASSUME NEW y \in S, M(y) PROVE \E r \in v : \E k \in W : M(r \o AnyParts(k))
      <4>1. PICK r \in v : \E k \in W : y = r \o AnyParts(k)
        BY <3>2
      <4>2. PICK k \in W : y = r \o AnyParts(k)
        BY <4>1
      <4>3. M(r \o AnyParts(k))
        BY <3>3, <4>2
      <4> QED
        BY <4>3, Zenon
    <3>4. ASSUME NEW r \in v, NEW k \in W, M(r \o AnyParts(k)) PROVE \E y \in S : M(y)
      <4>1. r \o AnyParts(k) \in S
        BY <3>2, Zenon
      <4> QED
        BY <3>4, <4>1, Zenon
    <3>5. Reached(E, ps, i, b) <=> \E r \in v : \E k \in W : M(r \o AnyParts(k))
      BY <3>1, <3>3, <3>4, Zenon
    <3> QED
      BY <3>5 DEF M, W
  <2>3. ASSUME NEW r \in v
        PROVE  (\E k \in 0..m : MatchesByPart(ps[b], r \o AnyParts(k)))
                 <=> \E c \in 0..b : MatchesByPart(ps[c], r)
    <3>1. r \in Seq(T)
      BY <1>3 DEF Q
    <3> QED
      BY <3>1, PartsMore
  <2> QED
    BY <1>5, <2>2, <2>3
<1> QED
  BY <1>9, <1>10, <1>11, <1>12

LEMMA StartsOfGlob ==
  ASSUME NEW T, {"*", "/"} \subseteq T, Wild \cap T = {}, NEW g \in Seq(T), NEW U, NEW p \in Seq(U),
         NEW ps, AreStarts(ps, U, p),
         NEW E \in [0..Len(g) -> SUBSET Seq(T)], AreReadings(E, g, Len(p))
  PROVE  StartSide(GlobReached(g, p, E, ps), Len(g), Len(p), GlobStars(g), GlobTakes(g, p))
<1> DEFINE n == Len(g)
           m == Len(p)
           R(i, b) == Reached(E, ps, i, b)
           P == GlobReached(g, p, E, ps)
           Row(i) == i > 1 /\ g[i - 1] = "*"
<1>1. n \in Nat /\ m \in Nat
  OBVIOUS
<1>2. ASSUME NEW i \in 1..n
      PROVE  /\ g[i] # "*" =>
                  /\ ~R(i, 0)
                  /\ \A b \in 1..m : R(i, b) <=> PieceTakes(Piece(g[i]), p[b]) /\ R(i - 1, b - 1)
             /\ g[i] = "*" /\ ~InRow(g, i) =>
                  /\ R(i, 0) <=> R(i - 1, 0)
                  /\ \A b \in 1..m : R(i, b) <=> R(i - 1, b) \/ (p[b] # "/" /\ R(i, b - 1))
             /\ InRow(g, i) /\ Row(i) => \A b : R(i, b) <=> R(i - 1, b)
             /\ InRow(g, i) /\ ~Row(i) =>
                  \A b \in 0..m : R(i, b) <=> \E c \in 0..b : R(i - 1, c)
  <2>1. i \in 1..Len(g)
    OBVIOUS
  <2> QED
    BY <2>1, ReachedSteps
<1>3. \A i \in 1..(n + 1), j \in 1..(m + 1) : <<i, j>> \in P <=> R(i - 1, j - 1)
  BY DEF GlobReached
<1>4. /\ \A i \in 1..n : i \in GlobStars(g) <=> g[i] = "*"
      /\ \A i \in 1..n, j \in 1..m :
           <<i, j>> \in GlobTakes(g, p) <=>
             IF g[i] = "*" THEN InRow(g, i) \/ p[j] # "/" ELSE PieceTakes(Piece(g[i]), p[j])
  BY DEF GlobStars, GlobTakes
<1>5. \A i \in 1..n :
        InRow(g, i) <=> g[i] = "*" /\ (Row(i) \/ (i < n /\ g[i + 1] = "*"))
  BY DEF InRow
<1>6. ASSUME NEW b \in 0..m PROVE R(0, b) <=> b = 0
  <2>1. 0 \in 0..n /\ E[0] = {<<>>}
    BY <1>1 DEF AreReadings
  <2>2. ps[b] \in Seq(U) /\ ps[0] = <<>>
    BY DEF AreStarts
  <2>3. R(0, b) <=> ps[b] = <<>>
    BY <2>1, <2>2, ByPartNothing DEF Reached
  <2>4. ASSUME b # 0 PROVE ps[b] # <<>>
    <3>1. b \in 1..m /\ b - 1 \in 0..m /\ p[b] \in U
      BY <2>4
    <3>2. ps[b] = Append(ps[b - 1], p[b]) /\ ps[b - 1] \in Seq(U)
      BY <3>1 DEF AreStarts
    <3> DEFINE r == ps[b - 1]
               y == p[b]
    <3>3. r \in Seq(U) /\ y \in U /\ ps[b] = Append(r, y)
      BY <3>1, <3>2
    <3> HIDE DEF r, y
    <3>4. Append(r, y) # <<>>
      BY <3>3, AppendProperties
    <3> QED
      BY <3>3, <3>4
  <2> QED
    BY <2>2, <2>3, <2>4
<1> HIDE DEF n, m, R, P
<1>7. ASSUME NEW i \in 1..n, InRow(g, i), ~Row(i), NEW b \in 1..m
      PROVE  R(i, b) <=> R(i - 1, b) \/ R(i, b - 1)
  <2>1. b \in 0..m /\ b - 1 \in 0..m /\ \A c : c \in 0..b <=> c = b \/ c \in 0..(b - 1)
    BY <1>1
  <2> QED
    BY <1>2, <1>7, <2>1
<1>8. \A i \in 1..n : InRow(g, i) => \A b \in 1..m : R(i, b - 1) => R(i, b)
  <2> DEFINE C(i) == InRow(g, i) => \A b \in 1..m : R(i, b - 1) => R(i, b)
             N == {k \in Nat : k + 1 <= n => C(k + 1)}
  <2>1. ASSUME NEW i \in 1..n, Row(i) => C(i - 1) PROVE C(i)
    <3> SUFFICES ASSUME InRow(g, i), NEW b \in 1..m, R(i, b - 1) PROVE R(i, b)
      OBVIOUS
    <3>1. CASE ~Row(i)
      BY <1>7, <3>1
    <3>2. CASE Row(i)
      <4>1. i - 1 \in 1..n /\ i - 1 < n /\ (i - 1) + 1 = i /\ g[i - 1] = "*" /\ g[i] = "*"
        BY <1>1, <1>5, <3>2
      <4>2. InRow(g, i - 1)
        BY <1>5, <4>1
      <4> QED
        BY <1>2, <2>1, <3>2, <4>2
    <3> QED
      BY <3>1, <3>2
  <2> HIDE DEF C
  <2>2. 0 \in N /\ \A k \in Nat : k \in N => k + 1 \in N
    <3>1. 0 \in N
      <4>1. 0 + 1 <= n => 1 \in 1..n /\ ~Row(1) /\ 0 + 1 = 1
        BY <1>1
      <4> QED
        BY <2>1, <4>1
    <3>2. ASSUME NEW k \in Nat, k \in N, (k + 1) + 1 <= n PROVE C((k + 1) + 1)
      <4>1. (k + 1) + 1 \in 1..n /\ ((k + 1) + 1) - 1 = k + 1 /\ k + 1 <= n
        BY <1>1, <3>2
      <4> HIDE DEF Row
      <4> QED
        BY <2>1, <3>2, <4>1
    <3> QED
      BY <3>1, <3>2
  <2>3. Nat \subseteq N
    <3> HIDE DEF N
    <3> QED
      BY <2>2, Induction
  <2>4. ASSUME NEW i \in 1..n PROVE C(i)
    <3>1. i - 1 \in Nat /\ (i - 1) + 1 = i /\ i <= n
      BY <1>1
    <3>2. i - 1 \in N
      BY <2>3, <3>1
    <3> QED
      BY <3>1, <3>2
  <2> QED
    BY <2>4 DEF C
<1> HIDE DEF Row
<1>9. ASSUME NEW i \in 1..n
      PROVE  /\ g[i] = "*" => (R(i, 0) <=> R(i - 1, 0))
             /\ g[i] = "*" => \A b \in 1..m :
                  R(i, b) <=> R(i - 1, b) \/ ((InRow(g, i) \/ p[b] # "/") /\ R(i, b - 1))
  <2> SUFFICES ASSUME g[i] = "*"
               PROVE  /\ R(i, 0) <=> R(i - 1, 0)
                      /\ \A b \in 1..m :
                           R(i, b) <=> R(i - 1, b) \/ ((InRow(g, i) \/ p[b] # "/") /\ R(i, b - 1))
    OBVIOUS
  <2>1. CASE ~InRow(g, i)
    BY <1>2, <2>1
  <2>2. CASE InRow(g, i) /\ Row(i)
    BY <1>2, <1>8, <2>2
  <2>3. CASE InRow(g, i) /\ ~Row(i)
    <3>1. 0 \in 0..m /\ \A c : c \in 0..0 <=> c = 0
      BY <1>1
    <3>2. R(i, 0) <=> R(i - 1, 0)
      BY <1>2, <2>3, <3>1
    <3> QED
      BY <1>7, <2>3, <3>2
  <2> QED
    BY <2>1, <2>2, <2>3
<1>10. ASSUME NEW j \in 1..(m + 1) PROVE <<1, j>> \in P <=> j = 1
  <2>1. 1 \in 1..(n + 1) /\ 1 - 1 = 0 /\ j - 1 \in 0..m /\ (j - 1 = 0 <=> j = 1)
    BY <1>1
  <2>2. <<1, j>> \in P <=> R(0, j - 1)
    BY <1>3, <2>1
  <2> QED
    BY <1>6, <2>1, <2>2
<1>11. ASSUME NEW i \in 1..n, NEW j \in 1..(m + 1)
       PROVE  <<i + 1, j>> \in P <=>
                IF i \in GlobStars(g)
                  THEN \/ <<i, j>> \in P
                       \/ j > 1 /\ <<i, j - 1>> \in GlobTakes(g, p) /\ <<i + 1, j - 1>> \in P
                ELSE j > 1 /\ <<i, j - 1>> \in GlobTakes(g, p) /\ <<i, j - 1>> \in P
  <2>1. /\ i \in 1..(n + 1) /\ i + 1 \in 1..(n + 1) /\ (i + 1) - 1 = i
    BY <1>1
  <2>2. (<<i + 1, j>> \in P <=> R(i, j - 1)) /\ (<<i, j>> \in P <=> R(i - 1, j - 1))
    BY <1>3, <2>1
  <2>3. CASE j = 1
    <3>1. j - 1 = 0 /\ ~(j > 1)
      BY <2>3
    <3> QED
      BY <1>2, <1>4, <1>9, <2>2, <3>1
  <2>4. CASE j # 1
    <3>1. j > 1 /\ j - 1 \in 1..m /\ j - 1 \in 1..(m + 1)
      BY <1>1, <2>4
    <3>2. /\ <<i + 1, j - 1>> \in P <=> R(i, (j - 1) - 1)
          /\ <<i, j - 1>> \in P <=> R(i - 1, (j - 1) - 1)
      BY <1>3, <2>1, <3>1
    <3>3. CASE g[i] = "*"
      <4>1. R(i, j - 1) <=>
              R(i - 1, j - 1) \/ ((InRow(g, i) \/ p[j - 1] # "/") /\ R(i, (j - 1) - 1))
        BY <1>9, <3>1, <3>3
      <4> QED
        BY <1>4, <2>2, <3>1, <3>2, <3>3, <4>1
    <3>4. CASE g[i] # "*"
      <4>1. R(i, j - 1) <=> PieceTakes(Piece(g[i]), p[j - 1]) /\ R(i - 1, (j - 1) - 1)
        BY <1>2, <3>1, <3>4
      <4> QED
        BY <1>4, <2>2, <3>1, <3>2, <3>4, <4>1
    <3> QED
      BY <3>3, <3>4
  <2> QED
    BY <2>3, <2>4
<1> QED
  BY <1>10, <1>11 DEF StartSide, n, m, P

\* A path matches the expression of a glob exactly if the glob stands for it
\* (_glob_to_regex, and what fullmatch makes of its result).
LEMMA MatchesWhatItStandsFor ==
  ASSUME NEW T, Wild \cap T = {}, NEW g \in Seq(T), NEW U, NEW p \in Seq(U)
  PROVE  FullMatch(GlobToRegex(g), p) <=> StandsFor(g, p)
<1> DEFINE A == T \cup {"*", "/"}
           regex == GlobToRegex(g)
           n == Len(g)
           m == Len(p)
<1>1. g \in Seq(A) /\ {"*", "/"} \subseteq A /\ Wild \cap A = {} /\ n \in Nat /\ m \in Nat
  BY DEF Wild
<1> HIDE DEF A
<1>2. PICK f \in [1..(n + 1) -> Seq(A \cup Wild)] : IsTranslation(f, g) /\ regex = f[1]
  BY <1>1, GlobSteps
<1>3. PICK ps : AreStarts(ps, U, p)
  BY StartsExist
<1>4. PICK E \in [0..n -> SUBSET Seq(A)] : AreReadings(E, g, m) /\ Readings(g, m) = E[n]
  BY <1>1, ReadingsExist
<1> DEFINE H == GlobEnds(g, p, f)
           P == GlobReached(g, p, E, ps)
<1>5. EndSide(H, n, m, GlobStars(g), GlobTakes(g, p)) /\ (<<1, 1>> \in H <=> FitsFrom(f[1], p, 1))
  BY <1>1, <1>2, EndsOfGlob
<1>6. StartSide(P, n, m, GlobStars(g), GlobTakes(g, p))
  BY <1>1, <1>3, <1>4, StartsOfGlob
<1>7. <<n + 1, m + 1>> \in P <=> StandsFor(g, p)
  <2>1. n + 1 \in 1..(n + 1) /\ m + 1 \in 1..(m + 1) /\ (n + 1) - 1 = n /\ (m + 1) - 1 = m
    BY <1>1
  <2>2. ps[m] = p
    BY <1>3 DEF AreStarts
  <2>3. <<n + 1, m + 1>> \in P <=> Reached(E, ps, n, m)
    BY <2>1 DEF GlobReached
  <2> QED
    BY <1>4, <2>2, <2>3 DEF Reached, StandsFor
<1>8. FullMatch(regex, p) <=> FitsFrom(f[1], p, 1)
  <2> DEFINE B == A \cup Wild \cup U
  <2>1. 1 \in 1..(n + 1)
    BY <1>1
  <2>2. regex \in Seq(A \cup Wild)
    BY <1>2, <2>1
  <2>3. regex \in Seq(B) /\ p \in Seq(B)
    BY <2>2
  <2> HIDE DEF B
  <2> QED
    BY <1>2, <2>3, MatchIsCut DEF FitsFrom
<1> HIDE DEF H, P
<1>9. <<1, 1>> \in H <=> <<n + 1, m + 1>> \in P
  BY <1>1, <1>5, <1>6, BothSides
<1> QED
  BY <1>5, <1>7, <1>8, <1>9 DEF regex
=============================================================================
