--------------------------- MODULE FileQueriesProofs ---------------------------
(***************************************************************************)
(* For every set of files, globs and queries, and any number of edits:     *)
(* what is served was there, is what was named and is nothing protected, a *)
(* list names all that stays, a search finds the first hits, and a query   *)
(* fails only for a cause.                                                 *)
(***************************************************************************)
EXTENDS FileQueries, FilePolicyProofs

\* The size limit binds what the query reads.
LimitBinds == strict /\ query.kind \in {"read", "search"}

\* The file that is read was checked, and is so until the error or the content is
\* there.
Reading == pc \in {"stat", "read", "open"}

\* What was found of a file was in it since the query was asked, if it was no
\* link meanwhile.
WasIn(f, c) == c \in Contents /\ (Link \in held[f] \/ c \in held[f])

\* What was taken of a file was in it since the query was asked; what a read or
\* a search has taken was within the limit.
Seen(i) ==
  /\ i.path \in Files /\ held[i.path] \cap Contents # {}
  /\ WasIn(i.path, i.sized) /\ WasIn(i.path, i.content)

QueryInv ==
  /\ \A f \in Files : file[f] \in held[f]
  /\ DOMAIN held = Files /\ file \in [Files -> Values]
  /\ pc = "idle" => found = {}
  /\ pc # "idle" => answer = None
  /\ \A i \in found : Seen(i) /\ (LimitBinds => i.sized \notin TooLarge)
  /\ Reading => todo # <<>> /\ Head(todo) \in Files /\ held[Head(todo)] \cap Contents # {}
  /\ pc \in {"read", "open"} =>
       /\ WasIn(Head(todo), sized)
       /\ LimitBinds => sized \notin TooLarge
  /\ answer # None =>
       \A i \in answer.infos :
         /\ Seen(i)
         /\ query.kind \in {"read", "search"} /\ answer.status = "ok" => i.sized \notin TooLarge

-----------------------------------------------------------------------------
(* Steps that several actions take *)

\* A query ends with infos that were seen.
LEMMA EndStep ==
  ASSUME NEW status, NEW infos, End(status, infos),
         \A f \in Files : file'[f] \in held'[f],
         DOMAIN held' = Files, file' \in [Files -> Values],
         \A i \in infos : /\ Seen(i)'
                          /\ query'.kind \in {"read", "search"} /\ status = "ok" =>
                               i.sized \notin TooLarge
  PROVE  QueryInv'
<1>1. pc' = "idle" /\ found' = {}
  BY DEF End, Forget
<1>2. answer'.infos = infos /\ answer'.status = status
  BY DEF End
<1> QED
  BY <1>1, <1>2 DEF QueryInv, Reading

\* A query fails.
LEMMA FailStep ==
  ASSUME QueryInv, NEW status, Fail(status), UNCHANGED <<file, held>>
  PROVE  QueryInv'
<1>1. /\ \A f \in Files : file'[f] \in held'[f]
      /\ DOMAIN held' = Files /\ file' \in [Files -> Values]
  BY DEF QueryInv
<1>2. End(status, {})
  BY DEF Fail
<1> QED
  BY <1>1, <1>2, EndStep

\* A query goes on with what it has found.
LEMMA GoOnStep ==
  ASSUME QueryInv, UNCHANGED <<file, held, query, strict, found, answer>>,
         pc # "idle", pc' # "idle", ~Reading'
  PROVE  QueryInv'
BY DEF QueryInv, Seen, WasIn, LimitBinds, Reading

\* The error about a path ends the query or passes over the path.
LEMMA PathFailsStep ==
  ASSUME QueryInv, NEW status, PathFails(status), UNCHANGED <<file, held>>, pc # "idle"
  PROVE  QueryInv'
<1>1. CASE strict
  BY <1>1, FailStep DEF PathFails
<1>2. CASE ~strict
  <2>1. UNCHANGED <<query, strict, found, answer>> /\ pc' = "files"
    BY <1>2 DEF PathFails
  <2> QED
    BY <2>1, GoOnStep DEF Reading
<1> QED
  BY <1>1, <1>2

\* What a file holds is one of its contents since the query was asked.
LEMMA HeldFacts ==
  ASSUME QueryInv, NEW x, Held(x) \in Contents
  PROVE  x \in Files /\ Held(x) \in held[x] /\ Held(x) = file[x]
BY ValueAssumption DEF Held, QueryInv

-----------------------------------------------------------------------------
(* The actions *)

LEMMA InitQueries == Init => QueryInv
BY ValueAssumption DEF Init, QueryInv, Reading

\* Asking forgets what the files held before.
LEMMA AskStep ==
  ASSUME QueryInv, NEW q \in Queries, AskOne(q) \/ AskAll(q)
  PROVE  QueryInv'
<1>1. /\ pc = "idle" /\ file' = file /\ query' = q
      /\ held' = [f \in Files |-> {file[f]}]
  BY DEF AskOne, AskAll, Begin, world
<1>2. /\ \A f \in Files : file'[f] \in held'[f]
      /\ DOMAIN held' = Files /\ file' \in [Files -> Values]
  BY <1>1 DEF QueryInv
<1>3. CASE End("refused", {})
  BY <1>2, <1>3, EndStep
<1>4. CASE pc' = "files" /\ answer' = None /\ found' = found
  BY <1>1, <1>2, <1>4 DEF QueryInv, Reading
<1> QED
  BY <1>3, <1>4 DEF AskOne, AskAll

\* The globs are expanded.
LEMMA ListStep ==
  ASSUME QueryInv,
         \/ GlobRefused \/ LiteralGlob \/ ListLocally \/ StartListing
         \/ ListFolder \/ NoFolder
         \/ \E x \in Files \cup Folders : LookAt(x)
         \/ FolderListed
  PROVE  QueryInv'
<1>1. CASE GlobRefused
  <2>1. /\ \A f \in Files : file'[f] \in held'[f]
        /\ DOMAIN held' = Files /\ file' \in [Files -> Values]
    BY <1>1 DEF GlobRefused, AtGlob, world, history, QueryInv
  <2>2. End("refused", {})
    BY <1>1 DEF GlobRefused
  <2> QED
    BY <2>1, <2>2, EndStep
<1>2. CASE LiteralGlob \/ ListLocally
  <2>1. /\ UNCHANGED <<file, held, query, strict, found, answer>>
        /\ pc = "files" /\ pc' = "files"
    BY <1>2 DEF LiteralGlob, ListLocally, AtGlob, TakeNames, world, history
  <2> QED
    BY <2>1, GoOnStep DEF Reading
<1>3. CASE StartListing
  <2>1. /\ UNCHANGED <<file, held, query, strict, found, answer>>
        /\ pc = "files" /\ pc' = "listdir"
    BY <1>3 DEF StartListing, AtGlob, world, history
  <2> QED
    BY <2>1, GoOnStep DEF Reading
<1>4. CASE ListFolder \/ NoFolder
  <2>1. /\ UNCHANGED <<file, held, query, strict, found, answer>>
        /\ pc = "listdir" /\ pc' \in {"lstat", "files"}
    BY <1>4 DEF ListFolder, NoFolder, TakeNames, world, history
  <2> QED
    BY <2>1, GoOnStep DEF Reading
<1>5. CASE \E x \in Files \cup Folders : LookAt(x)
  <2>1. /\ UNCHANGED <<file, held, query, strict, found, answer>>
        /\ pc = "lstat" /\ pc' \in {"lstat", "listdir"}
    BY <1>5 DEF LookAt, NextName, world
  <2> QED
    BY <2>1, GoOnStep DEF Reading
<1>6. CASE FolderListed
  <2>1. /\ UNCHANGED <<file, held, query, strict, found, answer>>
        /\ pc = "lstat" /\ pc' \in {"lstat", "files"}
    BY <1>6 DEF FolderListed, TakeNames, world, history
  <2> QED
    BY <2>1, GoOnStep DEF Reading
<1> QED
  BY <1>1, <1>2, <1>3, <1>4, <1>5, <1>6

\* The file of a path is checked, its size taken, it is checked again and read.
Reads == CheckStat \/ Stat \/ CheckRead \/ ReadText

\* What was found of the file is kept.
Finds(c) ==
  /\ pc' = "files" /\ todo' = Tail(todo) /\ sized' = None
  /\ found' = {i \in found : i.path # Head(todo)}
                \cup {[path |-> Head(todo), sized |-> sized, content |-> c]}
  /\ UNCHANGED <<query, listing, strict, answer>>

\* A check fails for what is no file or is a link.
LEMMA CheckFacts ==
  ASSUME NEW next, Check(next)
  PROVE  /\ todo # <<>> /\ UNCHANGED <<world, history>>
         /\ \/ /\ Held(Head(todo)) \notin Contents
               /\ \E status \in {"refused", "not_found"} : PathFails(status)
            \/ /\ Held(Head(todo)) \in Contents /\ pc' = next
               /\ UNCHANGED <<query, listing, todo, strict, sized, found, answer>>
BY DEF Check

\* What stat and read find is in the file at that time, or it is a link.
LEMMA OpenedFacts ==
  ASSUME QueryInv, NEW f, NEW c \in Opened(f)
  PROVE  /\ Held(f) \in Contents \/ Held(f) = Absent => c = Held(f)
         /\ Held(f) = Link => f \in Files /\ Link \in held[f]
         /\ c # Absent => Held(f) # Absent /\ c \in Contents /\ f \in Files /\ WasIn(f, c)
         /\ c = Absent => Held(f) \notin Contents
<1>1. f \in Files => file[f] \in Values /\ file[f] \in held[f]
  BY DEF QueryInv
<1>2. Held(f) \in Values
  BY <1>1 DEF Held, Values
<1>3. Held(f) # Absent => f \in Files /\ Held(f) \in held[f]
  BY <1>1 DEF Held
<1>4. CASE Held(f) = Link
  <2>1. c \in Contents \cup {Absent} /\ Link \notin Contents /\ Link # Absent
    BY <1>4, ValueAssumption DEF Opened
  <2> QED
    BY <1>3, <1>4, <2>1 DEF WasIn
<1>5. CASE Held(f) # Link
  <2>1. c = Held(f) /\ Absent \notin Contents
    BY <1>5, ValueAssumption DEF Opened
  <2>2. c # Absent => c \in Contents
    BY <1>2, <1>5, <2>1 DEF Values
  <2> QED
    BY <1>3, <1>5, <2>1, <2>2 DEF WasIn
<1> QED
  BY <1>4, <1>5

\* One step of them fails because of what is at the path, goes on, or finds.
LEMMA ReadsFacts ==
  ASSUME QueryInv, Reads
  PROVE  LET f == Head(todo)
         IN /\ pc = "files" \/ Reading
            /\ todo # <<>> /\ UNCHANGED <<world, history>>
            /\ \/ /\ Held(f) \notin Contents
                  /\ \E status \in Statuses \ {"ok"} : PathFails(status)
               \/ Limited /\ Held(f) \in TooLarge /\ PathFails("too_large")
               \/ (Held(f) \in Binary \/ (Held(f) = Link /\ pc = "open")) /\ Fail("error")
               \/ Reading' /\ UNCHANGED <<query, listing, todo, strict, found, answer>>
               \/ pc = "open" /\ \E c \in Opened(f) \cap Contents : Finds(c)
<1> DEFINE f == Head(todo)
<1>1. CASE CheckStat \/ CheckRead
  <2>1. PICK next \in {"stat", "open"} : Check(next) /\ pc \in {"files", "read"}
    BY <1>1 DEF CheckStat, CheckRead
  <2> QED
    BY <2>1, CheckFacts DEF Reading, Statuses
<1>2. CASE Stat
  <2>1. pc = "stat" /\ todo # <<>> /\ UNCHANGED <<world, history>>
    BY <1>2 DEF Stat, QueryInv, Reading
  <2>2. PICK c \in Opened(f) :
          \/ c = Absent /\ PathFails("not_found")
          \/ c # Absent /\ Limited /\ c \in TooLarge /\ PathFails("too_large")
          \/ pc' = "read" /\ UNCHANGED <<query, listing, todo, strict, found, answer>>
    BY <1>2 DEF Stat
  <2> HIDE DEF f
  <2>3. /\ Held(f) \in Contents \/ Held(f) = Absent => c = Held(f)
        /\ c = Absent => Held(f) \notin Contents
    BY <2>2, OpenedFacts
  <2>4. CASE c # Absent /\ Limited /\ c \in TooLarge /\ PathFails("too_large")
    BY <2>1, <2>3, <2>4 DEF f, Reading, Statuses
  <2> QED
    BY <2>1, <2>2, <2>3, <2>4 DEF f, Reading, Statuses
<1>3. CASE ReadText
  <2>1. pc = "open" /\ todo # <<>> /\ UNCHANGED <<world, history>>
    BY <1>3 DEF ReadText, QueryInv, Reading
  <2>2. PICK c \in Opened(f) :
          \/ c = Absent /\ PathFails("not_found")
          \/ c # Absent /\ c \in Binary /\ Fail("error")
          \/ c # Absent /\ Finds(c)
    BY <1>3 DEF ReadText, Finds
  <2> HIDE DEF f
  <2>3. /\ Held(f) \in Contents \/ Held(f) = Absent => c = Held(f)
        /\ c # Absent => c \in Contents /\ Held(f) # Absent /\ f \in Files
        /\ c = Absent => Held(f) \notin Contents
    BY <2>2, OpenedFacts
  <2>4. f \in Files => Held(f) \in Values
    BY DEF Held, QueryInv
  <2>5. CASE c # Absent /\ c \in Binary /\ Fail("error")
    BY <2>1, <2>3, <2>4, <2>5 DEF f, Reading, Values
  <2> QED
    BY <2>1, <2>2, <2>3, <2>5 DEF f, Reading, Statuses
<1> QED
  BY <1>1, <1>2, <1>3 DEF Reads

\* The file is checked before its size is taken, and again before it is read.
LEMMA CheckStep ==
  ASSUME QueryInv, CheckStat \/ CheckRead
  PROVE  QueryInv'
<1> DEFINE f == Head(todo)
<1>1. PICK next \in {"stat", "open"} :
        Check(next) /\ pc = (IF next = "stat" THEN "files" ELSE "read")
  BY DEF CheckStat, CheckRead
<1>2. todo # <<>> /\ UNCHANGED <<file, held>>
  BY <1>1, CheckFacts DEF world, history
<1>3. CASE \E status : PathFails(status)
  BY <1>1, <1>2, <1>3, PathFailsStep
<1>4. CASE /\ Held(f) \in Contents /\ pc' = next
           /\ UNCHANGED <<query, todo, strict, sized, found, answer>>
  <2>1. f \in Files /\ held[f] \cap Contents # {}
    BY <1>4, HeldFacts
  <2> HIDE DEF f
  <2>2. f' = f /\ f = Head(todo)
    BY <1>4 DEF f
  <2> QED
    BY <1>1, <1>2, <1>4, <2>1, <2>2 DEF QueryInv, Seen, WasIn, LimitBinds, Reading
<1> QED
  BY <1>1, <1>3, <1>4, CheckFacts

\* The size is taken, and compared if the limit binds.
LEMMA StatStep ==
  ASSUME QueryInv, Stat
  PROVE  QueryInv'
<1> DEFINE f == Head(todo)
<1>1. pc = "stat" /\ UNCHANGED <<file, held>> /\ f \in Files /\ held[f] \cap Contents # {}
  BY DEF Stat, world, history, QueryInv, Reading
<1>2. CASE \E status : PathFails(status)
  BY <1>1, <1>2, PathFailsStep
<1>3. CASE \E c \in Opened(f) : /\ c # Absent /\ ~(Limited /\ c \in TooLarge)
                                /\ pc' = "read" /\ sized' = c
                                /\ UNCHANGED <<query, todo, strict, found, answer>>
  <2>1. PICK c \in Opened(f) : /\ c # Absent /\ ~(Limited /\ c \in TooLarge)
                                /\ pc' = "read" /\ sized' = c
                                /\ UNCHANGED <<query, todo, strict, found, answer>>
    BY <1>3
  <2> HIDE DEF f
  <2>2. WasIn(f, c)
    BY <2>1, OpenedFacts
  <2>3. LimitBinds => c \notin TooLarge
    BY <2>1 DEF LimitBinds, Limited
  <2> QED
    BY <1>1, <2>1, <2>2, <2>3 DEF QueryInv, Seen, WasIn, LimitBinds, Reading, f
<1> QED
  BY <1>2, <1>3 DEF Stat

\* The content is read, perhaps another than the one whose size was taken.
LEMMA ReadTextStep ==
  ASSUME QueryInv, ReadText
  PROVE  QueryInv'
<1> DEFINE f == Head(todo)
           info(c) == [path |-> f, sized |-> sized, content |-> c]
<1>1. pc = "open" /\ UNCHANGED <<file, held>>
  BY DEF ReadText, world, history
<1>2. CASE \E status : PathFails(status) \/ Fail(status)
  BY <1>1, <1>2, PathFailsStep, FailStep
<1>3. CASE \E c \in Opened(f) : c # Absent /\ Finds(c)
  <2>1. PICK c \in Opened(f) : c # Absent /\ Finds(c)
    BY <1>3
  <2>2. /\ pc' = "files" /\ UNCHANGED <<query, strict, answer>>
        /\ found' = {i \in found : i.path # f} \cup {info(c)}
    BY <2>1 DEF Finds
  <2> DEFINE new == info(c)
  <2>3. new.path = f /\ new.sized = sized /\ new.content = c
    OBVIOUS
  <2>4. found' = {i \in found : i.path # f} \cup {new}
    BY <2>2
  <2>5. /\ f \in Files /\ held[f] \cap Contents # {}
        /\ WasIn(f, sized) /\ (LimitBinds => sized \notin TooLarge)
    BY <1>1 DEF QueryInv, Reading
  <2> HIDE DEF f, info, new
  <2>6. WasIn(f, c)
    BY <2>1, OpenedFacts
  <2>7. Seen(new) /\ (LimitBinds => new.sized \notin TooLarge)
    BY <2>3, <2>5, <2>6 DEF Seen
  <2> QED
    BY <1>1, <2>2, <2>4, <2>7 DEF QueryInv, Seen, WasIn, LimitBinds, Reading
<1> QED
  BY <1>2, <1>3 DEF ReadText, Finds

\* A search forgets what the list took before it reads; then a query ends.
LEMMA EndingStep ==
  ASSUME QueryInv, StartReading \/ Finish
  PROVE  QueryInv'
<1>1. UNCHANGED <<file, held, query>> /\ pc = "files"
  BY DEF StartReading, Finish, AtEnd, world, history
<1>2. CASE StartReading
  <2>1. found' = {} /\ pc' = pc /\ answer' = answer
    BY <1>2 DEF StartReading
  <2> QED
    BY <1>1, <2>1 DEF QueryInv, Reading
<1>3. CASE Finish
  <2>1. End("ok", found) /\ (strict \/ query.kind = "list")
    BY <1>3 DEF Finish
  <2>2. query'.kind \in {"read", "search"} => LimitBinds
    BY <1>1, <2>1 DEF LimitBinds
  <2>3. \A i \in found : /\ Seen(i)'
                         /\ query'.kind \in {"read", "search"} => i.sized \notin TooLarge
    BY <1>1, <2>2 DEF QueryInv, Seen, WasIn
  <2>4. /\ \A f \in Files : file'[f] \in held'[f]
        /\ DOMAIN held' = Files /\ file' \in [Files -> Values]
    BY <1>1 DEF QueryInv
  <2> QED
    BY <2>1, <2>3, <2>4, EndStep
<1> QED
  BY <1>2, <1>3

\* A request fails.
LEMMA TransportStep ==
  ASSUME QueryInv, TransportFails
  PROVE  QueryInv'
<1>1. CASE UNCHANGED <<world, held>> /\ \E status : Fail(status)
  BY <1>1, FailStep DEF world
<1>2. CASE UNCHANGED <<world, held>> /\ pc # "idle" /\ \E status : PathFails(status)
  BY <1>2, PathFailsStep DEF world
<1>3. CASE \E x \in Files \cup Folders : NextName(x) /\ UNCHANGED <<pc, at, names>>
  <2>1. /\ UNCHANGED <<file, held, query, strict, found, answer, pc>>
        /\ pc = "lstat"
    BY <1>3 DEF NextName, world
  <2> QED
    BY <2>1, GoOnStep DEF Reading
<1> QED
  BY <1>1, <1>2, <1>3 DEF TransportFails

\* A file changes: what it held before counts as well.
LEMMA EditStep ==
  ASSUME QueryInv, NEW f \in Files, NEW c \in HandEdits, Edit(f, c)
  PROVE  QueryInv'
<1>1. /\ UNCHANGED <<pc, query, todo, strict, sized, found, answer>>
      /\ file' = [file EXCEPT ![f] = c]
      /\ held' = [held EXCEPT ![f] = @ \cup {c}]
  BY DEF Edit, Unasked
<1>2. /\ DOMAIN held' = Files /\ file' \in [Files -> Values]
      /\ \A g \in Files : held[g] \subseteq held'[g] /\ file'[g] \in held'[g]
  BY <1>1, ValueAssumption DEF QueryInv
<1>3. /\ \A g \in Files : \A d : WasIn(g, d) => WasIn(g, d)'
      /\ \A i : Seen(i) => Seen(i)'
  BY <1>2 DEF Seen, WasIn
<1>4. LimitBinds' = LimitBinds
  BY <1>1 DEF LimitBinds
<1> QED
  BY <1>1, <1>2, <1>3, <1>4 DEF QueryInv, Reading

LEMMA QueryInductive == QueryInv /\ [Next]_vars => QueryInv'
<1> SUFFICES ASSUME QueryInv, [Next]_vars PROVE QueryInv'
  OBVIOUS
<1>1. CASE \E q \in Queries : AskOne(q) \/ AskAll(q)
  BY <1>1, AskStep
<1>2. CASE Work
  BY <1>2, ListStep, CheckStep, StatStep, ReadTextStep, EndingStep DEF Work
<1>3. CASE TransportFails
  BY <1>3, TransportStep
<1>4. CASE \E f \in Files, c \in HandEdits : Edit(f, c)
  BY <1>4, EditStep
<1>5. CASE (\E d \in Folders : RemoveFolder(d)) \/ UNCHANGED vars
  <2>1. UNCHANGED <<file, held, pc, query, todo, strict, sized, found, answer>>
    BY <1>5 DEF RemoveFolder, Unasked, vars, world, history
  <2> QED
    BY <2>1 DEF QueryInv, Seen, WasIn, LimitBinds, Reading
<1> QED
  BY <1>1, <1>2, <1>3, <1>4, <1>5 DEF Next

LEMMA QueryAlways == Spec => []QueryInv
BY InitQueries, QueryInductive, PTL DEF Spec

-----------------------------------------------------------------------------

\* Size, hash and content of an answer are of contents the file had during the
\* query, each of one, if it was no link meanwhile.
THEOREM AnswersAreTrue == Spec => []AnswersWereTrue
<1>1. QueryInv => AnswersWereTrue
  BY DEF QueryInv, AnswersWereTrue, Seen, WasIn
<1> QED
  BY <1>1, QueryAlways, PTL

\* No read or search serves a file that was over the limit all the time, unless
\* it was a link meanwhile.
THEOREM LimitIsKept == Spec => []LimitWasKept
<1>1. QueryInv => LimitWasKept
  <2> SUFFICES ASSUME QueryInv, NEW k \in {"read", "search"}, Answered(k, "ok"),
                      NEW i \in answer.infos
               PROVE  Link \in held[i.path] \/ held[i.path] \cap (Contents \ TooLarge) # {}
    BY DEF LimitWasKept
  <2>1. WasIn(i.path, i.sized) /\ i.sized \notin TooLarge
    BY DEF QueryInv, Seen, Answered
  <2> QED
    BY <2>1 DEF WasIn
<1> QED
  BY <1>1, QueryAlways, PTL

-----------------------------------------------------------------------------
(* What a query goes through *)

\* A query of all files is under way, and globs are being expanded.
OfAll == pc # "idle" /\ query.path = None

Listing == pc \in {"listdir", "lstat"}

ShapeInv ==
  /\ folders \subseteq Folders /\ globs \in GlobChoices
  /\ query \in Queries \cup {None} /\ (pc # "idle" \/ answer # None => query \in Queries)
  /\ pc = "idle" => todo = <<>> /\ found = {} /\ ~strict
  /\ pc # "idle" /\ ~strict => query.path = None
  /\ Listing => todo = <<>> /\ left # <<>> /\ ~strict
  /\ left \in Seq(Range(globs))
  /\ scan \in Seq(SUBSET (Files \cup Folders))
  /\ names \in Seq(Files)
  /\ OfAll => /\ todo \in Seq(AskedFor)
              /\ \A i \in found : i.path \in AskedFor
              /\ strict => query.kind = "search" /\ left = <<>>


\* What is asked for depends on the query and the globs alone.
LEMMA SameAskedFor ==
  ASSUME UNCHANGED <<globs, query>>
  PROVE  AskedFor' = AskedFor /\ \A g, f : AskedBy(g, f)' = AskedBy(g, f)
BY DEF AskedFor, AskedBy, UnderPrefix

\* What a glob takes from a list of files are files that are asked for.
LEMMA WantedFacts ==
  ASSUME NEW listed, NEW T, listed \in Seq(T), NEW g \in Range(globs)
  PROVE  /\ Wanted(listed, g) \in Seq(AskedFor)
         /\ Range(Wanted(listed, g)) = Range(listed) \cap {f \in Files : AskedBy(g, f)}
<1> DEFINE S == {f \in Files : <<g, f>> \in Matches /\ <<globs, f>> \in Serves /\ UnderPrefix(f)}
<1>1. S = {f \in Files : AskedBy(g, f)}
  BY DEF AskedBy
<1>2. S \subseteq AskedFor
  BY <1>1 DEF AskedFor
<1>3. Wanted(listed, g) = Only(listed, S)
  BY DEF Wanted
<1> HIDE DEF S
<1>4. Only(listed, S) \in Seq(T \cap S) /\ Range(Only(listed, S)) = Range(listed) \cap S
  BY OnlyFacts
<1>5. Only(listed, S) \in Seq(AskedFor)
  <2>1. T \cap S \subseteq AskedFor
    BY <1>2
  <2> HIDE DEF AskedFor
  <2> QED
    BY <1>4, <2>1
<1> QED
  BY <1>1, <1>3, <1>4, <1>5

LEMMA ShapeInit == Init => ShapeInv
<1> SUFFICES ASSUME Init PROVE ShapeInv
  OBVIOUS
<1>1. /\ folders \subseteq Folders /\ globs \in GlobChoices
      /\ pc = "idle" /\ query = None /\ left = <<>> /\ scan = <<>> /\ names = <<>>
      /\ todo = <<>> /\ strict = FALSE /\ found = {} /\ answer = None
  BY DEF Init
<1> QED
  BY <1>1 DEF ShapeInv, Listing, OfAll

\* A query ends.
LEMMA ShapeEnd ==
  ASSUME ShapeInv, NEW status, NEW infos, End(status, infos), query' \in Queries,
         UNCHANGED <<folders, globs>>
  PROVE  ShapeInv'
<1>1. /\ pc' = "idle" /\ left' = <<>> /\ scan' = <<>> /\ names' = <<>>
      /\ todo' = <<>> /\ strict' = FALSE /\ found' = {}
  BY DEF End, Forget
<1> QED
  BY <1>1 DEF ShapeInv, Listing, OfAll

LEMMA ShapeFail ==
  ASSUME ShapeInv, pc # "idle", NEW status, Fail(status), UNCHANGED <<folders, globs>>
  PROVE  ShapeInv'
<1>1. query' \in Queries /\ End(status, {})
  BY DEF Fail, ShapeInv
<1> QED
  BY <1>1, ShapeEnd

\* A query goes on with the files that are asked for.
LEMMA ShapeFiles ==
  ASSUME ShapeInv, pc # "idle", pc' = "files", UNCHANGED <<folders, globs, query>>,
         left' \in Seq(Range(globs)), scan' \in Seq(SUBSET (Files \cup Folders)),
         names' \in Seq(Files), strict' = strict,
         query.path = None => /\ todo' \in Seq(AskedFor)
                              /\ \A i \in found' : i.path \in AskedFor
                              /\ strict => left' = <<>>
  PROVE  ShapeInv'
BY SameAskedFor DEF ShapeInv, Listing, OfAll

LEMMA ShapePathFails ==
  ASSUME ShapeInv, pc # "idle", todo # <<>>, NEW status, PathFails(status),
         UNCHANGED <<folders, globs>>
  PROVE  ShapeInv'
<1>1. CASE strict
  BY <1>1, ShapeFail DEF PathFails
<1>2. CASE ~strict
  <2>1. /\ pc' = "files" /\ todo' = Tail(todo)
        /\ UNCHANGED <<query, left, scan, names, strict, found>>
    BY <1>2 DEF PathFails, listing
  <2>2. query.path = None => /\ todo' \in Seq(AskedFor)
                             /\ \A i \in found' : i.path \in AskedFor
    BY <2>1, RangeFacts DEF ShapeInv, OfAll
  <2> QED
    BY <1>2, <2>1, <2>2, ShapeFiles DEF ShapeInv
<1> QED
  BY <1>1, <1>2

\* A glob has been expanded.
LEMMA ShapeTake ==
  ASSUME ShapeInv, pc # "idle", ~strict, left # <<>>, NEW listed, NEW T,
         listed \in Seq(T), TakeNames(listed),
         UNCHANGED <<folders, globs, query, strict, found>>
  PROVE  ShapeInv'
<1>1. /\ pc' = "files" /\ left' = Tail(left) /\ scan' = <<>> /\ names' = <<>>
      /\ todo' = Wanted(listed, Head(left))
  BY DEF TakeNames
<1>2. Head(left) \in Range(globs) /\ left' \in Seq(Range(globs))
  BY <1>1 DEF ShapeInv
<1>3. todo' \in Seq(AskedFor)
  BY <1>1, <1>2, WantedFacts
<1> QED
  BY <1>1, <1>2, <1>3, ShapeFiles DEF ShapeInv, OfAll

LEMMA ShapeAsk ==
  ASSUME ShapeInv, NEW q \in Queries, AskOne(q) \/ AskAll(q)
  PROVE  ShapeInv'
<1>1. pc = "idle" /\ query' = q /\ UNCHANGED <<folders, globs>>
  BY DEF AskOne, AskAll, Begin, world
<1>2. CASE End("refused", {})
  BY <1>1, <1>2, ShapeEnd
<1>3. CASE AskOne(q) /\ pc' = "files" /\ strict' = TRUE /\ UNCHANGED <<left, scan, names>>
  <2>1. query'.path # None
    BY <1>1, <1>3 DEF AskOne
  <2> QED
    BY <1>1, <1>3, <2>1 DEF ShapeInv, Listing, OfAll
<1>4. CASE AskAll(q) /\ pc' = "files" /\ left' = globs /\ UNCHANGED <<scan, names, todo, strict, found>>
  <2>1. query'.path = None /\ todo' = <<>> /\ found' = {} /\ strict' = FALSE
    BY <1>1, <1>4 DEF AskAll, ShapeInv
  <2>2. left' \in Seq(Range(globs))
    BY <1>4, QueryAssumption DEF ShapeInv
  <2> QED
    BY <1>1, <1>4, <2>1, <2>2 DEF ShapeInv, Listing, OfAll
<1> QED
  BY <1>2, <1>3, <1>4 DEF AskOne, AskAll, listing

\* A glob is expanded, at once or by listing folders.
LEMMA ShapeGlob ==
  ASSUME ShapeInv, GlobRefused \/ LiteralGlob \/ ListLocally \/ StartListing
  PROVE  ShapeInv'
<1>1. /\ pc = "files" /\ todo = <<>> /\ ~strict /\ left # <<>>
      /\ UNCHANGED <<folders, globs, query, strict>>
  BY DEF GlobRefused, LiteralGlob, ListLocally, StartListing, AtGlob, world
<1>2. CASE GlobRefused
  <2>1. End("refused", {}) /\ query' \in Queries
    BY <1>1, <1>2 DEF GlobRefused, ShapeInv
  <2> QED
    BY <1>1, <2>1, ShapeEnd
<1>3. CASE LiteralGlob
  <2>1. TakeNames(<<Relative(Glob)>>) /\ found' = found
    BY <1>3 DEF LiteralGlob
  <2>2. <<Relative(Glob)>> \in Seq({Relative(Glob)})
    OBVIOUS
  <2> QED
    BY <1>1, <2>1, <2>2, ShapeTake
<1>4. CASE ListLocally
  <2> DEFINE S == {f \in Files : file[f] \in Contents /\ Below(f, Listed[Head(left)])}
  <2>1. TakeNames(Only(Ranking, S)) /\ found' = found
    BY <1>4 DEF ListLocally
  <2>2. Only(Ranking, S) \in Seq(Files \cap S)
    BY TreeAssumption, OnlyFacts
  <2> HIDE DEF S
  <2> QED
    BY <1>1, <2>1, <2>2, ShapeTake
<1>5. CASE StartListing
  <2>1. pc' = "listdir" /\ UNCHANGED <<left, scan, names, todo, found>>
    BY <1>5 DEF StartListing
  <2> QED
    BY <1>1, <2>1, SameAskedFor DEF ShapeInv, Listing, OfAll
<1> QED
  BY <1>2, <1>3, <1>4, <1>5

\* A folder or a name of it is looked at.
LEMMA ShapeListing ==
  ASSUME ShapeInv,
         \/ ListFolder \/ NoFolder \/ FolderListed
         \/ \E x \in Files \cup Folders : LookAt(x)
  PROVE  ShapeInv'
<1>1. /\ Listing /\ pc # "idle" /\ todo = <<>> /\ ~strict /\ left # <<>>
      /\ UNCHANGED <<folders, globs, query, strict, found>>
  BY DEF ListFolder, NoFolder, FolderListed, LookAt, NextName, world, Listing, ShapeInv
<1>2. CASE ListFolder
  <2> DEFINE S == {x \in Files \cup Folders : Exists(x) /\ Parent(x) = at}
  <2>1. pc' = "lstat" /\ scan' = <<S>> \o scan /\ UNCHANGED <<left, names, todo>>
    BY <1>2 DEF ListFolder, Push
  <2>2. S \in SUBSET (Files \cup Folders)
    OBVIOUS
  <2> HIDE DEF S
  <2>3. scan' \in Seq(SUBSET (Files \cup Folders))
    BY <2>1, <2>2 DEF ShapeInv
  <2> QED
    BY <1>1, <2>1, <2>3, SameAskedFor DEF ShapeInv, Listing, OfAll
<1>3. CASE NoFolder
  <2>1. TakeNames(<<>>)
    BY <1>3 DEF NoFolder
  <2>2. <<>> \in Seq(Files)
    OBVIOUS
  <2> QED
    BY <1>1, <2>1, <2>2, ShapeTake
<1>4. CASE FolderListed
  <2>1. CASE Len(scan) > 1
    <3>1. scan' = Tail(scan) /\ UNCHANGED <<pc, left, names, todo>>
      BY <1>4, <2>1 DEF FolderListed
    <3>2. scan' \in Seq(SUBSET (Files \cup Folders))
      BY <2>1, <3>1 DEF ShapeInv
    <3> QED
      BY <1>1, <3>1, <3>2, SameAskedFor DEF ShapeInv, Listing, OfAll
  <2>2. CASE ~(Len(scan) > 1)
    <3>1. TakeNames(names) /\ names \in Seq(Files)
      BY <1>4, <2>2 DEF FolderListed, ShapeInv
    <3> QED
      BY <1>1, <3>1, ShapeTake
  <2> QED
    BY <2>1, <2>2
<1>5. ASSUME NEW x \in Files \cup Folders, LookAt(x)
      PROVE  ShapeInv'
  <2>1. /\ pc' \in {"lstat", "listdir"} /\ scan' = [scan EXCEPT ![1] = @ \ {x}]
        /\ UNCHANGED <<left, todo>>
        /\ names' = IF Regular(x) THEN Append(names, x) ELSE names
    BY <1>5 DEF LookAt, NextName
  <2>2. scan' \in Seq(SUBSET (Files \cup Folders))
    <3>1. scan \in Seq(SUBSET (Files \cup Folders)) /\ scan # <<>>
      BY <1>5 DEF LookAt, NextName, ShapeInv
    <3>2. scan[1] \ {x} \in SUBSET (Files \cup Folders)
      BY <3>1
    <3> QED
      BY <2>1, <3>1, <3>2
  <2>3. names' \in Seq(Files)
    BY <2>1, RangeFacts DEF Regular, ShapeInv
  <2> QED
    BY <1>1, <2>1, <2>2, <2>3, SameAskedFor DEF ShapeInv, Listing, OfAll
<1> QED
  BY <1>2, <1>3, <1>4, <1>5

\* A file is looked at or read.
LEMMA ShapeRead ==
  ASSUME ShapeInv, QueryInv, Reads
  PROVE  ShapeInv'
<1>1. pc # "idle" /\ ~Listing /\ todo # <<>> /\ UNCHANGED <<folders, globs>>
  BY ReadsFacts DEF world, Reading, Listing
<1>2. CASE \E status : PathFails(status)
  BY <1>1, <1>2, ShapePathFails
<1>3. CASE \E status : Fail(status)
  BY <1>1, <1>3, ShapeFail
<1>4. CASE Reading' /\ UNCHANGED <<query, left, scan, names, todo, strict, found>>
  BY <1>1, <1>4, SameAskedFor DEF ShapeInv, Listing, OfAll, Reading
<1>5. ASSUME NEW c, pc' = "files", todo' = Tail(todo),
             UNCHANGED <<query, left, scan, names, strict>>,
             found' = {i \in found : i.path # Head(todo)}
                        \cup {[path |-> Head(todo), sized |-> sized, content |-> c]}
      PROVE  ShapeInv'
  <2>1. query.path = None => todo' \in Seq(AskedFor) /\ Head(todo) \in AskedFor
    BY <1>1, <1>5, RangeFacts DEF ShapeInv, OfAll
  <2>2. query.path = None => \A i \in found' : i.path \in AskedFor
    BY <1>1, <1>5, <2>1 DEF ShapeInv, OfAll
  <2> QED
    BY <1>1, <1>5, <2>1, <2>2, ShapeFiles DEF ShapeInv, OfAll
<1> QED
  BY <1>2, <1>3, <1>4, <1>5, ReadsFacts DEF Finds, listing

\* All is listed, or all is read.
LEMMA ShapeEnding ==
  ASSUME ShapeInv, StartReading \/ Finish
  PROVE  ShapeInv'
<1>1. pc = "files" /\ left = <<>> /\ UNCHANGED <<folders, globs, query>> /\ query \in Queries
  BY DEF StartReading, Finish, AtEnd, world, ShapeInv
<1>2. CASE StartReading
  <2>1. /\ strict' = TRUE /\ found' = {} /\ query.kind = "search" /\ query.path = None
        /\ UNCHANGED <<pc, left, scan, names>>
        /\ todo' = Only(Ranking, {i.path : i \in found})
    BY <1>1, <1>2 DEF StartReading, listing, ShapeInv
  <2>2. todo' \in Seq(Files \cap {i.path : i \in found})
    <3> DEFINE S == {i.path : i \in found}
    <3>1. todo' = Only(Ranking, S)
      BY <2>1
    <3> HIDE DEF S
    <3>2. Only(Ranking, S) \in Seq(Files \cap S)
      BY TreeAssumption, OnlyFacts
    <3> QED
      BY <3>1, <3>2 DEF S
  <2>3. Files \cap {i.path : i \in found} \subseteq AskedFor
    BY <1>1, <2>1 DEF ShapeInv, OfAll
  <2>4. todo' \in Seq(AskedFor)
    <3> DEFINE S == Files \cap {i.path : i \in found}
    <3>1. S \subseteq AskedFor /\ todo' \in Seq(S)
      BY <2>2, <2>3
    <3> HIDE DEF S, AskedFor
    <3> QED
      BY <3>1
  <2> QED
    BY <1>1, <2>1, <2>4, SameAskedFor DEF ShapeInv, Listing, OfAll
<1>3. CASE Finish
  <2>1. End("ok", found) /\ query' \in Queries
    BY <1>1, <1>3 DEF Finish
  <2> QED
    BY <1>1, <2>1, ShapeEnd
<1> QED
  BY <1>2, <1>3

LEMMA ShapeTransport ==
  ASSUME ShapeInv, QueryInv, TransportFails
  PROVE  ShapeInv'
<1>1. CASE UNCHANGED world /\ pc # "idle" /\ \E status : Fail(status)
  BY <1>1, ShapeFail DEF world
<1>2. CASE UNCHANGED world /\ pc # "idle" /\ todo # <<>> /\ \E status : PathFails(status)
  BY <1>2, ShapePathFails DEF world
<1>3. ASSUME NEW x \in Files \cup Folders, NextName(x), UNCHANGED <<pc, at, names>>
      PROVE  ShapeInv'
  <2>1. /\ pc = "lstat" /\ scan' = [scan EXCEPT ![1] = @ \ {x}]
        /\ UNCHANGED <<folders, globs, query, left, todo, strict, found, pc, names>>
    BY <1>3 DEF NextName, world
  <2>2. scan' \in Seq(SUBSET (Files \cup Folders))
    <3>1. scan \in Seq(SUBSET (Files \cup Folders)) /\ scan # <<>>
      BY <1>3 DEF NextName, ShapeInv
    <3>2. scan[1] \ {x} \in SUBSET (Files \cup Folders)
      BY <3>1
    <3> QED
      BY <2>1, <3>1, <3>2
  <2> QED
    BY <2>1, <2>2, SameAskedFor DEF ShapeInv, Listing, OfAll
<1> QED
  BY <1>1, <1>2, <1>3 DEF TransportFails, QueryInv, Reading

\* The world outside changes files and folders.
LEMMA ShapeOutside ==
  ASSUME ShapeInv,
         \/ \E f \in Files, c \in HandEdits : Edit(f, c)
         \/ \E d \in Folders : RemoveFolder(d)
         \/ UNCHANGED vars
  PROVE  ShapeInv'
<1>1. UNCHANGED <<globs, pc, query, left, scan, names, todo, strict, found, answer>>
  BY DEF Edit, RemoveFolder, Unasked, listing, vars, world
<1>2. folders' \subseteq Folders
  BY DEF Edit, RemoveFolder, vars, world, ShapeInv, Ancestors
<1> QED
  BY <1>1, <1>2, SameAskedFor DEF ShapeInv, Listing, OfAll

LEMMA ShapeInductive == QueryInv /\ ShapeInv /\ [Next]_vars => ShapeInv'
<1> SUFFICES ASSUME QueryInv, ShapeInv, [Next]_vars PROVE ShapeInv'
  OBVIOUS
<1>1. CASE \E q \in Queries : AskOne(q) \/ AskAll(q)
  BY <1>1, ShapeAsk
<1>2. CASE Work
  BY <1>2, ShapeGlob, ShapeListing, ShapeRead, ShapeEnding DEF Work, Reads
<1>3. CASE TransportFails
  BY <1>3, ShapeTransport
<1>4. CASE \/ \E f \in Files, c \in HandEdits : Edit(f, c)
           \/ \E d \in Folders : RemoveFolder(d)
           \/ UNCHANGED vars
  BY <1>4, ShapeOutside
<1> QED
  BY <1>1, <1>2, <1>3, <1>4 DEF Next

LEMMA ShapeAlways == Spec => [](QueryInv /\ ShapeInv)
BY QueryAlways, ShapeInit, ShapeInductive, PTL DEF Spec

-----------------------------------------------------------------------------
(* Why a query fails *)

\* A cause for which a query of all files may fail: something that a file it
\* may read held since it was asked.
Cause(f) ==
  /\ <<globs, f>> \in Serves
  /\ \/ held[f] \cap Binary # {}
     \/ Link \in held[f] /\ held[f] \cap Contents # {}
     \/ query.kind = "search" /\ held[f] \cap TooLarge # {}
     \/ query.kind = "search" /\ \E c, d \in held[f] : c # d

HasCause == \E f \in Files : Cause(f)

\* What is read by a search was a file when it was listed.
CauseInv ==
  /\ \A f \in Files : IsFiniteSet(held[f])
  /\ OfAll /\ strict => \A f \in Range(todo) : held[f] \cap Contents # {}
  /\ pc = "idle" /\ answer # None /\ query.path = None /\ ~disturbed
       /\ answer.status \notin {"ok", "refused"} => HasCause

\* The causes that are still to be found out.
LEMMA SameCause ==
  ASSUME UNCHANGED <<globs, query, held>>
  PROVE  HasCause' = HasCause
BY DEF HasCause, Cause

\* A query ends, with a cause where one is needed.
LEMMA CauseEnd ==
  ASSUME CauseInv, NEW status, NEW infos, End(status, infos),
         \A f \in Files : IsFiniteSet(held'[f]),
         query'.path = None /\ ~disturbed' /\ status \notin {"ok", "refused"} => HasCause'
  PROVE  CauseInv'
<1>1. pc' = "idle" /\ answer'.status = status
  BY DEF End
<1> QED
  BY <1>1 DEF CauseInv, OfAll

\* An error about a path is the end of a query that reads what was listed.
LEMMA CausePathFails ==
  ASSUME CauseInv, ShapeInv, pc # "idle", todo # <<>>, NEW status, PathFails(status),
         UNCHANGED <<globs, held>>,
         strict /\ query.path = None /\ ~disturbed' /\ status \notin {"ok", "refused"} => HasCause
  PROVE  CauseInv'
<1>1. CASE strict
  <2>1. End(status, {}) /\ query' = query
    BY <1>1 DEF PathFails, Fail
  <2>2. \A f \in Files : IsFiniteSet(held'[f])
    BY DEF CauseInv
  <2> QED
    BY <1>1, <2>1, <2>2, CauseEnd, SameCause
<1>2. CASE ~strict
  <2>1. pc' = "files" /\ strict' = strict
    BY <1>2 DEF PathFails
  <2> QED
    BY <1>2, <2>1 DEF CauseInv, OfAll
<1> QED
  BY <1>1, <1>2

\* A file that is read by a search, and is none now, has changed.
LEMMA ChangedCause ==
  ASSUME QueryInv, CauseInv, ShapeInv, OfAll, strict, todo # <<>>,
         Held(Head(todo)) \notin Contents
  PROVE  HasCause
<1> DEFINE f == Head(todo)
<1>1. f \in AskedFor /\ f \in Range(todo)
  BY RangeFacts DEF ShapeInv
<1>2. f \in Files /\ <<globs, f>> \in Serves
  BY <1>1 DEF AskedFor, AskedBy
<1>3. file[f] \in held[f] /\ file[f] \notin Contents
  BY <1>2 DEF QueryInv, Held
<1>4. PICK c \in held[f] : c \in Contents
  BY <1>1 DEF CauseInv
<1>5. query.kind = "search"
  BY DEF ShapeInv
<1> HIDE DEF f
<1>6. Cause(f)
  BY <1>2, <1>3, <1>4, <1>5 DEF Cause
<1> QED
  BY <1>2, <1>6 DEF HasCause

LEMMA CauseInit == Init => CauseInv
<1> SUFFICES ASSUME Init PROVE CauseInv
  OBVIOUS
<1>1. held = [f \in Files |-> {file[f]}] /\ pc = "idle" /\ answer = None
  BY DEF Init
<1>2. \A f \in Files : IsFiniteSet(held[f])
  BY <1>1, FS_Singleton
<1> QED
  BY <1>1, <1>2 DEF CauseInv, OfAll

LEMMA CauseAsk ==
  ASSUME CauseInv, ShapeInv, NEW q \in Queries, AskOne(q) \/ AskAll(q)
  PROVE  CauseInv'
<1>1. pc = "idle" /\ query' = q /\ held' = [f \in Files |-> {file[f]}]
  BY DEF AskOne, AskAll, Begin
<1>2. \A f \in Files : IsFiniteSet(held'[f])
  BY <1>1, FS_Singleton
<1>3. CASE End("refused", {})
  BY <1>2, <1>3, CauseEnd
<1>4. CASE pc' = "files" /\ (q.path = None => strict' = strict)
  BY <1>1, <1>2, <1>4 DEF CauseInv, OfAll, ShapeInv
<1> QED
  BY <1>3, <1>4 DEF AskOne, AskAll

\* Listing finds no errors but a glob that is no path.
LEMMA CauseList ==
  ASSUME CauseInv, ShapeInv,
         \/ GlobRefused \/ LiteralGlob \/ ListLocally \/ StartListing
         \/ ListFolder \/ NoFolder \/ FolderListed
         \/ \E x \in Files \cup Folders : LookAt(x)
  PROVE  CauseInv'
<1>1. UNCHANGED held /\ ~strict
  BY DEF GlobRefused, LiteralGlob, ListLocally, StartListing, AtGlob, ListFolder, NoFolder,
         FolderListed, LookAt, NextName, history, ShapeInv, Listing
<1>2. \A f \in Files : IsFiniteSet(held'[f])
  BY <1>1 DEF CauseInv
<1>3. CASE GlobRefused
  BY <1>2, <1>3, CauseEnd DEF GlobRefused
<1>4. CASE \/ LiteralGlob \/ ListLocally \/ StartListing \/ ListFolder \/ NoFolder \/ FolderListed
           \/ \E x \in Files \cup Folders : LookAt(x)
  <2>1. strict' = strict
    BY <1>4 DEF LiteralGlob, ListLocally, StartListing, AtGlob, ListFolder, NoFolder,
                FolderListed, LookAt, NextName
  <2>2. pc' # "idle"
    BY <1>4 DEF LiteralGlob, ListLocally, StartListing, AtGlob, ListFolder, NoFolder,
                FolderListed, LookAt, NextName, TakeNames
  <2> QED
    BY <1>1, <1>2, <2>1, <2>2 DEF CauseInv
<1> QED
  BY <1>3, <1>4

LEMMA CauseRead ==
  ASSUME QueryInv, CauseInv, ShapeInv, Reads
  PROVE  CauseInv'
<1> DEFINE f == Head(todo)
           c == Held(f)
<1>1. pc # "idle" /\ todo # <<>> /\ UNCHANGED <<globs, held>>
  BY ReadsFacts DEF world, history, Reading
<1>2. OfAll => f \in Files /\ <<globs, f>> \in Serves
  <2>1. OfAll => todo \in Seq(AskedFor)
    BY DEF ShapeInv
  <2>2. OfAll => f \in AskedFor
    BY <1>1, <2>1
  <2> QED
    BY <2>2 DEF AskedFor, AskedBy
<1>3. strict /\ OfAll => query.kind = "search"
  BY DEF ShapeInv
<1>4. CASE c \notin Contents /\ \E status : PathFails(status)
  BY <1>1, <1>4, CausePathFails, ChangedCause DEF OfAll
<1>5. CASE c \in TooLarge /\ \E status : PathFails(status)
  <2>1. OfAll => c \in held[f]
    BY <1>5, HeldFacts, ValueAssumption
  <2> HIDE DEF f, c
  <2>2. strict /\ OfAll => HasCause
    BY <1>2, <1>3, <1>5, <2>1 DEF HasCause, Cause
  <2> QED
    BY <1>1, <1>5, <2>2, CausePathFails DEF OfAll
<1>6. CASE (c \in Binary \/ (c = Link /\ pc = "open")) /\ \E status : Fail(status)
  <2>1. /\ OfAll => c \in held[f]
        /\ c = Link /\ pc = "open" => held[f] \cap Contents # {}
    <3>1. c \in Contents => c \in held[f]
      BY HeldFacts
    <3>2. c = Link => f \in Files /\ c = file[f]
      BY ValueAssumption DEF Held
    <3>3. pc = "open" => held[f] \cap Contents # {}
      BY DEF QueryInv, Reading
    <3> QED
      BY <1>6, <3>1, <3>2, <3>3, ValueAssumption DEF QueryInv
  <2> HIDE DEF f, c
  <2>2. OfAll => HasCause
    BY <1>2, <1>6, <2>1 DEF HasCause, Cause
  <2>3. PICK status : End(status, {}) /\ query' = query
    BY <1>6 DEF Fail
  <2>4. \A g \in Files : IsFiniteSet(held'[g])
    BY <1>1 DEF CauseInv
  <2>5. query'.path = None => HasCause'
    BY <1>1, <2>2, <2>3, SameCause DEF OfAll
  <2> QED
    BY <2>3, <2>4, <2>5, CauseEnd
<1>7. CASE pc' # "idle" /\ UNCHANGED <<query, strict>> /\ todo' \in {todo, Tail(todo)}
  <2>1. OfAll => Range(todo') \subseteq Range(todo)
    <3>1. OfAll => todo \in Seq(AskedFor)
      BY DEF ShapeInv
    <3>2. OfAll => Range(Tail(todo)) \subseteq Range(todo)
      BY <1>1, <3>1, RangeFacts
    <3> QED
      BY <1>7, <3>2
  <2> QED
    BY <1>1, <1>7, <2>1 DEF CauseInv, OfAll
<1> QED
  BY <1>4, <1>5, <1>6, <1>7, ReadsFacts DEF Finds, Reading

LEMMA CauseEnding ==
  ASSUME QueryInv, CauseInv, ShapeInv, StartReading \/ Finish
  PROVE  CauseInv'
<1>1. pc = "files" /\ UNCHANGED <<held, query>>
  BY DEF StartReading, Finish, AtEnd, history
<1>2. \A f \in Files : IsFiniteSet(held'[f])
  BY <1>1 DEF CauseInv
<1>3. CASE Finish
  BY <1>2, <1>3, CauseEnd DEF Finish
<1>4. CASE StartReading
  <2> DEFINE S == {i.path : i \in found}
  <2>1. pc' = pc /\ todo' = Only(Ranking, S)
    BY <1>4 DEF StartReading
  <2>2. \A f \in S : held[f] \cap Contents # {}
    BY DEF QueryInv, Seen
  <2> HIDE DEF S
  <2>3. Range(todo') \subseteq S
    <3>1. Ranking \in Seq(Files)
      BY TreeAssumption
    <3>2. Range(Only(Ranking, S)) = Range(Ranking) \cap S
      BY <3>1, OnlyFacts
    <3> QED
      BY <2>1, <3>2
  <2> QED
    BY <1>1, <1>2, <2>1, <2>2, <2>3 DEF CauseInv, OfAll
<1> QED
  BY <1>3, <1>4

LEMMA CauseTransport ==
  ASSUME QueryInv, CauseInv, ShapeInv, TransportFails
  PROVE  CauseInv'
<1>1. disturbed' = TRUE /\ UNCHANGED <<globs, held>> /\ pc # "idle"
  BY DEF TransportFails, NextName, world
<1>2. \A f \in Files : IsFiniteSet(held'[f])
  BY <1>1 DEF CauseInv
<1>3. CASE \E status : Fail(status)
  BY <1>1, <1>2, <1>3, CauseEnd DEF Fail
<1>4. CASE todo # <<>> /\ \E status : PathFails(status)
  BY <1>1, <1>4, CausePathFails
<1>5. CASE \E x \in Files \cup Folders : NextName(x) /\ UNCHANGED <<pc, at, names>>
  <2>1. UNCHANGED <<query, todo, strict, pc>>
    BY <1>5 DEF NextName
  <2> QED
    BY <1>1, <1>2, <2>1 DEF CauseInv, OfAll
<1> QED
  BY <1>3, <1>4, <1>5 DEF TransportFails, QueryInv, Reading

\* What a file has held is not forgotten while a query may be answered.
LEMMA CauseEdit ==
  ASSUME QueryInv, CauseInv, NEW f \in Files, NEW c \in HandEdits, Edit(f, c)
  PROVE  CauseInv'
<1>1. /\ UNCHANGED <<globs, pc, query, todo, strict, answer, disturbed>>
      /\ held' = [held EXCEPT ![f] = @ \cup {c}]
  BY DEF Edit, Unasked
<1>2. \A g \in Files : held[g] \subseteq held'[g] /\ held'[g] \subseteq held[g] \cup {c}
  BY <1>1 DEF QueryInv
<1>3. ASSUME NEW g \in Files PROVE IsFiniteSet(held'[g])
  <2>1. IsFiniteSet(held[g] \cup {c})
    BY FS_AddElement DEF CauseInv
  <2> QED
    BY <1>2, <2>1, FS_Subset
<1>4. HasCause => HasCause'
  BY <1>1, <1>2 DEF HasCause, Cause
<1>5. ASSUME OfAll, strict, NEW g \in Range(todo) PROVE held'[g] \cap Contents # {}
  <2>1. held[g] \cap Contents # {}
    BY <1>5 DEF CauseInv
  <2>2. held[g] \subseteq held'[g]
    BY <1>1, <1>2 DEF QueryInv
  <2> QED
    BY <2>1, <2>2
<1> QED
  BY <1>1, <1>3, <1>4, <1>5 DEF CauseInv, OfAll

LEMMA CauseInductive == QueryInv /\ ShapeInv /\ CauseInv /\ [Next]_vars => CauseInv'
<1> SUFFICES ASSUME QueryInv, ShapeInv, CauseInv, [Next]_vars PROVE CauseInv'
  OBVIOUS
<1>1. CASE \E q \in Queries : AskOne(q) \/ AskAll(q)
  BY <1>1, CauseAsk
<1>2. CASE Work
  BY <1>2, CauseList, CauseRead, CauseEnding DEF Work, Reads
<1>3. CASE TransportFails
  BY <1>3, CauseTransport
<1>4. CASE \E f \in Files, c \in HandEdits : Edit(f, c)
  BY <1>4, CauseEdit
<1>5. CASE \E d \in Folders : RemoveFolder(d)
  <2>1. UNCHANGED <<pc, query, todo, strict, answer, held>> /\ disturbed' = TRUE
    BY <1>5 DEF RemoveFolder, Unasked
  <2> QED
    BY <2>1 DEF CauseInv, OfAll
<1>6. CASE UNCHANGED vars
  <2>1. UNCHANGED <<globs, pc, query, todo, strict, answer, held, disturbed>>
    BY <1>6 DEF vars, world, history
  <2> QED
    BY <2>1, SameCause DEF CauseInv, OfAll
<1> QED
  BY <1>1, <1>2, <1>3, <1>4, <1>5, <1>6 DEF Next

\* A list or a search of all files fails only for a cause: a file it may read
\* that is no text or that a link takes the place of, or one that a search finds
\* changed or too large. No other error leaves list_files, and none is an
\* accident of when files changed.
THEOREM FailuresHaveCauses == Spec => []FailsForCause
<1>1. QueryInv /\ CauseInv => FailsForCause
  <2> SUFFICES ASSUME CauseInv, pc = "idle", answer # None, query.path = None, ~disturbed,
                      answer.status \notin {"ok", "refused"}
               PROVE  \E f \in Files :
                        /\ <<globs, f>> \in Serves
                        /\ \/ held[f] \cap Binary # {}
                           \/ Link \in held[f] /\ held[f] \cap Contents # {}
                           \/ query.kind = "search" /\ held[f] \cap TooLarge # {}
                           \/ query.kind = "search" /\ Cardinality(held[f]) > 1
    BY DEF FailsForCause
  <2>1. PICK f \in Files : Cause(f)
    BY DEF CauseInv, HasCause
  <2>2. ASSUME NEW c \in held[f], NEW d \in held[f], c # d PROVE Cardinality(held[f]) > 1
    <3>1. IsFiniteSet(held[f]) /\ {c, d} \subseteq held[f]
      BY DEF CauseInv
    <3>2. Cardinality({c, d}) <= Cardinality(held[f])
      BY <3>1, FS_Subset
    <3>3. IsFiniteSet({c}) /\ Cardinality({c}) = 1 /\ d \notin {c}
      BY <2>2, FS_Singleton
    <3>4. Cardinality({c} \cup {d}) = 2
      <4> DEFINE S == {c}
      <4>1. IsFiniteSet(S) /\ Cardinality(S) = 1 /\ d \notin S
        BY <3>3
      <4> HIDE DEF S
      <4>2. Cardinality(S \cup {d}) = IF d \in S THEN Cardinality(S) ELSE Cardinality(S) + 1
        BY <4>1, FS_AddElement
      <4>3. Cardinality(S \cup {d}) = 2
        BY <4>1, <4>2
      <4> QED
        BY <4>3 DEF S
    <3>5. {c} \cup {d} = {c, d}
      OBVIOUS
    <3>6. Cardinality(held[f]) \in Nat
      BY <3>1, FS_CardinalityType
    <3> QED
      BY <3>2, <3>4, <3>5, <3>6
  <2> QED
    BY <2>1, <2>2 DEF Cause
<1> QED
  BY <1>1, ShapeAlways, CauseInit, CauseInductive, PTL DEF Spec

-----------------------------------------------------------------------------
(* A list names all that stays *)

\* A glob reaches the files that match it: they lie below the folder that is
\* listed for it, and a glob that is a name names the file.
GlobsReach ==
  \A g \in AllGlobs, f \in Files :
    <<g, f>> \in Matches /\ Normal[g] # Refused =>
      IF IsPattern(Normal[g])
        THEN ~Contains(Base(Normal[g]), "?") => /\ Listed[g] \in Folders \cup {<<>>}
                                                /\ Below(f, Listed[g])
        ELSE f = Relative(Normal[g])

\* Paths are texts over the same characters.
Characters == UNION {Range(x) : x \in Files \cup Folders}

LEMMA PathsAreTexts == \A x \in Files \cup Folders : x \in Seq(Characters) /\ x # <<>>
<1> SUFFICES ASSUME NEW x \in Files \cup Folders PROVE x \in Seq(Characters)
  BY TreeAssumption
<1>1. Range(x) \subseteq Characters
  BY DEF Characters
<1>2. x \in Seq(Range(x))
  BY TreeAssumption
<1> HIDE DEF Characters
<1> DEFINE R == Range(x)
<1> HIDE DEF R
<1>3. R \subseteq Characters /\ x \in Seq(R)
  BY <1>1, <1>2 DEF R
<1> QED
  BY <1>3

LEMMA GlobsAreReached == GlobsReach
<1> SUFFICES ASSUME NEW g \in AllGlobs, NEW f \in Files,
                    <<g, f>> \in Matches, Normal[g] # Refused
             PROVE  IF IsPattern(Normal[g])
                      THEN ~Contains(Base(Normal[g]), "?") =>
                             Listed[g] \in Folders \cup {<<>>} /\ Below(f, Listed[g])
                      ELSE f = Relative(Normal[g])
  BY DEF GlobsReach
<1> DEFINE n == NormalizeApiPath(g)
           T == Range(g) \cup {"/"}
           d == ListedFolder(n)
<1>1. Normal[g] = n /\ Listed[g] = d
  BY DEF Normal, Listed
<1>2. FullMatch(GlobToRegex(n), ApiPath(f))
  BY DEF Matches, MatchesGlob
<1>3. n \in Seq(T) /\ (n = Root \/ IsPrefix(Slashed(Root), n))
  <2>1. g \in Seq(Range(g))
    BY QueryAssumption
  <2> QED
    BY <1>1, <2>1, NormalText
<1>4. Wild \cap T = {}
  <2>1. Range(g) \cap Wild = {}
    BY QueryAssumption
  <2> QED
    BY <2>1 DEF Wild
<1>5. f \in Seq(Characters) /\ Len(f) \in Nat /\ DOMAIN f = 1..Len(f)
  BY PathsAreTexts
<1> HIDE DEF n, T
<1>6. /\ IsPattern(n) /\ ~Contains(Base(n), "?") =>
             \/ ListedFolder(n) = <<>>
             \/ \E i \in 1..Len(f) : f[i] = "/" /\ ListedFolder(n) = SubSeq(f, 1, i - 1)
      /\ ~IsPattern(n) => f = Relative(n)
  BY <1>2, <1>3, <1>4, <1>5, MatchesAreReached
<1>7. ASSUME IsPattern(n), ~Contains(Base(n), "?")
      PROVE  d \in Folders \cup {<<>>} /\ Below(f, d)
  <2>1. CASE d = <<>>
    BY <2>1 DEF Below
  <2>2. CASE \E i \in 1..Len(f) : f[i] = "/" /\ d = SubSeq(f, 1, i - 1)
    <3>1. PICK i \in 1..Len(f) : f[i] = "/" /\ d = SubSeq(f, 1, i - 1)
      BY <2>2
    <3>2. d \in Folders
      <4>1. \A h \in Files : \A k \in DOMAIN h : h[k] = "/" => SubSeq(h, 1, k - 1) \in Folders
        BY TreeAssumption
      <4> QED
        BY <1>5, <3>1, <4>1
    <3> HIDE DEF d
    <3>3. /\ d \in Seq(Characters) /\ Len(d) = i - 1
          /\ \A k \in 1..Len(d) : f[k] = d[k]
      BY <1>5, <3>1
    <3>4. IsPrefix(Slashed(d), f)
      <4>1. Len(d) + 1 = i /\ i <= Len(f) /\ f[Len(d) + 1] = "/"
        BY <1>5, <3>1, <3>3
      <4>2. f \in Seq(Characters)
        BY <1>5
      <4> QED
        BY <3>3, <4>1, <4>2, BelowFacts
    <3> QED
      BY <3>2, <3>4 DEF Below
  <2> QED
    BY <1>6, <1>7, <2>1, <2>2
<1> QED
  BY <1>1, <1>6, <1>7

\* A folder has, on the way to a file below it, that file or a folder above it.
LEMMA NextBelow ==
  ASSUME NEW f \in Files, NEW d \in Folders \cup {<<>>}, Below(f, d)
  PROVE  \E x \in Files \cup Folders :
           /\ Parent(x) = d
           /\ x = f \/ x \in Ancestors(f)
<1> DEFINE T == Characters
           m == IF d = <<>> THEN 0 ELSE Len(d) + 1
           N == {i \in Nat : i \in (m + 1)..Len(f) /\ f[i] = "/"}
<1>1. f \in Seq(T) /\ d \in Seq(T) /\ Len(f) \in Nat /\ Len(d) \in Nat
  <2>1. f \in Seq(T)
    BY PathsAreTexts
  <2>2. d \in Seq(T)
    <3>1. CASE d = <<>>
      <4> HIDE DEF T
      <4> QED
        BY <3>1
    <3>2. CASE d # <<>>
      BY <3>2, PathsAreTexts
    <3> QED
      BY <3>1, <3>2
  <2> HIDE DEF T
  <2> QED
    BY <2>1, <2>2
<1> HIDE DEF T
<1>2. /\ m \in Nat /\ m <= Len(f)
      /\ m # 0 => /\ d # <<>> /\ m = Len(d) + 1 /\ f[m] = "/"
                  /\ \A i \in 1..Len(d) : f[i] = d[i]
      /\ m = 0 => d = <<>>
  <2>1. CASE d = <<>>
    BY <1>1, <2>1
  <2>2. CASE d # <<>>
    <3>1. IsPrefix(Slashed(d), f)
      BY <2>2 DEF Below
    <3> QED
      BY <1>1, <2>2, <3>1, BelowFacts
  <2> QED
    BY <2>1, <2>2
<1> HIDE DEF m
\* A part of f that ends before the next slash has d as its parent.
<1>3. ASSUME NEW n \in Nat, m <= n, n <= Len(f), \A i \in (m + 1)..n : f[i] # "/"
      PROVE  Parent(SubSeq(f, 1, n)) = d
  <2> DEFINE s == SubSeq(f, 1, n)
  <2>1. s \in Seq(T) /\ Len(s) = n /\ \A i \in 1..n : s[i] = f[i]
    BY <1>1, <1>3
  <2>2. CASE m = 0
    <3>1. ~Contains(s, "/")
      <4> HIDE DEF s
      <4> QED
        BY <1>3, <2>1, <2>2 DEF Contains
    <3> QED
      BY <1>2, <2>2, <3>1 DEF Parent
  <2>3. CASE m # 0
    <3>1. m \in 1..n /\ s[m] = "/"
      BY <1>2, <1>3, <2>1, <2>3
    <3>2. \A i \in 1..Len(s) : s[i] = "/" => i <= m
      BY <1>2, <1>3, <2>1
    <3>3. SubSeq(s, 1, m - 1) = d
      <4> DEFINE u == SubSeq(s, 1, m - 1)
      <4>1. u \in Seq(T) /\ Len(u) = Len(d)
        BY <1>1, <1>2, <1>3, <2>1, <2>3
      <4>2. \A i \in 1..Len(d) : u[i] = d[i]
        BY <1>1, <1>2, <1>3, <2>1, <2>3
      <4> HIDE DEF u
      <4>3. u = d
        BY <1>1, <4>1, <4>2, SeqEqual
      <4> QED
        BY <4>3 DEF u
    <3> HIDE DEF s
    <3>4. BeforeLastSlash(s) = d
      BY <2>1, <3>1, <3>2, <3>3, LastSlash
    <3>5. Contains(s, "/")
      BY <2>1, <3>1 DEF Contains
    <3> QED
      BY <3>4, <3>5 DEF Parent, s
  <2> QED
    BY <2>2, <2>3
<1>4. CASE N = {}
  <2>1. Parent(SubSeq(f, 1, Len(f))) = d
    <3>1. \A i \in (m + 1)..Len(f) : f[i] # "/"
      BY <1>1, <1>2, <1>4
    <3> QED
      BY <1>1, <1>2, <1>3, <3>1
  <2>2. SubSeq(f, 1, Len(f)) = f
    BY <1>1
  <2> QED
    BY <2>1, <2>2
<1>5. CASE N # {}
  <2>1. PICK k \in N : \A i \in N : k <= i
    <3>1. N \in SUBSET Nat
      OBVIOUS
    <3> HIDE DEF N
    <3> QED
      BY <1>5, <3>1, LeastNumber
  <2>2. k \in (m + 1)..Len(f) /\ f[k] = "/" /\ k - 1 \in Nat /\ k \in 1..Len(f)
    BY <1>1, <1>2
  <2>3. \A i \in (m + 1)..(k - 1) : f[i] # "/"
    BY <1>1, <1>2, <2>1, <2>2
  <2> DEFINE x == SubSeq(f, 1, k - 1)
  <2>4. x \in Folders
    <3>1. k \in DOMAIN f
      BY <1>1, <2>2
    <3> QED
      BY <2>2, <3>1, TreeAssumption
  <2>5. Parent(x) = d
    BY <1>1, <1>2, <1>3, <2>2, <2>3
  <2>6. x \in Seq(T) /\ Len(x) = k - 1 /\ \A i \in 1..(k - 1) : x[i] = f[i]
    BY <1>1, <2>2
  <2> HIDE DEF x
  <2>7. Below(f, x)
    BY <1>1, <2>2, <2>6, BelowFacts DEF Below
  <2> QED
    BY <2>4, <2>5, <2>7 DEF Ancestors
<1> QED
  BY <1>4, <1>5

\* The folders above what exists are there.
TreeInv == \A f \in Files : file[f] # Absent => Ancestors(f) \subseteq folders

\* A glob promises a file that it asks for, unless a question mark comes first.
Promises(g, f) == AskedBy(g, f) /\ ~Contains(Base(Normal[g]), "?")

Stays(f) == held[f] \subseteq Contents

\* A file is listed already, or lies below the folder that is to be listed, or
\* is among the names to be looked at or below one of them.
Ahead(f) ==
  \/ f \in Range(names)
  \/ pc = "listdir" /\ Below(f, at)
  \/ \E i \in DOMAIN scan : \E x \in scan[i] : x = f \/ x \in Ancestors(f)

\* A file is found, or is to be looked at, or a glob that promises it is.
Coming(f) ==
  \/ \E g \in Range(left) : Promises(g, f)
  \/ f \in Range(todo)
  \/ \E i \in found : i.path = f

AheadInv ==
  /\ Listing => IsPattern(Normal[Head(left)])
  /\ pc = "listdir" /\ ~disturbed => at \in folders \cup {Listed[Head(left)]}
  /\ Listing /\ ~disturbed => \A f \in Files : Stays(f) /\ Promises(Head(left), f) => Ahead(f)

CompleteInv ==
  /\ TreeInv
  /\ AheadInv
  /\ OfAll /\ ~disturbed => \A f \in Files : Listable(f) /\ Stays(f) => Coming(f)
  /\ pc = "idle" /\ answer # None /\ query.path = None /\ answer.status = "ok" /\ ~disturbed =>
       \A f \in Files : Listable(f) /\ Stays(f) => f \in AnsweredPaths

\* What is promised is a matter of the query and the globs.
LEMMA SamePromises ==
  ASSUME UNCHANGED <<globs, query, held>>
  PROVE  \A f : /\ Listable(f)' = Listable(f) /\ Stays(f)' = Stays(f)
                /\ \A g : Promises(g, f)' = Promises(g, f)
BY DEF Listable, Stays, Promises, AskedBy, UnderPrefix

LEMMA ListableIsPromised == \A f : Listable(f) <=> \E g \in Range(globs) : Promises(g, f)
BY DEF Listable, Promises, AskedBy

\* What stays is there, with the folders above it.
LEMMA StaysThere ==
  ASSUME QueryInv, TreeInv, NEW f \in Files, Stays(f)
  PROVE  file[f] \in Contents /\ file[f] # Absent /\ Ancestors(f) \subseteq folders
BY ValueAssumption DEF QueryInv, TreeInv, Stays

\* A query ends with all that was promised.
LEMMA CompleteEnd ==
  ASSUME TreeInv', NEW status, NEW infos, End(status, infos),
         query'.path = None /\ status = "ok" /\ ~disturbed' =>
           \A f \in Files : Listable(f)' /\ Stays(f)' => \E i \in infos : i.path = f
  PROVE  CompleteInv'
<1>1. pc' = "idle" /\ answer'.status = status /\ answer'.infos = infos
  BY DEF End
<1> QED
  BY <1>1 DEF CompleteInv, AheadInv, OfAll, Listing, AnsweredPaths

\* A query goes on with as much to come.
LEMMA CompleteFiles ==
  ASSUME TreeInv', pc' = "files",
         OfAll' /\ ~disturbed' => \A f \in Files : Listable(f)' /\ Stays(f)' => Coming(f)'
  PROVE  CompleteInv'
BY DEF CompleteInv, AheadInv, Listing

\* A path that is passed over is none of a file that stays.
LEMMA CompletePathFails ==
  ASSUME CompleteInv, ShapeInv, pc # "idle", todo # <<>>,
         NEW status \in Statuses \ {"ok"}, PathFails(status), TreeInv',
         UNCHANGED <<globs, held>>,
         ~disturbed' => ~disturbed /\ ~Stays(Head(todo))
  PROVE  CompleteInv'
<1>1. CASE strict
  <2>1. End(status, {}) /\ query' = query
    BY <1>1 DEF PathFails, Fail
  <2> QED
    BY <2>1, CompleteEnd
<1>2. CASE ~strict
  <2>1. pc' = "files" /\ todo' = Tail(todo) /\ UNCHANGED <<query, left, found>>
    BY <1>2 DEF PathFails, listing
  <2>2. ASSUME OfAll', ~disturbed', NEW f \in Files, Listable(f)', Stays(f)'
        PROVE  Coming(f)'
    <3>1. OfAll /\ Listable(f) /\ Stays(f) /\ ~disturbed /\ f # Head(todo)
      BY <2>1, <2>2, SamePromises DEF OfAll
    <3>2. Coming(f)
      BY <3>1 DEF CompleteInv
    <3>3. todo \in Seq(AskedFor)
      BY <3>1 DEF ShapeInv
    <3>4. Range(todo) = {Head(todo)} \cup Range(Tail(todo))
      BY <3>3, RangeFacts
    <3>5. f \in Range(todo) => f \in Range(todo')
      BY <2>1, <3>1, <3>4
    <3> QED
      BY <2>1, <3>2, <3>5, SamePromises DEF Coming
  <2> QED
    BY <2>1, <2>2, CompleteFiles
<1> QED
  BY <1>1, <1>2

\* A glob has been expanded to all that it promised.
LEMMA CompleteTake ==
  ASSUME CompleteInv, ShapeInv, pc # "idle", left # <<>>, todo = <<>>,
         NEW listed, NEW T, listed \in Seq(T), TakeNames(listed),
         UNCHANGED <<file, folders, globs, query, found, held, disturbed>>,
         ~disturbed => \A f \in Files :
           Stays(f) /\ Promises(Head(left), f) => f \in Range(listed)
  PROVE  CompleteInv'
<1>1. /\ pc' = "files" /\ left' = Tail(left)
      /\ todo' = Wanted(listed, Head(left))
  BY DEF TakeNames
<1>2. /\ Head(left) \in Range(globs)
      /\ Range(left) = {Head(left)} \cup Range(Tail(left))
  <2>1. left \in Seq(Range(globs))
    BY DEF ShapeInv
  <2> DEFINE R == Range(globs)
  <2> HIDE DEF R
  <2>2. left \in Seq(R)
    BY <2>1 DEF R
  <2>3. Head(left) \in R /\ Range(left) = {Head(left)} \cup Range(Tail(left))
    BY <2>2, RangeFacts
  <2> QED
    BY <2>3 DEF R
<1>3. Range(todo') = Range(listed) \cap {f \in Files : AskedBy(Head(left), f)}
  BY <1>1, <1>2, WantedFacts
<1>4. TreeInv'
  BY DEF CompleteInv, TreeInv, Ancestors
<1>5. ASSUME OfAll', ~disturbed', NEW f \in Files, Listable(f)', Stays(f)'
      PROVE  Coming(f)'
  <2>1. OfAll /\ Listable(f) /\ Stays(f) /\ ~disturbed
    BY <1>5, SamePromises DEF OfAll
  <2>2. Coming(f)
    BY <2>1 DEF CompleteInv
  <2>3. CASE Promises(Head(left), f)
    BY <1>3, <2>1, <2>3 DEF Coming, Promises
  <2>4. CASE ~Promises(Head(left), f)
    <3>1. Range(todo) = {}
      BY DEF Range
    <3> QED
      BY <1>1, <1>2, <2>2, <2>4, <3>1, SamePromises DEF Coming
  <2> QED
    BY <2>3, <2>4
<1> QED
  BY <1>1, <1>4, <1>5, CompleteFiles

LEMMA CompleteInit == Init => CompleteInv
<1> SUFFICES ASSUME Init PROVE CompleteInv
  OBVIOUS
<1>1. pc = "idle" /\ answer = None
  BY DEF Init
<1>2. TreeInv
  BY DEF Init, TreeInv, Exists
<1> QED
  BY <1>1, <1>2 DEF CompleteInv, AheadInv, OfAll, Listing

LEMMA CompleteAsk ==
  ASSUME CompleteInv, ShapeInv, NEW q \in Queries, AskOne(q) \/ AskAll(q)
  PROVE  CompleteInv'
<1>1. pc = "idle" /\ query' = q /\ UNCHANGED <<file, folders, globs>>
  BY DEF AskOne, AskAll, Begin, world
<1>2. TreeInv'
  BY <1>1 DEF CompleteInv, TreeInv, Ancestors
<1>3. CASE End("refused", {})
  BY <1>2, <1>3, CompleteEnd
<1>4. CASE AskOne(q) /\ pc' = "files"
  BY <1>1, <1>2, <1>4, CompleteFiles DEF AskOne, OfAll
<1>5. CASE AskAll(q) /\ pc' = "files" /\ left' = globs
  <2>1. \A f \in Files : Listable(f)' => Coming(f)'
    BY <1>1, <1>5 DEF Listable, Coming, Promises, AskedBy
  <2> QED
    BY <1>2, <1>5, <2>1, CompleteFiles
<1> QED
  BY <1>3, <1>4, <1>5 DEF AskOne, AskAll

\* A glob is expanded, at once or by listing folders.
LEMMA CompleteGlob ==
  ASSUME GlobsReach, QueryInv, ShapeInv, CompleteInv,
         GlobRefused \/ LiteralGlob \/ ListLocally \/ StartListing
  PROVE  CompleteInv'
<1>1. /\ pc = "files" /\ todo = <<>> /\ ~strict /\ left # <<>>
      /\ UNCHANGED <<file, folders, globs, query, strict, held, disturbed>>
  BY DEF GlobRefused, LiteralGlob, ListLocally, StartListing, AtGlob, world, history
<1>2. TreeInv /\ TreeInv'
  BY <1>1 DEF CompleteInv, TreeInv, Ancestors
<1>3. Head(left) \in AllGlobs
  <2>1. left \in Seq(Range(globs)) /\ globs \in GlobChoices
    BY DEF ShapeInv
  <2>2. Head(left) \in Range(globs)
    BY <1>1, <2>1
  <2> QED
    BY <2>1, <2>2 DEF AllGlobs
<1>4. \A f \in Files : Promises(Head(left), f) /\ Glob # Refused =>
        IF IsPattern(Glob) THEN Below(f, Listed[Head(left)]) ELSE f = Relative(Glob)
  BY <1>3 DEF GlobsReach, Promises, AskedBy, Glob
<1>5. ~IsPattern(Refused)
  BY DEF IsPattern, Refused
<1>6. CASE GlobRefused
  BY <1>2, <1>6, CompleteEnd DEF GlobRefused
<1>7. CASE LiteralGlob
  <2>1. /\ TakeNames(<<Relative(Glob)>>) /\ UNCHANGED found
        /\ Glob # Refused /\ ~IsPattern(Glob)
    BY <1>7 DEF LiteralGlob
  <2> DEFINE r == Relative(Glob)
             listed == <<r>>
  <2>2. \A f \in Files : Promises(Head(left), f) => f = r
    BY <1>4, <2>1
  <2> HIDE DEF r
  <2>3. listed \in Seq({r}) /\ r \in Range(listed)
    BY DEF Range
  <2>4. \A f \in Files : Promises(Head(left), f) => f \in Range(listed)
    BY <2>2, <2>3
  <2>5. TakeNames(listed)
    BY <2>1 DEF r
  <2> HIDE DEF listed
  <2> QED
    BY <1>1, <2>1, <2>3, <2>4, <2>5, CompleteTake
<1>8. CASE ListLocally
  <2> DEFINE S == {f \in Files : file[f] \in Contents /\ Below(f, Listed[Head(left)])}
             listed == Only(Ranking, S)
  <2>1. TakeNames(listed) /\ UNCHANGED found /\ IsPattern(Glob)
    BY <1>8 DEF ListLocally
  <2>2. Ranking \in Seq(Files) /\ Range(Ranking) = Files
    BY TreeAssumption
  <2>3. \A f \in Files : Stays(f) /\ Promises(Head(left), f) => f \in S
    BY <1>2, <1>4, <1>5, <2>1, StaysThere
  <2> HIDE DEF S
  <2>4. listed \in Seq(Files \cap S) /\ Range(listed) = Files \cap S
    BY <2>2, OnlyFacts
  <2> HIDE DEF listed
  <2> QED
    BY <1>1, <2>1, <2>3, <2>4, CompleteTake
<1>9. CASE StartListing
  <2>1. /\ pc' = "listdir" /\ at' = Listed[Head(left)] /\ IsPattern(Glob)
        /\ UNCHANGED <<left, todo, found>>
    BY <1>9 DEF StartListing
  <2>2. \A f \in Files : Promises(Head(left), f) => Below(f, at')
    BY <1>4, <1>5, <2>1
  <2>3. AheadInv'
    BY <1>1, <2>1, <2>2, SamePromises DEF AheadInv, Ahead, Glob
  <2>4. \A f \in Files : Coming(f) => Coming(f)'
    BY <1>1, <2>1, SamePromises DEF Coming
  <2> QED
    BY <1>1, <1>2, <2>1, <2>3, <2>4, SamePromises DEF CompleteInv, OfAll
<1> QED
  BY <1>6, <1>7, <1>8, <1>9

\* Listing goes on in a folder with as much ahead.
LEMMA CompleteListing ==
  ASSUME CompleteInv, ShapeInv, Listing, Listing',
         UNCHANGED <<file, folders, globs, query, left, todo, found, held, disturbed>>,
         pc' = "listdir" /\ ~disturbed => at' \in folders,
         ~disturbed => \A f \in Files :
           Stays(f) /\ Promises(Head(left), f) /\ Ahead(f) => Ahead(f)'
  PROVE  CompleteInv'
<1>1. TreeInv'
  BY DEF CompleteInv, TreeInv, Ancestors
<1>2. AheadInv'
  BY SamePromises DEF CompleteInv, AheadInv
<1>3. OfAll /\ pc' # "idle"
  BY DEF Listing, OfAll, ShapeInv
<1>4. \A f \in Files : Coming(f) => Coming(f)'
  BY SamePromises DEF Coming
<1> QED
  BY <1>1, <1>2, <1>3, <1>4, SamePromises DEF CompleteInv

\* The names of a folder are listed.
LEMMA CompleteFolder ==
  ASSUME QueryInv, ShapeInv, CompleteInv, ListFolder
  PROVE  CompleteInv'
<1> DEFINE S == {x \in Files \cup Folders : Exists(x) /\ Parent(x) = at}
<1>1. /\ pc = "listdir" /\ pc' = "lstat" /\ at \in folders \cup {<<>>} /\ scan' = <<S>> \o scan
      /\ UNCHANGED <<file, folders, globs, query, left, names, todo, found, held, disturbed>>
  BY DEF ListFolder, Push, world, history
<1>2. scan \in Seq(SUBSET (Files \cup Folders)) /\ S \in SUBSET (Files \cup Folders)
  BY DEF ShapeInv
<1>3. at \in Folders \cup {<<>>}
  BY <1>1 DEF ShapeInv
<1>4. ASSUME NEW f \in Files, Stays(f), Below(f, at)
      PROVE  \E x \in S : x = f \/ x \in Ancestors(f)
  <2>1. PICK x \in Files \cup Folders : Parent(x) = at /\ (x = f \/ x \in Ancestors(f))
    BY <1>3, <1>4, NextBelow
  <2>2. file[f] # Absent /\ Ancestors(f) \subseteq folders
    BY <1>4, StaysThere DEF CompleteInv
  <2>3. Ancestors(f) \cap Files = {}
    BY TreeAssumption DEF Ancestors
  <2>4. Exists(x)
    BY <2>1, <2>2, <2>3 DEF Exists
  <2> QED
    BY <2>1, <2>4
<1> HIDE DEF S
<1>5. /\ 1 \in DOMAIN scan' /\ scan'[1] = S
      /\ \A i \in DOMAIN scan : i + 1 \in DOMAIN scan' /\ scan'[i + 1] = scan[i]
  BY <1>1, <1>2
<1>6. ASSUME NEW f \in Files, Stays(f), Ahead(f) PROVE Ahead(f)'
  <2>1. CASE f \in Range(names)
    BY <1>1, <2>1 DEF Ahead
  <2>2. CASE Below(f, at)
    BY <1>4, <1>5, <1>6, <2>2 DEF Ahead, Ancestors
  <2>3. CASE \E i \in DOMAIN scan : \E x \in scan[i] : x = f \/ x \in Ancestors(f)
    BY <1>5, <2>3 DEF Ahead, Ancestors
  <2> QED
    BY <1>6, <2>1, <2>2, <2>3 DEF Ahead
<1> QED
  BY <1>1, <1>6, CompleteListing DEF Listing

\* A folder that is not there holds no file that stays.
LEMMA CompleteNoFolder ==
  ASSUME GlobsReach, QueryInv, ShapeInv, CompleteInv, NoFolder
  PROVE  CompleteInv'
<1>1. /\ pc = "listdir" /\ at \notin folders \cup {<<>>} /\ TakeNames(<<>>)
      /\ UNCHANGED <<file, folders, globs, query, found, held, disturbed>>
  BY DEF NoFolder, world, history
<1>2. left # <<>> /\ todo = <<>> /\ IsPattern(Normal[Head(left)])
  BY <1>1 DEF ShapeInv, CompleteInv, AheadInv, Listing
<1>3. Head(left) \in AllGlobs
  <2>1. left \in Seq(Range(globs)) /\ globs \in GlobChoices
    BY DEF ShapeInv
  <2>2. Head(left) \in Range(globs)
    BY <1>2, <2>1
  <2> QED
    BY <2>1, <2>2 DEF AllGlobs
<1>4. ASSUME ~disturbed, NEW f \in Files, Stays(f), Promises(Head(left), f)
      PROVE  FALSE
  <2>1. Normal[Head(left)] # Refused
    BY <1>2 DEF IsPattern, Refused
  <2>2. Listed[Head(left)] \in Folders \cup {<<>>} /\ Below(f, Listed[Head(left)])
    BY <1>2, <1>3, <1>4, <2>1 DEF GlobsReach, Promises, AskedBy
  <2>3. at = Listed[Head(left)]
    BY <1>1, <1>4 DEF CompleteInv, AheadInv
  <2>4. at \in Ancestors(f)
    BY <1>1, <2>2, <2>3 DEF Ancestors
  <2>5. Ancestors(f) \subseteq folders
    BY <1>4, StaysThere DEF CompleteInv
  <2> QED
    BY <1>1, <2>4, <2>5
<1>5. <<>> \in Seq(Files)
  OBVIOUS
<1> QED
  BY <1>1, <1>2, <1>4, <1>5, CompleteTake

\* A name is looked at: a file is listed, a folder is listed next.
LEMMA CompleteName ==
  ASSUME QueryInv, ShapeInv, CompleteInv, NEW x \in Files \cup Folders, LookAt(x)
  PROVE  CompleteInv'
<1>1. /\ pc = "lstat" /\ scan # <<>> /\ x \in Head(scan)
      /\ scan' = [scan EXCEPT ![1] = @ \ {x}]
      /\ IF x \in folders THEN pc' = "listdir" /\ at' = x ELSE UNCHANGED <<pc, at>>
      /\ names' = IF Regular(x) THEN Append(names, x) ELSE names
      /\ UNCHANGED <<file, folders, globs, query, left, todo, found, held, disturbed>>
  BY DEF LookAt, NextName, world
<1>2. scan \in Seq(SUBSET (Files \cup Folders)) /\ names \in Seq(Files)
  BY DEF ShapeInv
<1>3. /\ DOMAIN scan' = DOMAIN scan
      /\ \A i \in DOMAIN scan : scan[i] \ {x} \subseteq scan'[i]
  BY <1>1, <1>2
<1>4. Range(names) \subseteq Range(names') /\ (Regular(x) => x \in Range(names'))
  <2>1. CASE Regular(x)
    <3>1. x \in Files /\ names' = Append(names, x)
      BY <1>1, <2>1 DEF Regular
    <3>2. Range(names') = Range(names) \cup {x}
      BY <1>2, <3>1, RangeFacts
    <3> QED
      BY <3>2
  <2>2. CASE ~Regular(x)
    BY <1>1, <2>2
  <2> QED
    BY <2>1, <2>2
<1>5. ASSUME NEW f \in Files, Stays(f), Ahead(f) PROVE Ahead(f)'
  <2>1. file[f] \in Contents /\ Ancestors(f) \subseteq folders
    BY <1>5, StaysThere DEF CompleteInv
  <2>2. CASE f \in Range(names)
    BY <1>4, <2>2 DEF Ahead
  <2>3. CASE x = f
    BY <1>4, <2>1, <2>3 DEF Ahead, Regular, Held
  <2>4. CASE x \in Ancestors(f)
    BY <1>1, <2>1, <2>4 DEF Ahead, Ancestors
  <2>5. ASSUME NEW i \in DOMAIN scan, NEW y \in scan[i], y # x, y = f \/ y \in Ancestors(f)
        PROVE  Ahead(f)'
    BY <1>3, <2>5 DEF Ahead, Ancestors
  <2> QED
    BY <1>1, <1>5, <2>2, <2>3, <2>4, <2>5 DEF Ahead
<1>6. Listing /\ Listing' /\ (pc' = "listdir" => at' \in folders)
  BY <1>1 DEF Listing
<1> QED
  BY <1>1, <1>5, <1>6, CompleteListing

\* All names of a folder have been looked at.
LEMMA CompleteListed ==
  ASSUME ShapeInv, CompleteInv, FolderListed
  PROVE  CompleteInv'
<1>1. /\ pc = "lstat" /\ scan # <<>> /\ Head(scan) = {}
      /\ UNCHANGED <<file, folders, globs, query, found, held, disturbed>>
  BY DEF FolderListed, world, history
<1>2. scan \in Seq(SUBSET (Files \cup Folders)) /\ left # <<>> /\ todo = <<>> /\ scan[1] = {}
  BY <1>1 DEF ShapeInv, Listing
<1>3. CASE Len(scan) > 1
  <2>1. scan' = Tail(scan) /\ UNCHANGED <<pc, left, at, names, todo>>
    BY <1>3 DEF FolderListed
  <2>2. \A i \in DOMAIN scan : i # 1 => i - 1 \in DOMAIN scan' /\ scan'[i - 1] = scan[i]
    BY <1>2, <2>1
  <2>3. \A f \in Files : Ahead(f) => Ahead(f)'
    BY <1>2, <2>1, <2>2 DEF Ahead, Ancestors
  <2>4. Listing /\ Listing' /\ pc' # "listdir"
    BY <1>1, <2>1 DEF Listing
  <2> QED
    BY <1>1, <2>1, <2>3, <2>4, CompleteListing
<1>4. CASE ~(Len(scan) > 1)
  <2>1. TakeNames(names) /\ names \in Seq(Files)
    BY <1>4 DEF FolderListed, ShapeInv
  <2>2. \A i \in DOMAIN scan : i = 1
    <3>1. DOMAIN scan = 1..Len(scan) /\ Len(scan) \in Nat
      BY <1>2
    <3> QED
      BY <1>4, <3>1
  <2>3. \A f \in Files : Ahead(f) => f \in Range(names)
    BY <1>1, <1>2, <2>2 DEF Ahead
  <2>4. ~disturbed => \A f \in Files : Stays(f) /\ Promises(Head(left), f) => Ahead(f)
    BY <1>1 DEF CompleteInv, AheadInv, Listing
  <2> QED
    BY <1>1, <1>2, <2>1, <2>3, <2>4, CompleteTake
<1> QED
  BY <1>3, <1>4

\* A file is looked at or read.
LEMMA CompleteRead ==
  ASSUME QueryInv, ShapeInv, CompleteInv, Reads
  PROVE  CompleteInv'
<1> DEFINE f == Head(todo)
           c == Held(f)
<1>1. /\ pc # "idle" /\ ~Listing /\ todo # <<>>
      /\ UNCHANGED <<file, folders, globs, held, disturbed>>
  BY ReadsFacts DEF world, history, Reading, Listing
<1>2. TreeInv'
  BY <1>1 DEF CompleteInv, TreeInv, Ancestors
<1>3. OfAll => f \in Files
  <2>1. OfAll => todo \in Seq(AskedFor)
    BY DEF ShapeInv
  <2>2. OfAll => f \in AskedFor
    BY <1>1, <2>1
  <2> QED
    BY <2>2 DEF AskedFor
<1>4. CASE c \notin Contents /\ \E status \in Statuses \ {"ok"} : PathFails(status)
  <2>1. CASE f \in Files
    <3>1. ~Stays(f)
      BY <1>4, <2>1, StaysThere DEF Held, CompleteInv
    <3> HIDE DEF f, c
    <3>2. ~Stays(Head(todo))
      BY <3>1 DEF f
    <3> QED
      BY <1>1, <1>2, <1>4, <3>2, CompletePathFails
  <2>2. CASE f \notin Files
    <3>1. ~OfAll
      BY <1>3, <2>2
    <3>2. UNCHANGED query /\ query.path # None
      BY <1>1, <1>4, <3>1 DEF PathFails, Fail, OfAll
    <3>3. CASE strict
      <4>1. PICK status : End(status, {})
        BY <1>4, <3>3 DEF PathFails, Fail
      <4> QED
        BY <1>2, <3>2, <4>1, CompleteEnd
    <3>4. CASE ~strict
      <4>1. pc' = "files"
        BY <1>4, <3>4 DEF PathFails
      <4> QED
        BY <1>2, <3>2, <4>1, CompleteFiles DEF OfAll
    <3> QED
      BY <3>3, <3>4
  <2> QED
    BY <2>1, <2>2
<1>5. CASE \E status \in Statuses \ {"ok"} : End(status, {})
  BY <1>2, <1>5, CompleteEnd
<1>6. CASE Reading' /\ UNCHANGED <<query, left, todo, found>>
  <2>1. AheadInv' /\ pc' # "idle"
    BY <1>6 DEF AheadInv, Listing, Reading
  <2>2. \A g \in Files : Coming(g) => Coming(g)'
    BY <1>1, <1>6, SamePromises DEF Coming
  <2> QED
    BY <1>1, <1>2, <1>6, <2>1, <2>2, SamePromises DEF CompleteInv, OfAll
<1>7. ASSUME NEW d, pc' = "files", todo' = Tail(todo), UNCHANGED <<query, left>>,
             found' = {i \in found : i.path # f}
                        \cup {[path |-> f, sized |-> sized, content |-> d]}
      PROVE  CompleteInv'
  <2>1. /\ \E i \in found' : i.path = f
        /\ \A i \in found : i.path # f => i \in found'
    <3> DEFINE j == [path |-> f, sized |-> sized, content |-> d]
    <3> HIDE DEF f
    <3>1. j.path = f
      OBVIOUS
    <3> HIDE DEF j
    <3>2. found' = {i \in found : i.path # f} \cup {j}
      BY <1>7 DEF f, j
    <3> QED
      BY <3>1, <3>2
  <2>2. OfAll => Range(todo) = {f} \cup Range(todo')
    <3>1. OfAll => todo \in Seq(AskedFor)
      BY DEF ShapeInv
    <3> QED
      BY <1>1, <1>7, <3>1, RangeFacts
  <2> HIDE DEF f
  <2>3. ASSUME OfAll, NEW g \in Files, Coming(g) PROVE Coming(g)'
    BY <1>1, <1>7, <2>1, <2>2, <2>3, SamePromises DEF Coming
  <2> QED
    BY <1>1, <1>2, <1>7, <2>3, SamePromises, CompleteFiles DEF CompleteInv, OfAll
<1>8. CASE Limited /\ PathFails("too_large")
  <2>1. End("too_large", {})
    BY <1>8 DEF Limited, PathFails, Fail
  <2> QED
    BY <1>5, <2>1 DEF Statuses
<1>9. CASE Fail("error")
  BY <1>5, <1>9 DEF Fail, Statuses
<1> QED
  BY <1>4, <1>6, <1>7, <1>8, <1>9, ReadsFacts DEF Finds, listing

\* All is listed, or all is read.
LEMMA CompleteEnding ==
  ASSUME QueryInv, ShapeInv, CompleteInv, StartReading \/ Finish
  PROVE  CompleteInv'
<1>1. /\ pc = "files" /\ todo = <<>> /\ left = <<>>
      /\ UNCHANGED <<file, folders, globs, query, held, disturbed>>
  BY DEF StartReading, Finish, AtEnd, world, history
<1>2. TreeInv'
  BY <1>1 DEF CompleteInv, TreeInv, Ancestors
<1>3. Range(todo) = {} /\ Range(left) = {}
  BY <1>1 DEF Range
<1>4. ASSUME query.path = None, ~disturbed, NEW f \in Files, Listable(f), Stays(f)
      PROVE  \E i \in found : i.path = f
  BY <1>1, <1>3, <1>4 DEF CompleteInv, OfAll, Coming
<1>5. CASE Finish
  <2>1. End("ok", found)
    BY <1>5 DEF Finish
  <2> QED
    BY <1>1, <1>2, <1>4, <2>1, CompleteEnd, SamePromises
<1>6. CASE StartReading
  <2> DEFINE S == {i.path : i \in found}
  <2>1. pc' = "files" /\ todo' = Only(Ranking, S)
    BY <1>1, <1>6 DEF StartReading
  <2>2. Ranking \in Seq(Files) /\ Range(Ranking) = Files
    BY TreeAssumption
  <2>3. ASSUME query.path = None, ~disturbed, NEW f \in Files, Listable(f), Stays(f)
        PROVE  f \in S
    BY <1>4, <2>3
  <2> HIDE DEF S
  <2>4. Range(todo') = Files \cap S
    <3>1. Range(Only(Ranking, S)) = Range(Ranking) \cap S
      BY <2>2, OnlyFacts
    <3> QED
      BY <2>1, <2>2, <3>1
  <2> QED
    BY <1>1, <1>2, <2>1, <2>3, <2>4, SamePromises, CompleteFiles DEF OfAll, Coming
<1> QED
  BY <1>5, <1>6

\* After a failed request nothing is promised.
LEMMA CompleteTransport ==
  ASSUME QueryInv, ShapeInv, CompleteInv, TransportFails
  PROVE  CompleteInv'
<1>1. disturbed' = TRUE /\ UNCHANGED <<file, folders, globs, held>> /\ pc # "idle"
  BY DEF TransportFails, NextName, world
<1>2. TreeInv'
  BY <1>1 DEF CompleteInv, TreeInv, Ancestors
<1>3. CASE \E status : Fail(status)
  BY <1>1, <1>2, <1>3, CompleteEnd DEF Fail
<1>4. CASE todo # <<>> /\ PathFails("failed")
  BY <1>1, <1>2, <1>4, CompletePathFails DEF Statuses
<1>5. CASE \E x \in Files \cup Folders : NextName(x) /\ UNCHANGED <<pc, at, names>>
  <2>1. pc' = "lstat" /\ UNCHANGED left /\ pc = "lstat"
    BY <1>5 DEF NextName
  <2> QED
    BY <1>1, <1>2, <2>1 DEF CompleteInv, AheadInv, Listing
<1> QED
  BY <1>3, <1>4, <1>5 DEF TransportFails, QueryInv, Reading

\* An edit of a file makes the folders above it, and takes none away.
LEMMA CompleteEdit ==
  ASSUME QueryInv, ShapeInv, CompleteInv, NEW f \in Files, NEW c \in HandEdits, Edit(f, c)
  PROVE  CompleteInv'
<1>1. /\ UNCHANGED <<globs, pc, query, left, at, scan, names, todo, found, answer, disturbed>>
      /\ file' = [file EXCEPT ![f] = c]
      /\ folders' = IF c = Absent THEN folders ELSE folders \cup Ancestors(f)
      /\ held' = [held EXCEPT ![f] = @ \cup {c}]
  BY DEF Edit, Unasked, listing
<1>2. \A g \in Files : held[g] \subseteq held'[g]
  BY <1>1 DEF QueryInv
<1>3. TreeInv'
  BY <1>1 DEF CompleteInv, TreeInv, QueryInv, Ancestors
<1>4. \A g \in Files : Stays(g)' => Stays(g)
  BY <1>2 DEF Stays
<1>5. /\ \A g : Listable(g)' = Listable(g)
      /\ \A g, h : Promises(h, g)' = Promises(h, g)
  BY <1>1 DEF Listable, Promises, AskedBy, UnderPrefix
<1>6. \A g \in Files : (Ahead(g) => Ahead(g)') /\ (Coming(g) => Coming(g)')
  BY <1>1, <1>5 DEF Ahead, Coming, Ancestors
<1>7. folders \subseteq folders'
  BY <1>1
<1>8. AheadInv'
  BY <1>1, <1>4, <1>5, <1>6, <1>7 DEF CompleteInv, AheadInv, Listing
<1> QED
  BY <1>1, <1>3, <1>4, <1>5, <1>6, <1>8 DEF CompleteInv, OfAll, AnsweredPaths

\* A folder that can be removed has nothing below it.
LEMMA CompleteRemove ==
  ASSUME ShapeInv, CompleteInv, NEW d \in Folders, RemoveFolder(d)
  PROVE  CompleteInv'
<1>1. /\ disturbed' = TRUE /\ UNCHANGED <<file, pc, left, query>> /\ folders' = folders \ {d}
      /\ \A x \in Files \cup Folders : Exists(x) => Parent(x) # d
  BY DEF RemoveFolder, Unasked, listing
<1>2. ASSUME NEW f \in Files, file[f] # Absent, d \in Ancestors(f) PROVE FALSE
  <2>1. Ancestors(f) \subseteq folders /\ Below(f, d) /\ Ancestors(f) \cap Files = {}
    BY <1>2, TreeAssumption DEF CompleteInv, TreeInv, Ancestors
  <2>2. PICK x \in Files \cup Folders : Parent(x) = d /\ (x = f \/ x \in Ancestors(f))
    BY <2>1, NextBelow
  <2> QED
    BY <1>1, <1>2, <2>1, <2>2 DEF Exists
<1>3. TreeInv'
  BY <1>1, <1>2 DEF CompleteInv, TreeInv, Ancestors
<1> QED
  BY <1>1, <1>3 DEF CompleteInv, AheadInv, Listing

LEMMA CompleteInductive == QueryInv /\ ShapeInv /\ CompleteInv /\ [Next]_vars => CompleteInv'
<1> SUFFICES ASSUME QueryInv, ShapeInv, CompleteInv, [Next]_vars PROVE CompleteInv'
  OBVIOUS
<1>1. CASE \E q \in Queries : AskOne(q) \/ AskAll(q)
  BY <1>1, CompleteAsk
<1>2. CASE Work
  BY <1>2, GlobsAreReached, CompleteGlob, CompleteFolder, CompleteNoFolder, CompleteName, CompleteListed,
     CompleteRead, CompleteEnding DEF Work, Reads
<1>3. CASE TransportFails
  BY <1>3, CompleteTransport
<1>4. CASE \E f \in Files, c \in HandEdits : Edit(f, c)
  BY <1>4, CompleteEdit
<1>5. CASE \E d \in Folders : RemoveFolder(d)
  BY <1>5, CompleteRemove
<1>6. CASE UNCHANGED vars
  <2>1. UNCHANGED <<file, folders, globs, pc, query, left, at, scan, names, todo, found,
                    answer, held, disturbed>>
    BY <1>6 DEF vars, world, listing, history
  <2>2. TreeInv' /\ \A g \in Files : (Ahead(g) <=> Ahead(g)') /\ (Coming(g) <=> Coming(g)')
    BY <2>1, SamePromises DEF CompleteInv, TreeInv, Ancestors, Ahead, Coming
  <2>3. AheadInv'
    BY <2>1, <2>2, SamePromises DEF CompleteInv, AheadInv, Listing
  <2> QED
    BY <2>1, <2>2, <2>3, SamePromises DEF CompleteInv, OfAll, AnsweredPaths
<1> QED
  BY <1>1, <1>2, <1>3, <1>4, <1>5, <1>6 DEF Next

\* A list names every file that was there all the time, whatever else came, went
\* or changed while folder after folder and name after name was asked for.
THEOREM ListsAreComplete == Spec => []ListingIsComplete
<1>1. ShapeInv /\ CompleteInv => ListingIsComplete
  <2> SUFFICES ASSUME ShapeInv, CompleteInv, Answered("list", "ok"), ~disturbed,
                      NEW f \in Files, Listable(f), held[f] \subseteq Contents
               PROVE  f \in AnsweredPaths
    BY DEF ListingIsComplete
  <2>1. query \in Queries /\ query.kind = "list"
    BY DEF Answered, ShapeInv
  <2>2. query.path = None
    BY <2>1, QueryAssumption
  <2> QED
    BY <2>2 DEF Answered, CompleteInv, Stays
<1> QED
  BY <1>1, ShapeAlways, CompleteInit, CompleteInductive, PTL DEF Spec

-----------------------------------------------------------------------------
(* The hits of a search *)

Hit == [path : Files, line : Nat]

\* What was found of a file was found once, and is a content.
Distinct(infos) ==
  /\ \A i \in infos : i.path \in Files /\ i.content \in Contents
  /\ \A i, j \in infos : i.path = j.path => i = j

\* The hits in the files that were found.
HitsFound(infos) == {h \in Hit : \E i \in infos : h.path = i.path /\ h.line \in 1..Lines[i.content]}

\* The rank of a file is its place.
LEMMA RankIs ==
  ASSUME NEW r \in 1..Len(Ranking)
  PROVE  Rank(Ranking[r]) = r
<1> DEFINE P == {i \in 1..Len(Ranking) : Ranking[i] = Ranking[r]}
<1>1. Ranking \in Seq(Files) /\ DOMAIN Ranking = 1..Len(Ranking) /\ Len(Ranking) \in Nat
  BY TreeAssumption
<1>2. P = {r}
  <2>1. \A a, b \in DOMAIN Ranking : Ranking[a] = Ranking[b] => a = b
    BY TreeAssumption
  <2> QED
    BY <1>1, <2>1
<1>3. Rank(Ranking[r]) = IF P # {} THEN Min(P) ELSE 0
  BY DEF Rank, SelectInSeq
<1> HIDE DEF P
<1>4. Min({r}) = r
  BY MinFacts
<1> QED
  BY <1>2, <1>3, <1>4

LEMMA HitsInFacts ==
  ASSUME NEW infos, Distinct(infos), NEW f \in Files
  PROVE  /\ HitsIn(infos, f) \in Seq(Hit)
         /\ \A k \in 1..Len(HitsIn(infos, f)) : HitsIn(infos, f)[k] = [path |-> f, line |-> k]
         /\ \A i \in infos : i.path = f => Len(HitsIn(infos, f)) = Lines[i.content]
         /\ (~\E i \in infos : i.path = f) => Len(HitsIn(infos, f)) = 0
<1>1. CASE \E i \in infos : i.path = f
  <2> DEFINE i == CHOOSE i \in infos : i.path = f
             n == Lines[i.content]
             h == [k \in 1..n |-> [path |-> f, line |-> k]]
  <2>1. i \in infos /\ i.path = f
    BY <1>1
  <2>2. n \in Nat
    BY <2>1, ValueAssumption DEF Distinct
  <2>3. HitsIn(infos, f) = h
    BY <1>1 DEF HitsIn
  <2>4. \A j \in infos : j.path = f => Lines[j.content] = n
    BY <2>1 DEF Distinct
  <2> HIDE DEF i, n
  <2>5. h \in Seq(Hit) /\ Len(h) = n /\ \A k \in 1..n : h[k] = [path |-> f, line |-> k]
    BY <2>2 DEF Hit
  <2> HIDE DEF h
  <2> QED
    BY <1>1, <2>3, <2>4, <2>5
<1>2. CASE ~\E i \in infos : i.path = f
  <2>1. HitsIn(infos, f) = <<>>
    BY <1>2 DEF HitsIn
  <2> QED
    BY <1>2, <2>1
<1> QED
  BY <1>1, <1>2

\* All hits, each once, in their order.
LEMMA AllHitsFacts ==
  ASSUME NEW infos, Distinct(infos)
  PROVE  LET all == AllHits(infos)
         IN /\ all \in Seq(Hit)
            /\ Range(all) = HitsFound(infos)
            /\ \A j, k \in 1..Len(all) : j < k => Before(all[j], all[k])
<1> DEFINE seqs == [r \in DOMAIN Ranking |-> HitsIn(infos, Ranking[r])]
           all == AllHits(infos)
           n == Len(Ranking)
<1>1. Ranking \in Seq(Files) /\ DOMAIN Ranking = 1..n /\ n \in Nat /\ Range(Ranking) = Files
  BY TreeAssumption
<1>2. \A r \in 1..n : Ranking[r] \in Files /\ Rank(Ranking[r]) = r
  BY <1>1, RankIs
<1>3. \A f \in Files : \E r \in 1..n : Ranking[r] = f
  BY <1>1, RangeFacts
<1>4. seqs \in Seq(Seq(Hit)) /\ Len(seqs) = n /\ \A r \in 1..n : seqs[r] = HitsIn(infos, Ranking[r])
  <2>1. \A r \in 1..n : HitsIn(infos, Ranking[r]) \in Seq(Hit)
    BY <1>2, HitsInFacts
  <2>2. seqs \in [1..n -> Seq(Hit)]
    BY <1>1, <2>1
  <2> QED
    BY <1>1, <2>2
<1>5. all = FlattenSeq(seqs)
  BY DEF AllHits
<1> HIDE DEF seqs, all, n
<1>6. all \in Seq(Hit)
  BY <1>4, <1>5, FlattenInOrder
<1>7. PICK row, col : InOrder(all, seqs, n, row, col)
  BY <1>4, <1>5, FlattenInOrder
<1>8. \A j \in 1..Len(all) :
        /\ row[j] \in 1..n /\ col[j] \in 1..Len(seqs[row[j]])
        /\ all[j] = [path |-> Ranking[row[j]], line |-> col[j]]
  <2> SUFFICES ASSUME NEW j \in 1..Len(all)
               PROVE  /\ row[j] \in 1..n /\ col[j] \in 1..Len(seqs[row[j]])
                      /\ all[j] = [path |-> Ranking[row[j]], line |-> col[j]]
    OBVIOUS
  <2>1. row[j] \in 1..n /\ col[j] \in 1..Len(seqs[row[j]]) /\ all[j] = seqs[row[j]][col[j]]
    BY <1>7 DEF InOrder
  <2>2. Ranking[row[j]] \in Files /\ seqs[row[j]] = HitsIn(infos, Ranking[row[j]])
    BY <1>2, <1>4, <2>1
  <2> QED
    BY <2>1, <2>2, HitsInFacts
<1>9. ASSUME NEW j \in 1..Len(all), NEW k \in 1..Len(all), j < k PROVE Before(all[j], all[k])
  <2>1. row[j] < row[k] \/ (row[j] = row[k] /\ col[j] < col[k])
    BY <1>7, <1>9 DEF InOrder
  <2>2. /\ all[j].path = Ranking[row[j]] /\ all[j].line = col[j]
        /\ all[k].path = Ranking[row[k]] /\ all[k].line = col[k]
    <3>1. /\ all[j] = [path |-> Ranking[row[j]], line |-> col[j]]
          /\ all[k] = [path |-> Ranking[row[k]], line |-> col[k]]
      BY <1>8
    <3>2. \A p, l : [path |-> p, line |-> l].path = p /\ [path |-> p, line |-> l].line = l
      OBVIOUS
    <3> QED
      BY ONLY <3>1, <3>2
  <2>3. Rank(Ranking[row[j]]) = row[j] /\ Rank(Ranking[row[k]]) = row[k]
    BY <1>2, <1>8
  <2> QED
    BY <2>1, <2>2, <2>3 DEF Before
<1>10. Range(all) = HitsFound(infos)
  <2>1. \A h : h \in Range(all) <=> \E j \in 1..Len(all) : h = all[j]
    BY <1>6, RangeFacts
  <2>2. ASSUME NEW j \in 1..Len(all) PROVE all[j] \in HitsFound(infos)
    <3>1. /\ row[j] \in 1..n /\ col[j] \in 1..Len(seqs[row[j]])
          /\ all[j] = [path |-> Ranking[row[j]], line |-> col[j]]
      BY <1>8
    <3>2. Ranking[row[j]] \in Files /\ seqs[row[j]] = HitsIn(infos, Ranking[row[j]])
      BY <1>2, <1>4, <3>1
    <3>3. PICK i \in infos : i.path = Ranking[row[j]] /\ Len(seqs[row[j]]) = Lines[i.content]
      BY <3>1, <3>2, HitsInFacts
    <3>4. all[j] \in Hit
      BY <1>6
    <3> QED
      BY <3>1, <3>3, <3>4 DEF HitsFound
  <2>3. ASSUME NEW h \in HitsFound(infos) PROVE \E j \in 1..Len(all) : h = all[j]
    <3>1. PICK i \in infos : h.path = i.path /\ h.line \in 1..Lines[i.content]
      BY DEF HitsFound
    <3>2. h \in Hit /\ h = [path |-> i.path, line |-> h.line] /\ i.path \in Files
      BY <3>1 DEF HitsFound, Hit
    <3>3. PICK r \in 1..n : Ranking[r] = i.path
      BY <1>3, <3>2
    <3>4. h.line \in 1..Len(seqs[r])
      BY <1>4, <3>1, <3>2, <3>3, HitsInFacts
    <3>5. PICK j \in 1..Len(all) : row[j] = r /\ col[j] = h.line
      BY <1>7, <3>4 DEF InOrder
    <3> QED
      BY <1>8, <3>2, <3>3, <3>5
  <2> QED
    BY <2>1, <2>2, <2>3
<1> QED
  BY <1>6, <1>9, <1>10 DEF all

\* The hits that are returned are the first ones.
LEMMA HitsOfFacts ==
  ASSUME NEW infos, Distinct(infos)
  PROVE  LET hits == HitsOf(infos)
             rest == HitsFound(infos) \ Range(hits)
         IN /\ hits \in Seq(Hit) /\ Len(hits) <= SearchLimit
            /\ Range(hits) \subseteq HitsFound(infos)
            /\ rest = {} \/ Cardinality(Range(hits)) = SearchLimit
            /\ \A i, j \in DOMAIN hits : i < j => Before(hits[i], hits[j])
            /\ \A h \in Range(hits), k \in rest : Before(h, k)
<1> DEFINE all == AllHits(infos)
           hits == HitsOf(infos)
           m == Len(hits)
<1>1. /\ all \in Seq(Hit) /\ Range(all) = HitsFound(infos)
      /\ \A j, k \in 1..Len(all) : j < k => Before(all[j], all[k])
  BY AllHitsFacts
<1>2. SearchLimit \in Nat
  BY ValueAssumption
<1>3. hits = IF Len(all) > SearchLimit THEN SubSeq(all, 1, SearchLimit) ELSE all
  BY DEF HitsOf, Cut
<1>4. Len(all) \in Nat /\ \A x : x \in Range(all) <=> \E j \in 1..Len(all) : x = all[j]
  BY <1>1, RangeFacts
<1> HIDE DEF all, hits
<1>5. /\ hits \in Seq(Hit) /\ m \in Nat /\ m <= SearchLimit /\ m <= Len(all)
      /\ \A j \in 1..m : hits[j] = all[j]
      /\ m = Len(all) \/ m = SearchLimit
  <2>1. CASE Len(all) > SearchLimit
    BY <1>1, <1>2, <1>3, <1>4, <2>1
  <2>2. CASE ~(Len(all) > SearchLimit)
    BY <1>1, <1>2, <1>3, <1>4, <2>2
  <2> QED
    BY <2>1, <2>2
<1>6. \A x : x \in Range(hits) <=> \E j \in 1..m : x = hits[j]
  BY <1>5, RangeFacts
<1> HIDE DEF m
<1>7. \A i, j \in 1..m : i < j => Before(hits[i], hits[j])
  BY <1>1, <1>4, <1>5
<1>8. Range(hits) \subseteq Range(all)
  BY <1>4, <1>5, <1>6
<1>9. ASSUME NEW k \in Range(all) \ Range(hits)
      PROVE  m = SearchLimit /\ \A h \in Range(hits) : Before(h, k)
  <2>1. PICK j \in 1..Len(all) : k = all[j]
    BY <1>4
  <2>2. j > m
    BY <1>4, <1>5, <1>6, <1>9, <2>1
  <2>3. m = SearchLimit
    BY <1>2, <1>4, <1>5, <2>2
  <2>4. ASSUME NEW i \in 1..m PROVE Before(hits[i], k)
    BY <1>1, <1>4, <1>5, <2>1, <2>2
  <2> QED
    BY <1>6, <2>3, <2>4
<1>10. Cardinality(Range(hits)) = m
  <2>1. \A h \in Hit : ~Before(h, h)
    <3> SUFFICES ASSUME NEW h \in Hit PROVE ~Before(h, h)
      OBVIOUS
    <3>1. h.path \in Files /\ h.line \in Nat
      BY DEF Hit
    <3>2. Rank(h.path) \in Nat
      <4>1. Ranking \in Seq(Files) /\ Range(Ranking) = Files
        BY TreeAssumption
      <4>2. PICK r \in 1..Len(Ranking) : h.path = Ranking[r]
        BY <3>1, <4>1, RangeFacts
      <4> QED
        BY <4>2, RankIs
    <3> QED
      BY <3>1, <3>2 DEF Before
  <2>2. \A j \in 1..m : hits[j] \in Hit
    BY <1>5 DEF m
  <2>3. \A i, j \in 1..m : i < j => hits[i] # hits[j]
    BY <1>7, <2>1, <2>2
  <2> QED
    BY <1>5, <2>3, DistinctElements DEF m
<1>11. DOMAIN hits = 1..m
  BY <1>5 DEF m
<1>12. \/ HitsFound(infos) \ Range(hits) = {}
       \/ Cardinality(Range(hits)) = SearchLimit
  BY <1>1, <1>9, <1>10
<1>13. Len(hits) <= SearchLimit
  BY <1>5 DEF m
<1> QED
  BY <1>1, <1>5, <1>7, <1>8, <1>9, <1>11, <1>12, <1>13 DEF hits

\* What is found, and answered, was found once; the hits of an answer are those
\* of what was found; only what was asked for is answered.
FoundInv ==
  /\ Distinct(found)
  /\ answer # None =>
       /\ Distinct(answer.infos)
       /\ query.kind = "search" => answer.hits = HitsOf(answer.infos)
       /\ query.path = None => \A i \in answer.infos : i.path \in AskedFor

LEMMA FoundInit == Init => FoundInv
BY DEF Init, FoundInv, Distinct

LEMMA FoundEnd ==
  ASSUME NEW status, NEW infos, End(status, infos), Distinct(infos),
         query'.path = None => \A i \in infos : i.path \in AskedFor'
  PROVE  FoundInv'
<1>1. found' = {} /\ answer'.infos = infos
  BY DEF End, Forget
<1>2. query'.kind = "search" => answer'.hits = HitsOf(infos)
  BY DEF End
<1>3. Distinct({})
  BY DEF Distinct
<1>4. Distinct(found') /\ Distinct(answer'.infos) /\ HitsOf(answer'.infos) = HitsOf(infos)
  BY <1>1, <1>3
<1>5. Distinct(found)' /\ Distinct(answer.infos)' /\ HitsOf(answer.infos)' = HitsOf(infos)
  BY <1>1, <1>4 DEF Distinct, HitsOf, AllHits, HitsIn
<1> QED
  BY <1>1, <1>2, <1>5 DEF FoundInv

\* An error leaves what was found, or is answered with nothing.
LEMMA FoundFails ==
  ASSUME FoundInv, QueryInv, pc # "idle",
         \E status : Fail(status) \/ PathFails(status)
  PROVE  FoundInv'
<1>1. CASE \E status : Fail(status)
  <2>1. PICK status : End(status, {})
    BY <1>1 DEF Fail
  <2> QED
    BY <2>1, FoundEnd DEF Distinct
<1>2. CASE \E status : PathFails(status) /\ ~Fail(status)
  <2>1. UNCHANGED <<found, answer>>
    BY <1>2 DEF PathFails
  <2> QED
    BY <2>1 DEF FoundInv, QueryInv, Distinct
<1> QED
  BY <1>1, <1>2

LEMMA FoundRead ==
  ASSUME FoundInv, QueryInv, Reads
  PROVE  FoundInv'
<1> DEFINE f == Head(todo)
           new(c) == [path |-> f, sized |-> sized, content |-> c]
<1>1. pc # "idle" /\ answer = None
  BY ReadsFacts DEF QueryInv, Reading
<1>2. CASE \E status : Fail(status) \/ PathFails(status)
  BY <1>1, <1>2, FoundFails
<1>3. CASE UNCHANGED <<found, answer>>
  BY <1>1, <1>3 DEF FoundInv, Distinct
<1>4. CASE pc = "open" /\ \E c \in Opened(f) \cap Contents : Finds(c)
  <2>1. PICK c \in Contents : found' = {i \in found : i.path # f} \cup {new(c)} /\ answer' = answer
    BY <1>4 DEF Finds
  <2> DEFINE this == new(c)
  <2>2. f \in Files
    BY <1>4 DEF QueryInv, Reading
  <2>3. this.path = f /\ this.content = c /\ found' = {i \in found : i.path # f} \cup {this}
    BY <2>1
  <2> HIDE DEF f, new, this
  <2>4. Distinct(found)'
    BY <2>2, <2>3 DEF FoundInv, Distinct
  <2> QED
    BY <1>1, <2>1, <2>4 DEF FoundInv
<1> QED
  BY <1>2, <1>3, <1>4, ReadsFacts

LEMMA FoundInductive == QueryInv /\ ShapeInv /\ FoundInv /\ [Next]_vars => FoundInv'
<1> SUFFICES ASSUME QueryInv, ShapeInv, FoundInv, [Next]_vars PROVE FoundInv'
  OBVIOUS
<1>1. ASSUME answer = None, UNCHANGED <<found, answer>> PROVE FoundInv'
  BY <1>1 DEF FoundInv, Distinct
<1>2. ASSUME answer' = None, UNCHANGED found PROVE FoundInv'
  BY <1>2 DEF FoundInv, Distinct
<1>3. ASSUME NEW status, End(status, {}) PROVE FoundInv'
  BY <1>3, FoundEnd DEF Distinct
<1>4. pc # "idle" => answer = None
  BY DEF QueryInv
<1>5. CASE \E q \in Queries : AskOne(q) \/ AskAll(q)
  BY <1>2, <1>3, <1>5 DEF AskOne, AskAll
<1>6. CASE GlobRefused
  BY <1>3, <1>6 DEF GlobRefused
<1>7. CASE \/ LiteralGlob \/ ListLocally \/ StartListing \/ ListFolder \/ NoFolder \/ FolderListed
           \/ \E x \in Files \cup Folders : LookAt(x)
  BY <1>1, <1>4, <1>7 DEF LiteralGlob, ListLocally, StartListing, AtGlob, ListFolder, NoFolder,
     FolderListed, LookAt, NextName
<1>8. CASE Reads
  BY <1>8, FoundRead
<1>10. CASE StartReading
  <2>1. found' = {} /\ answer' = answer /\ pc # "idle"
    BY <1>10 DEF StartReading, AtEnd
  <2> QED
    BY <1>4, <2>1 DEF FoundInv, Distinct
<1>11. CASE Finish
  <2>1. End("ok", found) /\ pc # "idle" /\ UNCHANGED <<query, globs>>
    BY <1>11 DEF Finish, AtEnd, world
  <2>2. query.path = None => \A i \in found : i.path \in AskedFor
    BY <2>1 DEF ShapeInv, OfAll
  <2>3. AskedFor' = AskedFor
    BY <2>1, SameAskedFor
  <2>4. Distinct(found)
    BY DEF FoundInv
  <2> QED
    BY <2>1, <2>2, <2>3, <2>4, FoundEnd
<1>12. CASE TransportFails
  <2>1. pc # "idle"
    BY <1>12 DEF TransportFails, NextName
  <2>2. CASE \E status : Fail(status) \/ PathFails(status)
    BY <2>1, <2>2, FoundFails
  <2>3. CASE \E x \in Files \cup Folders : NextName(x)
    BY <1>1, <1>4, <2>1, <2>3 DEF NextName
  <2> QED
    BY <1>12, <2>2, <2>3 DEF TransportFails
<1>13. CASE \/ \E f \in Files, c \in HandEdits : Edit(f, c)
            \/ \E d \in Folders : RemoveFolder(d)
            \/ UNCHANGED vars
  <2>1. UNCHANGED <<globs, query, found, answer>>
    BY <1>13 DEF Edit, RemoveFolder, Unasked, vars, world
  <2>2. AskedFor' = AskedFor
    BY <2>1, SameAskedFor
  <2> QED
    BY <2>1, <2>2 DEF FoundInv, Distinct, HitsOf, AllHits, HitsIn
<1> QED
  BY <1>5, <1>6, <1>7, <1>8, <1>10, <1>11, <1>12, <1>13 DEF Next, Work, Reads

\* A search of all files that do not change finds the first hits of the files it
\* is asked for, in their order and each once, as many as the limit, and misses
\* no file that a glob lists.
THEOREM SearchesAreExact == Spec => []SearchIsExact
<1>1. QueryInv /\ ShapeInv /\ CompleteInv /\ CauseInv /\ FoundInv => SearchIsExact
  <2> DEFINE given == Range(answer.hits)
             wanted == {f \in Files : Listable(f)}
             missed == HitsAmong(wanted) \ given
             infos == answer.infos
  <2> SUFFICES ASSUME QueryInv, ShapeInv, CompleteInv, CauseInv, FoundInv,
                      Answered("search", "ok"), query.path = None, Unchanged
               PROVE  /\ given \subseteq HitsAmong(AskedFor)
                      /\ Len(answer.hits) <= SearchLimit
                      /\ missed = {} \/ Cardinality(given) = SearchLimit
                      /\ \A i, j \in DOMAIN answer.hits :
                           i < j => Before(answer.hits[i], answer.hits[j])
                      /\ \A h \in given, k \in missed : Before(h, k)
    BY DEF SearchIsExact
  <2>1. /\ pc = "idle" /\ answer # None /\ query.kind = "search" /\ answer.status = "ok"
        /\ ~disturbed
    BY DEF Answered, Unchanged
  <2>2. /\ Distinct(infos) /\ answer.hits = HitsOf(infos)
        /\ \A i \in infos : i.path \in AskedFor /\ i.path \in Files
    BY <2>1 DEF FoundInv, Distinct
  <2>3. \A f \in Files : held[f] = {file[f]}
    <3> SUFFICES ASSUME NEW f \in Files PROVE held[f] = {file[f]}
      OBVIOUS
    <3>1. file[f] \in held[f] /\ IsFiniteSet(held[f]) /\ Cardinality(held[f]) = 1
      BY DEF QueryInv, CauseInv, Unchanged
    <3>2. \E x : held[f] = {x}
      BY <3>1, FS_Singleton
    <3> QED
      BY <3>1, <3>2
  <2>4. \A i \in infos : i.content = file[i.path]
    <3> SUFFICES ASSUME NEW i \in infos PROVE i.content = file[i.path]
      OBVIOUS
    <3>1. i.path \in Files /\ held[i.path] \cap Contents # {} /\ WasIn(i.path, i.content)
      BY <2>1 DEF QueryInv, Seen
    <3> QED
      BY <2>3, <3>1, ValueAssumption DEF WasIn
  <2>5. HitsFound(infos) \subseteq HitsAmong(AskedFor)
    <3> SUFFICES ASSUME NEW h \in HitsFound(infos) PROVE h \in HitsAmong(AskedFor)
      OBVIOUS
    <3>1. PICK i \in infos : h.path = i.path /\ h.line \in 1..Lines[i.content]
      BY DEF HitsFound
    <3>2. i.path \in AskedFor /\ file[i.path] \in Contents /\ i.content = file[i.path]
      BY <2>2, <2>4 DEF Distinct
    <3>3. h = [path |-> i.path, line |-> h.line]
      BY <3>1 DEF HitsFound, Hit
    <3> QED
      BY <3>1, <3>2, <3>3 DEF HitsAmong
  <2>6. HitsAmong(wanted) \subseteq HitsFound(infos)
    <3> SUFFICES ASSUME NEW f \in Files, Listable(f), file[f] \in Contents,
                        NEW k \in 1..Lines[file[f]]
                 PROVE  [path |-> f, line |-> k] \in HitsFound(infos)
      BY DEF HitsAmong
    <3>1. Stays(f)
      BY <2>3 DEF Stays
    <3>2. f \in AnsweredPaths
      BY <2>1, <3>1 DEF CompleteInv
    <3>3. PICK i \in infos : i.path = f
      BY <3>2 DEF AnsweredPaths
    <3>4. k \in Nat
      BY ValueAssumption
    <3> QED
      BY <2>4, <3>3, <3>4 DEF HitsFound, Hit
  <2> HIDE DEF infos
  <2>7. LET hits == HitsOf(infos)
            rest == HitsFound(infos) \ Range(hits)
        IN /\ Len(hits) <= SearchLimit
           /\ Range(hits) \subseteq HitsFound(infos)
           /\ rest = {} \/ Cardinality(Range(hits)) = SearchLimit
           /\ \A i, j \in DOMAIN hits : i < j => Before(hits[i], hits[j])
           /\ \A h \in Range(hits), k \in rest : Before(h, k)
    BY <2>2, HitsOfFacts
  <2>8. missed \subseteq HitsFound(infos) \ given
    BY <2>6
  <2> QED
    BY <2>2, <2>5, <2>7, <2>8
<1> QED
  BY <1>1, ShapeAlways, CompleteInit, CompleteInductive, CauseInit, CauseInductive,
     FoundInit, FoundInductive, PTL DEF Spec

-----------------------------------------------------------------------------
(* Types *)

\* The part of the type invariant that changes with the files.
WorldOK ==
  /\ file \in [Files -> Values] /\ held \in [Files -> SUBSET Values]
  /\ disturbed \in BOOLEAN /\ edits \in 0..MaxEdits

\* The part that changes with the query, beyond ShapeInv.
WorkOK ==
  /\ pc \in {"idle", "files", "stat", "read", "open", "listdir", "lstat"}
  /\ strict \in BOOLEAN
  /\ at \in Folders \cup Range(Listed) \cup {<<>>}
  /\ sized \in Contents \cup {None}
  /\ found \subseteq InfoType
  /\ answer \in AnswerType \cup {None}

LEMMA WorldType == WorldOK /\ [Next]_vars => WorldOK'
<1> SUFFICES ASSUME WorldOK, [Next]_vars PROVE WorldOK'
  OBVIOUS
<1>1. CASE \E q \in Queries : Begin(q)
  <2>1. held' = [f \in Files |-> {file[f]}] /\ disturbed' = FALSE /\ UNCHANGED <<file, edits>>
    BY <1>1 DEF Begin, world
  <2>2. \A f \in Files : {file[f]} \in SUBSET Values
    BY DEF WorldOK
  <2>3. held' \in [Files -> SUBSET Values]
    BY <2>1, <2>2
  <2> QED
    BY <2>1, <2>3 DEF WorldOK
<1>2. CASE UNCHANGED <<world, held>> /\ disturbed' \in BOOLEAN
  BY <1>2 DEF world, WorldOK
<1>3. CASE \E f \in Files, c \in HandEdits : Edit(f, c)
  BY <1>3, ValueAssumption DEF Edit, WorldOK
<1>4. CASE \E d \in Folders : RemoveFolder(d)
  BY <1>4, ValueAssumption DEF RemoveFolder, WorldOK
<1>5. CASE UNCHANGED <<world, history>>
  BY <1>2, <1>5 DEF history, WorldOK
<1>6. CASE Work
  BY <1>2, <1>5, <1>6 DEF Work, GlobRefused, LiteralGlob, ListLocally, StartListing, AtGlob,
     ListFolder, NoFolder, LookAt, NextName, FolderListed, CheckStat, CheckRead, Check, Stat,
     ReadText, StartReading, Finish, AtEnd, WorldOK
<1>7. CASE TransportFails
  BY <1>2, <1>7 DEF TransportFails, NextName
<1>8. CASE UNCHANGED vars
  BY <1>5, <1>8 DEF vars
<1> QED
  BY <1>1, <1>3, <1>4, <1>6, <1>7, <1>8 DEF Next, AskOne, AskAll

LEMMA WorkEnd ==
  ASSUME NEW status \in Statuses, NEW infos \in SUBSET InfoType, Distinct(infos),
         End(status, infos)
  PROVE  WorkOK'
<1>1. HitsOf(infos) \in Seq(Hit) /\ <<>> \in Seq(Hit)
  BY HitsOfFacts
<1> DEFINE hits == IF query'.kind = "search" THEN HitsOf(infos) ELSE <<>>
<1>2. hits \in Seq([path : Files, line : Nat])
  BY <1>1 DEF Hit
<1>3. answer' = [status |-> status, infos |-> infos, hits |-> hits]
  BY DEF End
<1> HIDE DEF hits
<1>4. answer' \in AnswerType
  BY <1>2, <1>3 DEF AnswerType
<1> QED
  BY <1>4 DEF End, Forget, WorkOK

LEMMA WorkFails ==
  ASSUME WorkOK, NEW status \in Statuses, Fail(status) \/ PathFails(status)
  PROVE  WorkOK'
<1>1. Distinct({}) /\ {} \in SUBSET InfoType
  BY DEF Distinct
<1>2. CASE Fail(status)
  BY <1>1, <1>2, WorkEnd DEF Fail
<1>3. CASE PathFails(status) /\ ~Fail(status)
  BY <1>3 DEF PathFails, WorkOK, listing
<1> QED
  BY <1>2, <1>3

\* What is taken of a file is a size and a content.
LEMMA WorkReads ==
  ASSUME QueryInv, WorkOK, Reads
  PROVE  WorkOK'
<1>1. CASE \E status \in Statuses : PathFails(status) \/ Fail(status)
  BY <1>1, WorkFails
<1>2. CASE Reading' /\ UNCHANGED <<query, listing, todo, strict, found, answer>>
  <2>1. sized' \in Contents \cup {None}
    <3>1. CASE CheckStat \/ CheckRead
      BY <1>2, <3>1 DEF CheckStat, CheckRead, Check, PathFails, Fail, End, WorkOK, Reading
    <3>2. CASE Stat
      <4>1. PICK c \in Opened(Head(todo)) : sized' \in {c, None} /\ c # Absent
        BY <1>2, <3>2 DEF Stat, PathFails, Fail, End, Reading
      <4> QED
        BY <4>1, OpenedFacts
    <3>3. CASE ReadText
      BY <1>2, <3>3 DEF ReadText, PathFails, Fail, End, Reading
    <3> QED
      BY <1>2, <3>1, <3>2, <3>3 DEF Reads
  <2> QED
    BY <1>2, <2>1 DEF WorkOK, listing, Reading
<1>3. ASSUME NEW c \in Contents, Finds(c), pc = "open"
      PROVE  WorkOK'
  <2> DEFINE f == Head(todo)
             new == [path |-> f, sized |-> sized, content |-> c]
  <2>1. f \in Files /\ sized \in Contents
    BY <1>3 DEF QueryInv, Reading, WasIn
  <2>2. new \in InfoType
    BY <2>1 DEF InfoType
  <2>3. /\ found' = {i \in found : i.path # f} \cup {new} /\ pc' = "files" /\ sized' = None
        /\ UNCHANGED <<listing, strict, answer>>
    BY <1>3 DEF Finds
  <2> HIDE DEF f, new
  <2>4. found' \subseteq InfoType
    BY <2>2, <2>3 DEF WorkOK
  <2> QED
    BY <2>3, <2>4 DEF WorkOK, listing
<1> QED
  BY <1>1, <1>2, <1>3, ReadsFacts DEF Statuses

LEMMA WorkType == QueryInv /\ ShapeInv /\ FoundInv /\ WorkOK /\ [Next]_vars => WorkOK'
<1> SUFFICES ASSUME QueryInv, ShapeInv, FoundInv, WorkOK, [Next]_vars PROVE WorkOK'
  OBVIOUS
<1>1. ASSUME NEW status \in Statuses, End(status, {}) PROVE WorkOK'
  BY <1>1, WorkEnd DEF Distinct
<1>2. CASE \E q \in Queries : AskOne(q) \/ AskAll(q)
  <2>1. CASE End("refused", {})
    BY <1>1, <2>1 DEF Statuses
  <2>2. CASE pc' = "files" /\ strict' \in {strict, TRUE} /\ answer' = None /\ UNCHANGED <<at, sized, found>>
    BY <2>2 DEF WorkOK
  <2> QED
    BY <1>2, <2>1, <2>2 DEF AskOne, AskAll, listing
<1>3. CASE GlobRefused
  BY <1>1, <1>3 DEF GlobRefused, Statuses
<1>4. CASE StartListing
  <2>1. Head(left) \in AllGlobs
    <3>1. left \in Seq(Range(globs)) /\ left # <<>> /\ globs \in GlobChoices
      BY <1>4 DEF StartListing, AtGlob, ShapeInv
    <3>2. Head(left) \in Range(globs)
      BY <3>1
    <3> QED
      BY <3>1, <3>2 DEF AllGlobs
  <2>2. Listed[Head(left)] \in Range(Listed)
    BY <2>1 DEF Listed, Range
  <2> QED
    BY <1>4, <2>2 DEF StartListing, AtGlob, WorkOK
<1>5. CASE LiteralGlob \/ ListLocally \/ NoFolder \/ FolderListed \/ ListFolder
  BY <1>5 DEF LiteralGlob, ListLocally, AtGlob, NoFolder, FolderListed, ListFolder, TakeNames, WorkOK
<1>6. CASE \E x \in Files \cup Folders : LookAt(x)
  BY <1>6 DEF LookAt, NextName, WorkOK, ShapeInv
<1>7. CASE Reads
  BY <1>7, WorkReads
<1>9. CASE StartReading
  BY <1>9 DEF StartReading, AtEnd, WorkOK, listing
<1>10. CASE Finish
  <2>1. End("ok", found) /\ "ok" \in Statuses /\ found \in SUBSET InfoType /\ Distinct(found)
    BY <1>10 DEF Finish, Statuses, WorkOK, FoundInv
  <2> QED
    BY <2>1, WorkEnd
<1>11. CASE TransportFails
  <2>1. CASE \E status \in Statuses : Fail(status) \/ PathFails(status)
    BY <2>1, WorkFails
  <2>2. CASE \E x \in Files \cup Folders : NextName(x) /\ UNCHANGED <<pc, at, names>>
    BY <2>2 DEF NextName, WorkOK
  <2> QED
    BY <1>11, <2>1, <2>2 DEF TransportFails, Statuses
<1>12. CASE \/ \E f \in Files, c \in HandEdits : Edit(f, c)
            \/ \E d \in Folders : RemoveFolder(d)
            \/ UNCHANGED vars
  BY <1>12 DEF Edit, RemoveFolder, Unasked, listing, vars, WorkOK
<1> QED
  BY <1>2, <1>3, <1>4, <1>5, <1>6, <1>7, <1>9, <1>10, <1>11, <1>12 DEF Next, Work, Reads

\* Variables keep their types: a path that is answered is one of a file, and a
\* hit a line of a file that was found.
THEOREM QueryTypeCorrect == Spec => []TypeOK
<1>1. Init => WorldOK /\ WorkOK
  <2> SUFFICES ASSUME Init PROVE WorldOK /\ WorkOK
    OBVIOUS
  <2>1. file \in [Files -> Values] /\ held = [f \in Files |-> {file[f]}]
    BY ValueAssumption DEF Init
  <2>2. held \in [Files -> SUBSET Values]
    BY <2>1
  <2>3. disturbed \in BOOLEAN /\ edits \in 0..MaxEdits
    <3>1. disturbed = FALSE /\ edits = 0
      BY DEF Init
    <3>2. MaxEdits \in Nat
      BY ValueAssumption
    <3>3. disturbed \in BOOLEAN
      BY <3>1
    <3>4. 0 \in 0..MaxEdits
      BY <3>2
    <3> QED
      BY <3>1, <3>3, <3>4
  <2>4. WorkOK
    BY DEF Init, WorkOK
  <2> QED
    BY <2>1, <2>2, <2>3, <2>4 DEF WorldOK
<1>2. ShapeInv /\ WorldOK /\ WorkOK => TypeOK
  BY DEF ShapeInv, WorldOK, WorkOK, TypeOK
<1> QED
  BY <1>1, <1>2, ShapeAlways, FoundInit, FoundInductive, WorldType, WorkType, PTL DEF Spec

-----------------------------------------------------------------------------
(* Queries of one path *)

\* A query of one path looks at the file that the path resolves to and at nothing
\* else.
OfOne == query # None /\ query.path # None

NamedInv ==
  OfOne =>
    /\ pc # "idle" => /\ Resolve(query.path) # Refused
                      /\ todo \in {<<>>, <<Resolve(query.path)>>}
    /\ \A i \in found : i.path = Resolve(query.path)
    /\ answer # None => \A i \in answer.infos :
         Resolve(query.path) # Refused /\ i.path = Resolve(query.path)

LEMMA NamedInit == Init => NamedInv
BY DEF Init, NamedInv, OfOne

LEMMA NamedEnd ==
  ASSUME NEW status, NEW infos, End(status, infos),
         OfOne' => \A i \in infos :
           Resolve(query.path)' # Refused /\ i.path = Resolve(query.path)'
  PROVE  NamedInv'
<1>1. pc' = "idle" /\ found' = {} /\ answer'.infos = infos
  BY DEF End, Forget
<1> QED
  BY <1>1 DEF NamedInv

\* A step of a query under way that only goes on with the files.
LEMMA NamedGoOn ==
  ASSUME NamedInv, UNCHANGED <<globs, query, found>>, answer' \in {answer, None},
         pc' # "idle" => pc # "idle" /\ (OfOne => todo' \in {todo, Tail(todo)} /\ todo # <<>>)
  PROVE  NamedInv'
<1>1. OfOne' = OfOne /\ Resolve(query.path)' = Resolve(query.path)
  BY DEF OfOne, Resolve
<1>2. \A x : Tail(<<x>>) = <<>>
  OBVIOUS
<1>3. ASSUME OfOne, pc' # "idle"
      PROVE  todo' \in {<<>>, <<Resolve(query.path)>>}
  <2>1. todo = <<Resolve(query.path)>>
    BY <1>3 DEF NamedInv
  <2> QED
    BY <1>2, <1>3, <2>1
<1> QED
  BY <1>1, <1>3 DEF NamedInv

LEMMA NamedFails ==
  ASSUME NamedInv, pc # "idle", todo # <<>>, UNCHANGED globs,
         \E status : Fail(status) \/ PathFails(status)
  PROVE  NamedInv'
<1>1. CASE \E status : Fail(status)
  <2>1. PICK status : End(status, {})
    BY <1>1 DEF Fail
  <2> QED
    BY <2>1, NamedEnd
<1>2. CASE \E status : PathFails(status) /\ ~Fail(status)
  <2>1. UNCHANGED <<query, found, answer>> /\ todo' = Tail(todo)
    BY <1>2 DEF PathFails
  <2> QED
    BY <2>1, NamedGoOn
<1> QED
  BY <1>1, <1>2

LEMMA NamedRead ==
  ASSUME NamedInv, QueryInv, Reads
  PROVE  NamedInv'
<1> DEFINE f == Head(todo)
<1>1. pc # "idle" /\ answer = None /\ todo # <<>> /\ UNCHANGED globs
  BY ReadsFacts DEF QueryInv, Reading, world
<1>2. CASE \E status : Fail(status) \/ PathFails(status)
  BY <1>1, <1>2, NamedFails
<1>3. CASE UNCHANGED <<query, todo, found, answer>>
  BY <1>1, <1>3, NamedGoOn
<1>4. ASSUME NEW c, Finds(c) PROVE NamedInv'
  <2> DEFINE new == [path |-> f, sized |-> sized, content |-> c]
  <2>0. /\ found' = {i \in found : i.path # f} \cup {new}
        /\ todo' = Tail(todo) /\ UNCHANGED <<query, answer>>
    BY <1>4 DEF Finds
  <2>1. OfOne' = OfOne /\ Resolve(query.path)' = Resolve(query.path)
    BY <1>1, <2>0 DEF OfOne, Resolve
  <2>2. ASSUME OfOne
        PROVE  f = Resolve(query.path) /\ Tail(todo) = <<>> /\ Resolve(query.path) # Refused
    <3> DEFINE r == Resolve(query.path)
    <3>1. r # Refused /\ todo = <<r>>
      BY <1>1, <2>2 DEF NamedInv
    <3> HIDE DEF r
    <3>2. Head(<<r>>) = r /\ Tail(<<r>>) = <<>>
      OBVIOUS
    <3> QED
      BY <3>1, <3>2 DEF r
  <2>3. new.path = f
    OBVIOUS
  <2> HIDE DEF f, new
  <2> QED
    BY <1>1, <2>0, <2>1, <2>2, <2>3 DEF NamedInv
<1> QED
  BY <1>2, <1>3, <1>4, ReadsFacts

LEMMA NamedAsk ==
  ASSUME NamedInv, QueryInv, ShapeInv, NEW q \in Queries, AskOne(q) \/ AskAll(q)
  PROVE  NamedInv'
<1>1. pc = "idle" /\ query' = q /\ found = {} /\ UNCHANGED globs
  BY DEF AskOne, AskAll, Begin, QueryInv, world
<1>2. CASE \E status : End(status, {})
  BY <1>2, NamedEnd
<1>3. CASE AskAll(q) /\ ~\E status : End(status, {})
  BY <1>1, <1>3 DEF AskAll, NamedInv, OfOne
<1>4. CASE AskOne(q) /\ ~\E status : End(status, {})
  <2>1. /\ Resolve(q.path) # Refused /\ todo' = <<Resolve(q.path)>>
        /\ found' = {} /\ answer' = None
    BY <1>1, <1>4 DEF AskOne
  <2>2. Resolve(query.path)' = Resolve(q.path)
    BY <1>1 DEF Resolve
  <2> QED
    BY <2>1, <2>2 DEF NamedInv
<1> QED
  BY <1>2, <1>3, <1>4

LEMMA NamedInductive == QueryInv /\ ShapeInv /\ NamedInv /\ [Next]_vars => NamedInv'
<1> SUFFICES ASSUME QueryInv, ShapeInv, NamedInv, [Next]_vars PROVE NamedInv'
  OBVIOUS
<1>1. pc # "idle" /\ ~strict => ~OfOne
  BY DEF ShapeInv, OfOne
<1>2. ASSUME ~OfOne, UNCHANGED query PROVE NamedInv'
  BY <1>2 DEF NamedInv, OfOne
<1>3. ASSUME NEW status, End(status, {}) PROVE NamedInv'
  BY <1>3, NamedEnd
<1>4. CASE \E q \in Queries : AskOne(q) \/ AskAll(q)
  BY <1>4, NamedAsk
<1>5. CASE GlobRefused \/ \E status : Fail(status)
  BY <1>3, <1>5 DEF GlobRefused, Fail
<1>6. CASE LiteralGlob \/ ListLocally \/ StartListing
  BY <1>1, <1>2, <1>6 DEF LiteralGlob, ListLocally, StartListing, AtGlob
<1>7. CASE \/ ListFolder \/ NoFolder \/ FolderListed
           \/ \E x \in Files \cup Folders : NextName(x)
  <2>1. Listing /\ UNCHANGED query
    BY <1>7 DEF ListFolder, NoFolder, FolderListed, NextName, Listing
  <2>2. pc # "idle" /\ ~strict
    BY <2>1 DEF ShapeInv, Listing
  <2> QED
    BY <1>1, <1>2, <2>1, <2>2
<1>9. CASE Reads
  BY <1>9, NamedRead
<1>10. CASE StartReading
  BY <1>1, <1>2, <1>10 DEF StartReading, AtEnd
<1>11. CASE Finish
  <2>1. End("ok", found) /\ pc # "idle" /\ UNCHANGED <<query, globs>>
    BY <1>11 DEF Finish, AtEnd, world
  <2>2. OfOne' = OfOne /\ Resolve(query.path)' = Resolve(query.path)
    BY <2>1 DEF OfOne, Resolve
  <2> QED
    BY <2>1, <2>2, NamedEnd DEF NamedInv
<1>12. CASE TransportFails
  <2>1. UNCHANGED globs
    BY <1>12 DEF TransportFails, NextName, world
  <2>2. CASE \E status : Fail(status)
    BY <1>5, <2>2
  <2>3. CASE \E x \in Files \cup Folders : NextName(x)
    BY <1>7, <2>3
  <2>4. CASE (Reading \/ (pc = "files" /\ todo # <<>>)) /\ \E status : PathFails(status)
    <3>1. pc # "idle" /\ todo # <<>>
      BY <2>4 DEF QueryInv, Reading
    <3> QED
      BY <2>1, <2>4, <3>1, NamedFails
  <2> QED
    BY <1>12, <2>2, <2>3, <2>4 DEF TransportFails, Reading
<1>13. CASE \/ \E f \in Files, c \in HandEdits : Edit(f, c)
            \/ \E d \in Folders : RemoveFolder(d)
            \/ UNCHANGED vars
  <2>1. UNCHANGED <<globs, pc, query, todo, found, answer>>
    BY <1>13 DEF Edit, RemoveFolder, Unasked, vars, world
  <2>2. OfOne' = OfOne /\ Resolve(query.path)' = Resolve(query.path)
    BY <2>1 DEF OfOne, Resolve
  <2> QED
    BY <2>1, <2>2 DEF NamedInv
<1> QED
  BY <1>4, <1>5, <1>6, <1>7, <1>9, <1>10, <1>11, <1>12, <1>13 DEF Next, Work, LookAt, Reads

\* What a path that is asked for resolves to.
LEMMA ResolvesToNamed ==
  ASSUME NEW q \in Queries, q.path # None, Resolve(q.path) # Refused
  PROVE  LET f == Resolve(q.path)
         IN /\ ~Forbidden(ApiPath(f))
            /\ Walk(q.path) = Tail(Split(ApiPath(f)))
<1> DEFINE p == NormalizeApiPath(q.path)
<1>1. q.path \in Seq(Range(q.path))
  BY QueryAssumption
<1>2. /\ p # Refused /\ p # Root /\ ~Forbidden(p)
      /\ Resolve(q.path) = Relative(p)
  BY DEF Resolve, ResolveReadPath
<1>3. p = ApiPath(Relative(p)) /\ Walk(q.path) = Tail(Split(p))
  BY <1>1, <1>2, NormalFacts
<1> HIDE DEF p
<1> QED
  BY <1>2, <1>3

LEMMA NamedAlways == Spec => [](QueryInv /\ ShapeInv /\ FoundInv /\ NamedInv)
<1>1. Init => QueryInv /\ ShapeInv /\ FoundInv /\ NamedInv
  BY InitQueries, ShapeInit, FoundInit, NamedInit
<1>2. QueryInv /\ ShapeInv /\ FoundInv /\ NamedInv /\ [Next]_vars =>
        (QueryInv /\ ShapeInv /\ FoundInv /\ NamedInv)'
  BY QueryInductive, ShapeInductive, FoundInductive, NamedInductive
<1> QED
  BY <1>1, <1>2, PTL DEF Spec

\* No answer, to whatever query, holds a file that is always blocked: not under a
\* path that is written in another way, and not under any choice of globs.
THEOREM NothingProtectedIsServed == Spec => []ServesNothingProtected
<1>1. QueryInv /\ ShapeInv /\ FoundInv /\ NamedInv => ServesNothingProtected
  <2> SUFFICES ASSUME QueryInv, ShapeInv, FoundInv, NamedInv, answer # None,
                      NEW i \in answer.infos
               PROVE  ~Protected(i.path)
    BY DEF ServesNothingProtected, AnsweredPaths
  <2> DEFINE f == i.path
  <2>1. query \in Queries /\ query # None
    BY QueryAssumption DEF ShapeInv
  <2>2. f \in Files /\ f \in Seq(Characters)
    BY PathsAreTexts DEF QueryInv, Seen
  <2> HIDE DEF f
  <2>3. ~Forbidden(ApiPath(f))
    <3>1. CASE query.path = None
      <4>1. <<globs, f>> \in Serves
        BY <3>1 DEF FoundInv, AskedFor, AskedBy, f
      <4>2. ResolveReadPath(ApiPath(f), globs) # Refused
        BY <4>1 DEF Serves
      <4>3. NormalizeApiPath(ApiPath(f)) = ApiPath(f)
        BY <2>2, TreeAssumption
      <4> QED
        BY <4>2, <4>3 DEF ResolveReadPath
    <3>2. CASE query.path # None
      <4>1. Resolve(query.path) # Refused /\ f = Resolve(query.path)
        BY <2>1, <3>2 DEF NamedInv, OfOne, f
      <4> QED
        BY <2>1, <3>2, <4>1, ResolvesToNamed
    <3> QED
      BY <3>1, <3>2
  <2> QED
    BY <2>2, <2>3, ProtectedIsForbidden DEF f
<1> QED
  BY <1>1, NamedAlways, PTL

\* The file that a query of one path answers is the one that the path leads to when
\* its parts are followed one by one, however many separators, dots and double dots
\* it is written with.
THEOREM NamedIsServed == Spec => []ServesWhatIsNamed
<1>1. QueryInv /\ ShapeInv /\ FoundInv /\ NamedInv => ServesWhatIsNamed
  <2> SUFFICES ASSUME ShapeInv, NamedInv, answer # None, query.path # None,
                      NEW i \in answer.infos
               PROVE  Walk(query.path) = Tail(Split(ApiPath(i.path)))
    BY DEF ServesWhatIsNamed, AnsweredPaths
  <2>1. query \in Queries /\ query # None
    BY QueryAssumption DEF ShapeInv
  <2>2. Resolve(query.path) # Refused /\ i.path = Resolve(query.path)
    BY <2>1 DEF NamedInv, OfOne
  <2> QED
    BY <2>1, <2>2, ResolvesToNamed
<1> QED
  BY <1>1, NamedAlways, PTL

-----------------------------------------------------------------------------
(* What a query of one path answers *)

\* Nothing was in the way of reading a file at any time of the query.
Readable(f) == f \in Files /\ held[f] \subseteq Contents \ (TooLarge \cup Binary)

\* A path that does not resolve is refused, and one that does is answered unless
\* a request failed or the file was not readable all the time.
ServedInv ==
  OfOne /\ answer # None =>
    /\ Resolve(query.path) = Refused => answer.status = "refused"
    /\ Resolve(query.path) # Refused /\ answer.status # "ok" =>
         disturbed \/ ~Readable(Resolve(query.path))

LEMMA ServedInit == Init => ServedInv
BY DEF Init, ServedInv, OfOne

\* A query of one path ends early, for a reason.
LEMMA ServedFails ==
  ASSUME NamedInv, OfOne, pc # "idle", UNCHANGED globs, NEW status, Fail(status),
         disturbed' \/ ~Readable(Resolve(query.path))'
  PROVE  ServedInv'
<1>1. query' = query /\ Resolve(query.path)' = Resolve(query.path)
  BY DEF Fail, Resolve
<1>2. Resolve(query.path) # Refused
  BY DEF NamedInv
<1> QED
  BY <1>1, <1>2 DEF ServedInv

\* A query of one path fails at its file because of what the file holds.
LEMMA ServedPathFails ==
  ASSUME NamedInv, QueryInv, ShapeInv, OfOne, pc # "idle", todo # <<>>, UNCHANGED <<globs, file, held>>,
         NEW status, PathFails(status) \/ Fail(status),
         Held(Head(todo)) \notin Contents \ (TooLarge \cup Binary)
  PROVE  ServedInv'
<1> DEFINE r == Resolve(query.path)
<1>1. strict /\ Fail(status)
  BY DEF PathFails, ShapeInv, OfOne
<1>2. Head(todo) = r
  <2>1. todo = <<r>>
    BY DEF NamedInv
  <2> HIDE DEF r
  <2> QED
    BY <2>1
<1>3. query' = query /\ r' = r
  BY <1>1 DEF Fail, Resolve
<1> HIDE DEF r
<1>4. ~Readable(r)
  BY <1>2 DEF Readable, QueryInv, Held
<1>5. ~Readable(r')
  BY <1>3, <1>4 DEF Readable
<1>6. ~Readable(Resolve(query.path))'
  BY <1>5 DEF Readable, r
<1> QED
  BY <1>1, <1>6, ServedFails

LEMMA ServedAsk ==
  ASSUME NEW q \in Queries, AskOne(q) \/ AskAll(q)
  PROVE  ServedInv'
<1>1. query' = q /\ UNCHANGED globs
  BY DEF AskOne, AskAll, Begin, world
<1>2. CASE AskAll(q)
  BY <1>1, <1>2 DEF AskAll, ServedInv, OfOne
<1>3. CASE AskOne(q)
  <2>1. Resolve(query.path)' = Resolve(q.path)
    BY <1>1 DEF Resolve
  <2>2. CASE Resolve(q.path) = Refused
    <3>1. answer'.status = "refused"
      BY <1>3, <2>2 DEF AskOne, End
    <3> QED
      BY <2>1, <2>2, <3>1 DEF ServedInv
  <2>3. CASE Resolve(q.path) # Refused
    BY <1>3, <2>3 DEF AskOne, ServedInv
  <2> QED
    BY <2>2, <2>3
<1> QED
  BY <1>2, <1>3

LEMMA ServedInductive ==
  QueryInv /\ ShapeInv /\ NamedInv /\ ServedInv /\ [Next]_vars => ServedInv'
<1> SUFFICES ASSUME QueryInv, ShapeInv, NamedInv, ServedInv, [Next]_vars PROVE ServedInv'
  OBVIOUS
<1>1. pc # "idle" /\ ~strict => ~OfOne
  BY DEF ShapeInv, OfOne
<1>2. ASSUME ~OfOne, UNCHANGED query PROVE ServedInv'
  BY <1>2 DEF ServedInv, OfOne
<1>3. ASSUME answer' = None PROVE ServedInv'
  BY <1>3 DEF ServedInv
<1>4. CASE \E q \in Queries : AskOne(q) \/ AskAll(q)
  BY <1>4, ServedAsk
<1>5. CASE GlobRefused \/ LiteralGlob \/ ListLocally \/ StartListing
  BY <1>1, <1>2, <1>5 DEF GlobRefused, LiteralGlob, ListLocally, StartListing, AtGlob
<1>6. CASE \/ ListFolder \/ NoFolder \/ FolderListed
           \/ \E x \in Files \cup Folders : NextName(x)
  <2>1. Listing /\ UNCHANGED query
    BY <1>6 DEF ListFolder, NoFolder, FolderListed, NextName, Listing
  <2>2. pc # "idle" /\ ~strict
    BY <2>1 DEF ShapeInv, Listing
  <2> QED
    BY <1>1, <1>2, <2>1, <2>2
<1>8. CASE Reads
  <2>1. pc # "idle" /\ todo # <<>> /\ answer = None /\ UNCHANGED <<globs, file, held>>
    BY <1>8, ReadsFacts DEF world, history, QueryInv, Reading
  <2>2. CASE UNCHANGED answer
    BY <1>3, <2>1, <2>2
  <2>3. CASE /\ \E status : PathFails(status) \/ Fail(status)
             /\ Held(Head(todo)) \notin Contents \ (TooLarge \cup Binary)
    <3>1. CASE OfOne
      BY <2>1, <2>3, <3>1, ServedPathFails
    <3>2. CASE ~OfOne
      <4>1. UNCHANGED query
        BY <2>3 DEF PathFails, Fail
      <4> QED
        BY <1>2, <3>2, <4>1
    <3> QED
      BY <3>1, <3>2
  <2> QED
    BY <1>8, <2>2, <2>3, ReadsFacts, ValueAssumption DEF Finds
<1>9. CASE StartReading
  BY <1>1, <1>2, <1>9 DEF StartReading, AtEnd
<1>10. CASE Finish
  <2>1. End("ok", found) /\ pc # "idle" /\ UNCHANGED <<query, globs>>
    BY <1>10 DEF Finish, AtEnd, world
  <2>2. OfOne' = OfOne /\ Resolve(query.path)' = Resolve(query.path)
    BY <2>1 DEF OfOne, Resolve
  <2>3. answer'.status = "ok"
    BY <2>1 DEF End
  <2>4. OfOne => Resolve(query.path) # Refused
    BY <2>1 DEF NamedInv
  <2> QED
    BY <2>2, <2>3, <2>4 DEF ServedInv
<1>11. CASE TransportFails
  <2>1. disturbed' = TRUE /\ UNCHANGED globs /\ pc # "idle"
    BY <1>11 DEF TransportFails, NextName, world
  <2>2. CASE \E x \in Files \cup Folders : NextName(x)
    BY <1>6, <2>2
  <2>3. CASE \E status : Fail(status) \/ PathFails(status)
    <3>1. UNCHANGED query
      BY <2>3 DEF PathFails, Fail
    <3>2. CASE ~OfOne
      BY <1>2, <3>1, <3>2
    <3>3. CASE OfOne
      <4>1. \E status : Fail(status)
        BY <1>1, <2>1, <2>3, <3>3 DEF PathFails
      <4> QED
        BY <2>1, <3>3, <4>1, ServedFails
    <3> QED
      BY <3>2, <3>3
  <2> QED
    BY <1>11, <2>2, <2>3 DEF TransportFails
<1>12. CASE \/ \E f \in Files, c \in HandEdits : Edit(f, c)
            \/ \E d \in Folders : RemoveFolder(d)
            \/ UNCHANGED vars
  <2>1. UNCHANGED <<globs, query, answer>>
    BY <1>12 DEF Edit, RemoveFolder, Unasked, vars, world
  <2>2. OfOne' = OfOne /\ Resolve(query.path)' = Resolve(query.path)
    BY <2>1 DEF OfOne, Resolve
  <2>3. disturbed => disturbed'
    BY <1>12 DEF Edit, RemoveFolder, vars, history
  <2>4. \A f \in Files : held[f] \subseteq held'[f]
    BY <1>12 DEF Edit, RemoveFolder, vars, history, QueryInv
  <2> DEFINE r == Resolve(query.path)
  <2>5. r' = r
    BY <2>2
  <2> HIDE DEF r
  <2>6. ~Readable(r) => ~Readable(r)'
    BY <2>4, <2>5 DEF Readable
  <2> QED
    BY <2>1, <2>2, <2>3, <2>6 DEF ServedInv, r
<1> QED
  BY <1>4, <1>5, <1>6, <1>8, <1>9, <1>10, <1>11, <1>12 DEF Next, Work, LookAt, Reads

\* A file matches a list of globs exactly if one stands for its path and neither
\* that one nor one before it is no /config path.
LEMMA GlobsStandForPaths ==
  ASSUME globs \in GlobChoices, NEW f \in Files
  PROVE  MatchesRead(ApiPath(f), globs)
           <=> \E i \in DOMAIN globs : /\ StandsFor(Normal[globs[i]], ApiPath(f))
                                      /\ \A j \in 1..i : Normal[globs[j]] # Refused
<1>1. ASSUME NEW g \in Range(globs)
      PROVE  /\ Normal[g] = NormalizeApiPath(g)
             /\ Normal[g] # Refused =>
                  (MatchesGlob(ApiPath(f), g) <=> StandsFor(Normal[g], ApiPath(f)))
  <2> DEFINE n == NormalizeApiPath(g)
             T == Range(g) \cup {"/"}
             U == Characters \cup {"/", "config"}
             p == ApiPath(f)
  <2>1. g \in AllGlobs
    BY DEF AllGlobs
  <2>2. Normal[g] = n
    BY <2>1 DEF Normal
  <2>3. g \in Seq(Range(g)) /\ Range(g) \cap Wild = {}
    BY <2>1, QueryAssumption
  <2>4. n # Refused => n \in Seq(T)
    BY <2>3, NormalText
  <2>5. Wild \cap T = {}
    BY <2>3 DEF Wild
  <2>6. p \in Seq(U)
    <3>1. f \in Seq(Characters)
      BY PathsAreTexts
    <3> QED
      BY <3>1, ApiPathFacts
  <2> HIDE DEF n, T, U, p
  <2>7. n # Refused => (FullMatch(GlobToRegex(n), p) <=> StandsFor(n, p))
    BY <2>4, <2>5, <2>6, MatchesWhatItStandsFor
  <2> QED
    BY <2>2, <2>7 DEF MatchesGlob, n, p
<1>2. DOMAIN globs = 1..Len(globs) /\ Len(globs) \in Nat
  <2>1. globs \in Seq(Range(globs))
    BY QueryAssumption
  <2> QED
    BY <2>1
<1>3. \A i \in DOMAIN globs : /\ globs[i] \in Range(globs) /\ i \in 1..i
                             /\ \A j \in 1..i : globs[j] \in Range(globs)
  BY <1>2 DEF Range
<1> QED
  BY <1>1, <1>3 DEF MatchesRead

\* A file named as it is called resolves exactly if it may be read.
LEMMA ResolvesIfMayBeRead ==
  ASSUME globs \in GlobChoices, NEW f \in Files
  PROVE  /\ MayBeRead(f) => Resolve(ApiPath(f)) = f /\ f # Refused
         /\ ~MayBeRead(f) => Resolve(ApiPath(f)) = Refused
<1> DEFINE p == ApiPath(f)
<1>1. f \in Seq(Characters) /\ f # <<>>
  BY PathsAreTexts
<1>2. Len(p) = Len(f) + 3 /\ Len(f) \in Nat /\ Len(f) # 0 /\ Relative(p) = f
  <2> DEFINE C == Characters
  <2>1. f \in Seq(C) /\ f # <<>>
    BY <1>1
  <2> HIDE DEF C, p
  <2>2. Len(f) \in Nat /\ Len(f) # 0
    BY <2>1
  <2>3. Len(p) = Len(f) + 3 /\ Relative(p) = f
    BY <2>1, ApiPathFacts DEF p
  <2> QED
    BY <2>2, <2>3
<1>3. NormalizeApiPath(p) = p
  BY TreeAssumption
<1> HIDE DEF p
<1>4. p # Refused /\ p # Root
  <2>1. Len(Refused) = 0 /\ Len(Root) = 2
    BY DEF Refused, Root
  <2>2. Len(p) # 0 /\ Len(p) # 2
    BY <1>2
  <2> QED
    BY <2>1, <2>2
<1>5. MayBeRead(f) <=> ~Forbidden(p) /\ MatchesRead(p, globs)
  BY GlobsStandForPaths DEF MayBeRead, p
<1>6. ResolveReadPath(p, globs) = IF MayBeRead(f) THEN p ELSE Refused
  BY <1>3, <1>4, <1>5 DEF ResolveReadPath
<1>7. /\ MayBeRead(f) => Resolve(p) = f
      /\ ~MayBeRead(f) => Resolve(p) = Refused
  BY <1>2, <1>4, <1>6 DEF Resolve
<1> QED
  BY <1>1, <1>7 DEF p, Refused

\* Under any globs, a file named as it is called is refused exactly if it is
\* forbidden or, part by part, its path is what none of them stands for that comes
\* before an entry that is no /config path; unless something was in the way of
\* reading it. So what _glob_to_regex makes of a glob, and normalize_api_path of a
\* path, is what a glob means.
THEOREM GlobsMeanTheirParts == Spec => []GlobsMatchByPart
<1>1. Init => ServedInv
  BY ServedInit
<1>2. QueryInv /\ ShapeInv /\ NamedInv /\ ServedInv => GlobsMatchByPart
  <2> SUFFICES ASSUME ShapeInv, ServedInv, answer # None, query.path # None,
                      NEW f \in Files, query.path = ApiPath(f)
               PROVE  /\ ~MayBeRead(f) => answer.status = "refused"
                      /\ /\ MayBeRead(f) /\ ~disturbed
                         /\ held[f] \subseteq Contents \ (TooLarge \cup Binary)
                         => answer.status = "ok"
    BY DEF GlobsMatchByPart
  <2>1. query # None /\ globs \in GlobChoices
    BY QueryAssumption DEF ShapeInv
  <2>2. /\ MayBeRead(f) => Resolve(query.path) = f /\ f # Refused
        /\ ~MayBeRead(f) => Resolve(query.path) = Refused
    BY <2>1, ResolvesIfMayBeRead
  <2> QED
    BY <2>1, <2>2 DEF ServedInv, OfOne, Readable
<1> QED
  BY <1>1, <1>2, NamedAlways, ServedInductive, PTL DEF Spec
=============================================================================
