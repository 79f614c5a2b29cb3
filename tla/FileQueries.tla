----------------------------- MODULE FileQueries -----------------------------
(***************************************************************************)
(* Listing, searching and reading the files the proxy may show             *)
(* (services/file_service.py, over a backend of services/file_backends.py) *)
(* while others change them. A query changes nothing, so one at a time is  *)
(* enough. A point is a request of the backend: the check of a file before *)
(* its stat and before its read, and the stat and the read themselves,     *)
(* which follow a link; to list, one request per folder and per name, in   *)
(* the order the server has. A path below the root is a text without       *)
(* "/config/" before it, <<>> is the root.                                 *)
(***************************************************************************)
EXTENDS FilePolicy, FiniteSets

CONSTANTS
  Files, Folders, \* paths of the files and folders that may exist
  Ranking,        \* Files in alphabetical order
  Contents,       \* what a file may hold
  TooLarge,       \* the contents over the size limit
  Binary,         \* the contents that are not UTF-8
  Lines,          \* how many lines of a content match what is searched
  Absent, Link,   \* there is no such file, or a symbolic link
  None,           \* no value
  SearchLimit,    \* MAX_SEARCH_MATCHES
  Local,          \* the backend is the local one
  GlobChoices,    \* values of allowed_read_globs
  Queries,        \* queries that are asked
  HandEdits,      \* what an edit outside the proxy may leave in a file
  Faults,         \* kinds of faults that occur
  MaxEdits        \* bound on the edits and removed folders

Values == Contents \cup {Absent, Link}

InfoType == [path : Files, sized : Contents, content : Contents]

Statuses == {"ok", "refused", "not_found", "too_large", "failed", "error"}

AnswerType == [status : Statuses, infos : SUBSET InfoType,
               hits : Seq([path : Files, line : Nat])]

\* A file or folder x lies below folder d.
Below(x, d) == d = <<>> \/ IsPrefix(Slashed(d), x)

\* _parent_relative_path
Parent(x) == IF Contains(x, "/") THEN BeforeLastSlash(x) ELSE <<>>

\* What FilePolicy says of the globs and files, as tables: the folder listed for a
\* glob, whether a file matches it and, under all globs, resolves.
AllGlobs == UNION {Range(gs) : gs \in GlobChoices}
Normal   == [g \in AllGlobs |-> NormalizeApiPath(g)]
Listed   == [g \in AllGlobs |-> ListedFolder(Normal[g])]
Matches  == UNION {{<<g, f>> : f \in {f \in Files : MatchesGlob(ApiPath(f), g)}}
                     : g \in AllGlobs}
Serves   == UNION {{<<gs, f>> : f \in {f \in Files : ResolveReadPath(ApiPath(f), gs) # Refused}}
                     : gs \in GlobChoices}

ASSUME ValueAssumption ==
  /\ Absent \notin Contents /\ Link \notin Contents /\ Absent # Link
  /\ None \notin Contents
  /\ TooLarge \subseteq Contents /\ Binary \subseteq Contents
  /\ Lines \in [Contents -> Nat]
  /\ HandEdits \subseteq Values
  /\ SearchLimit \in Nat \ {0} /\ MaxEdits \in Nat
  /\ Local \in BOOLEAN /\ Faults \subseteq {"transport"}

\* Globs and the paths that are asked are texts. A list is never asked of one path,
\* and a path is always given for a read.
ASSUME QueryAssumption ==
  /\ \A gs \in GlobChoices : gs \in Seq(Range(gs))
  /\ \A g \in AllGlobs : g \in Seq(Range(g)) /\ Range(g) \cap Wild = {}
  /\ None \notin Queries
  /\ \A q \in Queries :
       /\ q.kind \in {"list", "search", "read", "metadata"}
       /\ q.kind = "list" => q.path = None
       /\ q.kind \in {"read", "metadata"} => q.path # None
       /\ q.path # None => q.path \in Seq(Range(q.path))

\* Paths are texts, Folders holds every folder above a file, and Ranking each
\* file once. The name of a file has no backslash: normalize_api_path takes one for
\* a slash.
ASSUME TreeAssumption ==
  /\ \A x \in Files \cup Folders : x \in Seq(Range(x))
  /\ Files \cap Folders = {} /\ <<>> \notin Files \cup Folders
  /\ \A f \in Files : NormalizeApiPath(ApiPath(f)) = ApiPath(f)
  /\ \A f \in Files : \A i \in DOMAIN f : f[i] = "/" => SubSeq(f, 1, i - 1) \in Folders
  /\ Ranking \in Seq(Files) /\ Range(Ranking) = Files
  /\ \A r, q \in DOMAIN Ranking : Ranking[r] = Ranking[q] => r = q

VARIABLES
  file,      \* what is at each path
  folders,   \* the folders there are
  globs,     \* settings.allowed_read_globs
  pc,        \* what the query does next
  query,     \* the query that is asked, or None
  left,      \* globs it has yet to expand
  at,        \* the folder to be listed next
  scan,      \* names still to look at, of each folder being listed
  names,     \* files listed so far
  todo,      \* paths to take the metadata or content of
  strict,    \* an error about one of them ends the query
  sized,     \* the content whose size was taken
  found,     \* metadata and contents so far
  answer,    \* what the query answers
  held,      \* history: what each file held since the query was asked
  disturbed, \* history: since then a request failed or a folder went
  edits      \* edits so far

world == <<file, folders, globs, edits>>
history == <<held, disturbed>>
listing == <<left, at, scan, names>>
vars == <<world, pc, query, listing, todo, strict, sized, found, answer, history>>

Ancestors(x) == {d \in Folders : Below(x, d)}

Exists(x) == IF x \in Files THEN file[x] # Absent ELSE x \in folders

Init ==
  /\ file \in [Files -> HandEdits]
  /\ folders \in SUBSET Folders
  /\ \A x \in Files \cup Folders : Exists(x) => Ancestors(x) \subseteq folders
  /\ globs \in GlobChoices
  /\ pc = "idle" /\ query = None /\ answer = None
  /\ left = <<>> /\ at = <<>> /\ scan = <<>> /\ names = <<>>
  /\ todo = <<>> /\ strict = FALSE /\ sized = None /\ found = {}
  /\ held = [f \in Files |-> {file[f]}]
  /\ disturbed = FALSE /\ edits = 0

-----------------------------------------------------------------------------
(* Asking and answering *)

\* resolve_read_path, the path relative to the root; the backend turns the
\* root itself down.
Resolve(raw) ==
  LET p == ResolveReadPath(raw, globs)
  IN IF p \in {Refused, Root} THEN Refused ELSE Relative(p)

Held(f) == IF f \in Files THEN file[f] ELSE Absent

\* Variant: the limit is compared before a hit is added.
CutAfter(hits) ==
  IF Len(hits) > SearchLimit + 1 THEN SubSeq(hits, 1, SearchLimit + 1) ELSE hits

Cut(hits) == IF Len(hits) > SearchLimit THEN SubSeq(hits, 1, SearchLimit) ELSE hits

\* Hits in a file, if it was found, and in the files found by their paths.
HitsIn(infos, f) ==
  IF \E i \in infos : i.path = f
    THEN LET i == CHOOSE i \in infos : i.path = f
         IN [k \in 1..Lines[i.content] |-> [path |-> f, line |-> k]]
    ELSE <<>>

AllHits(infos) == FlattenSeq([r \in DOMAIN Ranking |-> HitsIn(infos, Ranking[r])])

HitsOf(infos) == Cut(AllHits(infos))

\* Variant: what a query found is kept for the next one.
Keep(infos) == infos

\* Each query starts with nothing found.
Forget(infos) == {}

End(status, infos) ==
  /\ pc' = "idle"
  /\ answer' = [status |-> status, infos |-> infos,
                hits |-> IF query'.kind = "search" THEN HitsOf(infos) ELSE <<>>]
  /\ left' = <<>> /\ at' = <<>> /\ scan' = <<>> /\ names' = <<>>
  /\ todo' = <<>> /\ strict' = FALSE /\ sized' = None
  /\ found' = Forget(infos)

Fail(status) ==
  /\ query' = query
  /\ End(status, {})

Begin(q) ==
  /\ pc = "idle"
  /\ query' = q
  /\ held' = [f \in Files |-> {file[f]}]
  /\ disturbed' = FALSE
  /\ UNCHANGED world

\* A query of one path: read_file, get_metadata, search_files with a path.
AskOne(q) ==
  /\ Begin(q)
  /\ q.path # None
  /\ LET p == Resolve(q.path)
     IN IF p = Refused THEN End("refused", {})
        ELSE /\ pc' = "files"
             /\ todo' = <<p>>
             /\ strict' = TRUE
             /\ answer' = None
             /\ UNCHANGED <<listing, sized, found>>

\* list_files, and search_files without a path.
AskAll(q) ==
  /\ Begin(q)
  /\ q.path = None
  /\ IF q.prefix # <<>> /\ NormalizePrefix(q.prefix) = Refused
       THEN End("refused", {})
       ELSE /\ pc' = "files"
            /\ left' = globs
            /\ answer' = None
            /\ UNCHANGED <<at, scan, names, todo, strict, sized, found>>

-----------------------------------------------------------------------------
(* Expanding a glob (_iter_matching_api_paths) *)

UnderPrefix(f) ==
  query.prefix # <<>> => IsPrefix(NormalizePrefix(query.prefix), ApiPath(f))

\* The listed names that match the glob, resolve and start with the prefix.
Wanted(listed, glob) ==
  Only(listed, {f \in Files : <<glob, f>> \in Matches /\ <<globs, f>> \in Serves /\ UnderPrefix(f)})

TakeNames(listed) ==
  /\ todo' = Wanted(listed, Head(left))
  /\ left' = Tail(left)
  /\ pc' = "files"
  /\ at' = <<>> /\ scan' = <<>> /\ names' = <<>>

AtGlob ==
  /\ pc = "files" /\ todo = <<>> /\ ~strict
  /\ left # <<>>
  /\ UNCHANGED <<world, query, strict, sized, history>>

Glob == Normal[Head(left)]

GlobRefused ==
  /\ AtGlob
  /\ Glob = Refused
  /\ End("refused", {})

LiteralGlob ==
  /\ AtGlob
  /\ Glob # Refused
  /\ ~IsPattern(Glob)
  /\ TakeNames(<<Relative(Glob)>>)
  /\ UNCHANGED <<found, answer>>

\* list_files of the local backend never suspends. The order does not matter.
ListLocally ==
  /\ AtGlob
  /\ Local /\ IsPattern(Glob)
  /\ TakeNames(Only(Ranking, {f \in Files : /\ file[f] \in Contents
                                           /\ Below(f, Listed[Head(left)])}))
  /\ UNCHANGED <<found, answer>>

StartListing ==
  /\ AtGlob
  /\ ~Local /\ IsPattern(Glob)
  /\ pc' = "listdir"
  /\ at' = Listed[Head(left)]
  /\ UNCHANGED <<left, scan, names, todo, found, answer>>

\* Variant: the rest of the folder above is forgotten.
Replace(children) == <<children>>

\* The names of a folder are looked at before the rest of the one above.
Push(children) == <<children>> \o scan

ListFolder ==
  /\ pc = "listdir"
  /\ at \in folders \cup {<<>>}
  /\ pc' = "lstat"
  /\ scan' = Push({x \in Files \cup Folders : Exists(x) /\ Parent(x) = at})
  /\ UNCHANGED <<world, query, left, at, names, todo, strict, sized, found,
                 answer, history>>

\* A folder that is not there, the first or one below, leaves nothing listed.
NoFolder ==
  /\ pc = "listdir"
  /\ at \notin folders \cup {<<>>}
  /\ TakeNames(<<>>)
  /\ UNCHANGED <<world, query, strict, sized, found, answer, history>>

\* Takes a name from those of the folder that is being listed.
NextName(x) ==
  /\ pc = "lstat"
  /\ scan # <<>>
  /\ x \in Head(scan)
  /\ scan' = [scan EXCEPT ![1] = @ \ {x}]
  /\ UNCHANGED <<world, query, left, todo, strict, sized, found, answer, held>>

\* Variant: what is no folder is a file.
NoFolderNow(x) == x \notin folders

Regular(x) == x \in Files /\ Held(x) \in Contents

LookAt(x) ==
  /\ NextName(x)
  /\ IF x \in folders THEN pc' = "listdir" /\ at' = x
                      ELSE UNCHANGED <<pc, at>>
  /\ names' = IF Regular(x) THEN Append(names, x) ELSE names
  /\ UNCHANGED disturbed

FolderListed ==
  /\ pc = "lstat"
  /\ scan # <<>>
  /\ Head(scan) = {}
  /\ IF Len(scan) > 1
       THEN scan' = Tail(scan) /\ UNCHANGED <<pc, left, at, names, todo>>
       ELSE TakeNames(names)
  /\ UNCHANGED <<world, query, strict, sized, found, answer, history>>

-----------------------------------------------------------------------------
(* Metadata and contents *)

\* Variant: list_files ends with the first error.
AnyPathFails(status) == Fail(status)


\* An ApiError about the path: list_files goes on without it.
PathFails(status) ==
  IF strict THEN Fail(status)
  ELSE /\ pc' = "files"
       /\ todo' = Tail(todo)
       /\ sized' = None
       /\ UNCHANGED <<query, listing, strict, found, answer>>

\* Variant: only a search compares the size.
LimitedInSearch == strict /\ query.kind = "search"

\* read_file compares the size, get_metadata_for_resolved does not.
Limited == strict /\ query.kind # "metadata"

\* The file of the path is there and is no link. lstat and realpath are one
\* observation: a link that comes between them is as one that comes before, if it
\* leads out of the root, or after.
Check(next) ==
  /\ todo # <<>>
  /\ LET c == Held(Head(todo))
     IN IF c \notin Contents THEN PathFails(IF c = Link THEN "refused" ELSE "not_found")
        ELSE /\ pc' = next
             /\ UNCHANGED <<query, listing, todo, strict, sized, found, answer>>
  /\ UNCHANGED <<world, history>>

CheckStat == pc = "files" /\ Check("stat")

CheckRead == pc = "read" /\ Check("open")

\* What stat and open find: a link that came after the check leads anywhere.
Opened(f) == IF Held(f) = Link THEN Contents \cup {Absent} ELSE {Held(f)}

Stat ==
  /\ pc = "stat"
  /\ \E c \in Opened(Head(todo)) :
       IF c = Absent THEN PathFails("not_found")
       ELSE IF Limited /\ c \in TooLarge THEN PathFails("too_large")
       ELSE /\ pc' = "read"
            /\ sized' = c
            /\ UNCHANGED <<query, listing, todo, strict, found, answer>>
  /\ UNCHANGED <<world, history>>

\* UnicodeDecodeError is no ApiError and ends any query.
ReadText ==
  /\ pc = "open"
  /\ \E c \in Opened(Head(todo)) :
       IF c = Absent THEN PathFails("not_found")
       ELSE IF c \in Binary THEN Fail("error")
       ELSE /\ pc' = "files"
            /\ todo' = Tail(todo)
            /\ sized' = None
            /\ found' = {i \in found : i.path # Head(todo)}
                          \cup {[path |-> Head(todo), sized |-> sized, content |-> c]}
            /\ UNCHANGED <<query, listing, strict, answer>>
  /\ UNCHANGED <<world, history>>

AtEnd ==
  /\ pc = "files" /\ todo = <<>> /\ left = <<>>
  /\ UNCHANGED <<world, query, history>>

\* search_files reads what list_files returned.
StartReading ==
  /\ AtEnd
  /\ ~strict /\ query.kind = "search"
  /\ strict' = TRUE
  /\ todo' = Only(Ranking, {i.path : i \in found})
  /\ found' = {}
  /\ UNCHANGED <<pc, listing, sized, answer>>

Finish ==
  /\ AtEnd
  /\ strict \/ query.kind = "list"
  /\ End("ok", found)

-----------------------------------------------------------------------------
(* Faults and the world outside *)

\* A request fails or times out. Only the answer about one name of a folder
\* is passed over in silence, and the error about one path of a list.
TransportFails ==
  /\ "transport" \in Faults /\ ~Local
  /\ \/ /\ \/ pc \in {"listdir", "lstat"} /\ Fail("failed")
           \/ pc \in {"stat", "read", "open"} /\ PathFails("failed")
           \/ pc = "files" /\ todo # <<>> /\ PathFails("failed")
        /\ UNCHANGED <<world, held>>
     \/ \E x \in Files \cup Folders : NextName(x) /\ UNCHANGED <<pc, at, names>>
  /\ disturbed' = TRUE

Unasked == UNCHANGED <<globs, pc, query, listing, todo, strict, sized, found, answer>>

Edit(f, c) ==
  /\ edits < MaxEdits
  /\ c # file[f]
  /\ file' = [file EXCEPT ![f] = c]
  /\ folders' = IF c = Absent THEN folders ELSE folders \cup Ancestors(f)
  /\ held' = [held EXCEPT ![f] = @ \cup {c}]
  /\ edits' = edits + 1
  /\ UNCHANGED disturbed
  /\ Unasked

RemoveFolder(d) ==
  /\ edits < MaxEdits
  /\ d \in folders
  /\ \A x \in Files \cup Folders : Exists(x) => Parent(x) # d
  /\ folders' = folders \ {d}
  /\ disturbed' = TRUE
  /\ edits' = edits + 1
  /\ UNCHANGED <<file, held>>
  /\ Unasked

Work == \/ GlobRefused \/ LiteralGlob \/ ListLocally \/ StartListing
        \/ ListFolder \/ NoFolder
        \/ \E x \in Files \cup Folders : LookAt(x)
        \/ FolderListed
        \/ CheckStat \/ Stat \/ CheckRead \/ ReadText \/ StartReading \/ Finish

Next == \/ \E q \in Queries : AskOne(q) \/ AskAll(q)
        \/ Work
        \/ TransportFails
        \/ \E f \in Files, c \in HandEdits : Edit(f, c)
        \/ \E d \in Folders : RemoveFolder(d)

Spec == Init /\ [][Next]_vars

FairSpec == Spec /\ WF_vars(Work)

-----------------------------------------------------------------------------
(* Properties *)

TypeOK ==
  /\ file \in [Files -> Values] /\ folders \subseteq Folders
  /\ globs \in GlobChoices
  /\ pc \in {"idle", "files", "stat", "read", "open", "listdir", "lstat"}
  /\ query \in Queries \cup {None}
  /\ names \in Seq(Files) /\ strict \in BOOLEAN
  /\ at \in Folders \cup Range(Listed) \cup {<<>>}
  /\ \A i \in DOMAIN scan : scan[i] \subseteq Files \cup Folders
  /\ sized \in Contents \cup {None}
  /\ found \subseteq InfoType
  /\ answer \in AnswerType \cup {None}
  /\ held \in [Files -> SUBSET Values] /\ disturbed \in BOOLEAN
  /\ edits \in 0..MaxEdits

Answered(kind, status) ==
  pc = "idle" /\ answer # None /\ query.kind = kind /\ answer.status = status

AnsweredPaths == {i.path : i \in answer.infos}

\* A glob of the query asks for a file, and the file may be read.
AskedBy(g, f) == <<g, f>> \in Matches /\ <<globs, f>> \in Serves /\ UnderPrefix(f)

AskedFor == {f \in Files : \E g \in Range(globs) : AskedBy(g, f)}

\* A file that a list should name. A question mark before the first star of a
\* glob is an exception: it is taken for the name of a folder.
Listable(f) == \E g \in Range(globs) : AskedBy(g, f) /\ ~Contains(Base(Normal[g]), "?")

\* All that a query asked was answered by the same files.
Unchanged == ~disturbed /\ \A f \in Files : Cardinality(held[f]) = 1

\* A list names every file that was there all the time, whatever else came,
\* went or changed meanwhile: list_files passes over errors, and the listing of
\* folders that change under it (services/file_backends.py, _list_files_recursive)
\* may not skip one that stays.
ListingIsComplete ==
  Answered("list", "ok") /\ ~disturbed =>
    \A f \in Files : Listable(f) /\ held[f] \subseteq Contents => f \in AnsweredPaths

\* Hits come in the order of the paths, those of a file in the order of lines.
Rank(f) == SelectInSeq(Ranking, LAMBDA x : x = f)

Before(h, k) == Rank(h.path) < Rank(k.path) \/ (h.path = k.path /\ h.line < k.line)

HitsAmong(paths) ==
  UNION {{[path |-> f, line |-> k] : k \in 1..Lines[file[f]]}
           : f \in {f \in paths : file[f] \in Contents}}

\* A search of files that do not change finds the first hits by path and line,
\* as many as MAX_SEARCH_MATCHES, and each once, though several globs match.
SearchIsExact ==
  Answered("search", "ok") /\ query.path = None /\ Unchanged =>
    LET given == Range(answer.hits)
        missed == HitsAmong({f \in Files : Listable(f)}) \ given
    IN /\ given \subseteq HitsAmong(AskedFor)
       /\ Len(answer.hits) <= SearchLimit
       /\ missed = {} \/ Cardinality(given) = SearchLimit
       /\ \A i, j \in DOMAIN answer.hits : i < j => Before(answer.hits[i], answer.hits[j])
       /\ \A h \in given, k \in missed : Before(h, k)

\* A search of all files or a list fails only for a cause: a request that
\* failed, a file listed that changed before it was read, one that is too large
\* or no UTF-8, or that a link took the place of.
FailsForCause ==
  /\ pc = "idle" /\ answer # None /\ query.path = None /\ ~disturbed
  /\ answer.status \notin {"ok", "refused"}
  => \E f \in Files :
       /\ <<globs, f>> \in Serves
       /\ \/ held[f] \cap Binary # {}
          \/ Link \in held[f] /\ held[f] \cap Contents # {}
          \/ query.kind = "search" /\ held[f] \cap TooLarge # {}
          \/ query.kind = "search" /\ Cardinality(held[f]) > 1

\* The limit is compared with a size taken before the content is read: what is
\* served was within it at some time during the query, unless a link took the
\* place of the file between a check and the stat or the read that follows it.
LimitWasKept ==
  \A k \in {"read", "search"} : Answered(k, "ok") =>
    \A i \in answer.infos :
      Link \in held[i.path] \/ held[i.path] \cap (Contents \ TooLarge) # {}

\* Size, time, hash and content of an answer are those of contents that the
\* file had during the query, though they were taken one after the other, and none
\* of an earlier query. A file that was a link meanwhile is an exception: a link
\* that comes after the check is followed (services/file_backends.py, _read_text).
AnswersWereTrue ==
  pc = "idle" /\ answer # None =>
    \A i \in answer.infos :
      Link \in held[i.path] \/ {i.sized, i.content} \subseteq held[i.path]

\* A path that docs/security_policy.md always blocks is never answered.
ServesNothingProtected ==
  pc = "idle" /\ answer # None =>
    \A f \in AnsweredPaths : ~Protected(f)

\* A path, however it is written, names the file that following its parts one
\* by one leads to: it is that file or none that is served.
ServesWhatIsNamed ==
  pc = "idle" /\ answer # None /\ query.path # None =>
    \A f \in AnsweredPaths : Walk(query.path) = Tail(Split(ApiPath(f)))

\* A path is not forbidden, and a glob stands for it before one is no /config path.
MayBeRead(f) ==
  /\ ~Forbidden(ApiPath(f))
  /\ \E i \in DOMAIN globs : /\ StandsFor(Normal[globs[i]], ApiPath(f))
                             /\ \A j \in 1..i : Normal[globs[j]] # Refused

\* A file named as it is called is refused if it may not be read, and only then,
\* unless it was missing, a link or unreadable at some time or a request failed.
\* Whether it may be read is a matter of the parts of its path and of the globs.
GlobsMatchByPart ==
  pc = "idle" /\ answer # None /\ query.path # None =>
    \A f \in Files : query.path = ApiPath(f) =>
      /\ ~MayBeRead(f) => answer.status = "refused"
      /\ /\ MayBeRead(f) /\ ~disturbed
         /\ held[f] \subseteq Contents \ (TooLarge \cup Binary)
         => answer.status = "ok"

=============================================================================
