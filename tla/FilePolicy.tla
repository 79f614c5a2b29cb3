------------------------------ MODULE FilePolicy ------------------------------
(***************************************************************************)
(* Which paths may be read (services/file_policy.py). A text is a sequence *)
(* of tokens: a separator, a dot, a wildcard, another character, or a word *)
(* (one of Words), which stands for several characters that a path and a   *)
(* glob only ever have as a whole. A path is written "/" before each of    *)
(* its parts. Refused stands for the ApiError a function raises.           *)
(***************************************************************************)
EXTENDS Naturals, SequencesExt

CONSTANT Words   \* tokens of more than one character

ASSUME WordAssumption == Words \cap {"/", "\\", ".", "*", "?", "["} = {}

Refused == <<>>
Dot == <<".">>
DotDot == <<".", ".">>

\* CONFIG_PREFIX
Root == <<"/", "config">>

Slashed(s) == Append(s, "/")

\* The elements of a sequence that are in a set, in their order.
Only(s, set) ==
  FlattenSeq([i \in DOMAIN s |-> IF s[i] \in set THEN <<s[i]>> ELSE <<>>])

Without(s, set) == Only(s, Range(s) \ set)

\* The pieces of a text between slashes, the empty ones included, and the
\* text of pieces.
Split(s) ==
  FoldLeft(LAMBDA pieces, c :
             IF c = "/" THEN Append(pieces, <<>>)
                        ELSE Append(Front(pieces), Append(Last(pieces), c)),
           << <<>> >>, s)

Join(pieces) ==
  Tail(FlattenSeq([i \in DOMAIN pieces |-> <<"/">> \o pieces[i]]))

Forward(s) == ReplaceAll(s, "\\", "/")

\* Two leading slashes, but not three, are another root than one.
Lead(s) ==
  IF IsPrefix(<<"/", "/">>, s) /\ ~IsPrefix(<<"/", "/", "/">>, s) THEN <<"/", "/">>
  ELSE IF IsPrefix(<<"/">>, s) THEN <<"/">> ELSE <<>>

\* Variant: ".." goes too.
PosixWithoutUp(s) ==
  LET parts == Without(Split(s), {<<>>, Dot, DotDot})
  IN IF parts = <<>> THEN Lead(s) ELSE Lead(s) \o Join(parts)

\* PurePosixPath(s).as_posix(): empty parts and "." go, ".." stays.
Posix(s) ==
  LET parts == Without(Split(s), {<<>>, Dot})
  IN IF parts = <<>> THEN Lead(s) ELSE Lead(s) \o Join(parts)

\* normalize_api_path
NormalizeApiPath(raw) ==
  LET p == Posix(Forward(raw))
  IN IF \/ p = Root
        \/ IsPrefix(Slashed(Root), p) /\ ~Contains(Split(p), DotDot)
       THEN p ELSE Refused

\* A prefix that is not given, or empty, is <<>> and restricts nothing.
NormalizePrefix(raw) ==
  LET p == NormalizeApiPath(raw)
  IN IF p = Refused THEN Refused ELSE Slashed(p)

-----------------------------------------------------------------------------
(* Forbidden paths *)

\* PurePosixPath(...).suffix of a name
Suffix(name) ==
  LET i == SelectLastInSeq(name, LAMBDA c : c = ".")
  IN IF 1 < i /\ i < Len(name) THEN SubSeq(name, i, Len(name)) ELSE <<>>

HiddenFolders == {<<".", "storage">>, <<"backups">>, <<"ssl">>}

\* Variant: only the name of the file is looked at.
ForbiddenByName(p) ==
  LET name == Last(Split(p))
  IN \/ name = <<"secrets", ".", "yaml">> \/ Head(name) = "."
     \/ Suffix(name) \in {<<".", "db">>, <<".", "DB">>}

\* reject_forbidden
Forbidden(p) ==
  LET parts == Tail(Split(p))
  IN \/ Last(parts) = <<"secrets", ".", "yaml">>
     \/ \E i \in DOMAIN parts : Head(parts[i]) = "."
     \/ \E i \in 1..(Len(parts) - 1) : parts[i] \in HiddenFolders
     \/ Suffix(Last(parts)) \in {<<".", "db">>, <<".", "DB">>}

-----------------------------------------------------------------------------
(* Globs *)

\* The pieces of an expression that stand for other characters.
Wild == {".*", "[^/]*", "[^/]"}

\* Variant: a star may match separators.
AnyStarRegex(g) == ReplaceAll(g, "*", ".*")

\* _glob_to_regex: the pieces of the expression; a character stands for itself.
GlobToRegex(g) ==
  LET from[i \in 1..(Len(g) + 1)] ==
        IF i > Len(g) THEN <<>>
        ELSE IF i < Len(g) /\ SubSeq(g, i, i + 1) = <<"*", "*">> THEN <<".*">> \o from[i + 2]
        ELSE <<IF g[i] = "*" THEN "[^/]*" ELSE IF g[i] = "?" THEN "[^/]" ELSE g[i]>>
             \o from[i + 1]
  IN from[1]

\* The characters that a star matches, and that another piece does.
StarTakes(r, c) == r = ".*" \/ c # "/"
PieceTakes(r, c) == IF r = "[^/]" THEN c \notin Words \cup {"/"} ELSE r = c

\* re.fullmatch
FullMatch(regex, s) ==
  LET from[x \in (1..(Len(regex) + 1)) \X (1..(Len(s) + 1))] ==
        LET i == x[1]
            j == x[2]
        IN IF i > Len(regex) THEN j > Len(s)
           ELSE IF regex[i] \in {".*", "[^/]*"}
             THEN \/ from[<<i + 1, j>>]
                  \/ /\ j <= Len(s)
                     /\ StarTakes(regex[i], s[j])
                     /\ from[<<i, j + 1>>]
             ELSE /\ j <= Len(s)
                  /\ PieceTakes(regex[i], s[j])
                  /\ from[<<i + 1, j + 1>>]
  IN from[<<1, 1>>]

MatchesGlob(p, glob) == FullMatch(GlobToRegex(NormalizeApiPath(glob)), p)

\* matches_read: globs are tried in turn, and one that is no /config path is
\* an error when its turn comes.
MatchesRead(p, gs) ==
  \E i \in DOMAIN gs :
    /\ MatchesGlob(p, gs[i])
    /\ \A j \in 1..i : NormalizeApiPath(gs[j]) # Refused

ResolveReadPath(raw, gs) ==
  LET p == NormalizeApiPath(raw)
  IN IF p # Refused /\ ~Forbidden(p) /\ MatchesRead(p, gs) THEN p ELSE Refused

-----------------------------------------------------------------------------
(* Paths below the root *)

\* _to_resolved_path and relative_to_api_path
Relative(p) ==
  IF IsPrefix(Slashed(Root), p) THEN SubSeq(p, Len(Root) + 2, Len(p)) ELSE p

ApiPath(f) == Slashed(Root) \o f

\* A name without wildcards is no pattern (_iter_matching_api_paths).
IsPattern(g) == \E i \in DOMAIN g : g[i] \in {"*", "?", "["}

BeforeLastSlash(s) ==
  LET i == SelectLastInSeq(s, LAMBDA c : c = "/")
  IN IF i = 0 THEN s ELSE SubSeq(s, 1, i - 1)

\* Variant: everything before the first star.
BaseToStar(g) == SubSeq(g, 1, SelectInSeq(g, LAMBDA c : c = "*") - 1)

\* What is listed for a pattern: the folder before the first star. Other
\* wildcards may be in its name.
Base(g) ==
  LET star == SelectInSeq(g, LAMBDA c : c = "*")
  IN BeforeLastSlash(IF star = 0 THEN g ELSE SubSeq(g, 1, star - 1))

\* resolve_prefix: the same relative to the root, <<>> for the root.
ListedFolder(g) == IF Base(g) = Root THEN <<>> ELSE Relative(Base(g))

-----------------------------------------------------------------------------
(* What these definitions are compared with *)

\* Where a path leads when its parts are followed one by one.
Walk(raw) ==
  FoldLeft(LAMBDA at, w :
             IF w \in {<<>>, Dot} THEN at
             ELSE IF w = DotDot THEN (IF at = <<>> THEN at ELSE Front(at))
             ELSE Append(at, w),
           <<>>, Split(Forward(raw)))

\* The paths that docs/security_policy.md, lines 38 to 44, says are always blocked.
\* That a file is binary (line 45) or a link (51) is no matter of its path.
Protected(f) ==
  LET parts == Split(f)
  IN \/ f = <<"secrets", ".", "yaml">>
     \/ Len(parts) > 1 /\ Head(parts) \in HiddenFolders
     \/ IsSuffix(<<".", "db">>, f)
     \/ \E i \in DOMAIN parts : IsPrefix(Dot, parts[i])

\* A name and a pattern of one part: the name can be cut so that each piece of
\* the pattern has its share.
PartMatches(name, pattern) ==
  \E cut \in [1..(Len(pattern) + 1) -> 1..(Len(name) + 1)] :
    /\ cut[1] = 1 /\ cut[Len(pattern) + 1] = Len(name) + 1
    /\ \A i \in DOMAIN pattern :
         IF pattern[i] = "*" THEN cut[i] <= cut[i + 1]
         ELSE /\ cut[i + 1] = cut[i] + 1
              /\ \/ pattern[i] = name[cut[i]]
                 \/ pattern[i] = "?" /\ name[cut[i]] \notin Words

\* A path matches part by part.
MatchesByPart(p, g) ==
  LET names == Split(p)
      patterns == Split(g)
  IN /\ Len(names) = Len(patterns)
     /\ \A i \in DOMAIN names : PartMatches(names[i], patterns[i])

\* A star in a row of stars.
InRow(g, i) ==
  g[i] = "*" /\ \/ i > 1 /\ g[i - 1] = "*"
                \/ i < Len(g) /\ g[i + 1] = "*"

\* Parts of any name, with k slashes between them.
AnyParts(k) == [i \in 1..(2 * k + 1) |-> IF i % 2 = 1 THEN "*" ELSE "/"]

\* What a glob stands for, character by character: a row of stars is up to n + 1
\* parts, or pieces of them.
Readings(g, n) ==
  LET upto[i \in 0..Len(g)] ==
        IF i = 0 THEN {<<>>}
        ELSE IF ~InRow(g, i) THEN {Append(r, g[i]) : r \in upto[i - 1]}
        ELSE IF i > 1 /\ g[i - 1] = "*" THEN upto[i - 1]
        ELSE {r \o AnyParts(k) : r \in upto[i - 1], k \in 0..n}
  IN upto[Len(g)]

\* A path is what a glob stands for.
StandsFor(g, p) == \E r \in Readings(g, Len(p)) : MatchesByPart(p, r)
=============================================================================
