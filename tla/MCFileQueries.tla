---------------------------- MODULE MCFileQueries ----------------------------
(***************************************************************************)
(* Small instances of the file queries for TLC: many paths and globs over  *)
(* files that do not change, and a few files that do.                      *)
(***************************************************************************)
EXTENDS FileQueries

CONSTANTS A, Big, Raw   \* contents

SomeWords == {"config", "packages", "ai", "yaml", "secrets", "storage", "backups",
              "ssl", "db", "DB", "main", "configs"}

\* Parts, and texts of several parts.
Named(a, ext) == <<a, ".", ext>>
In(folder, name) == Slashed(folder) \o name
Under(glob) == ApiPath(glob)

Packages == <<"packages">>
Ai == In(Packages, <<"ai">>)
Main == Named("main", "yaml")
Star == <<"*">>
StarStar == <<"*", "*">>
AnyYaml == <<"*", ".", "yaml">>

LineCounts == (A :> 2) @@ (Big :> 1) @@ (Raw :> 0)

NoLines == [c \in Contents |-> 0]

Ask(kind, path, prefix) == [kind |-> kind, path |-> path, prefix |-> prefix]

-----------------------------------------------------------------------------
(* Files that change *)

AiFile == In(Ai, Named("a", "yaml"))
PackagesFile == In(Packages, Named("b", "yaml"))

TwoFiles == <<AiFile, PackagesFile>>
TwoFilesSet == Range(TwoFiles)
TwoFolders == {Packages, Ai}

\* Globs that overlap, one of them a name.
SomeGlobs == {<<Under(In(Packages, StarStar)), Under(AiFile), Under(In(Ai, AnyYaml))>>}

SomeQueries == {Ask("list", None, <<>>), Ask("search", None, <<>>),
                Ask("read", Under(AiFile), <<>>), Ask("metadata", Under(AiFile), <<>>)}

AllValues == {A, Big, Raw, Absent, Link}

Transport == {"transport"}
NoFaults == {}

-----------------------------------------------------------------------------
(* Files that do not change, and every way to name them *)

ManyFiles ==
  << In(<<".", "storage">>, <<"a">>), In(<<"backups">>, Main), Main, Named("a", "db"),
     In(<<"ai">>, Main), In(Ai, Named("a", "yaml")), In(Ai, In(<<"b">>, Main)),
     In(Packages, Main), In(Packages, In(<<"ssl">>, Main)),
     Named("secrets", "yaml"), In(<<"ssl">>, <<"a">>) >>

ManyFilesSet == Range(ManyFiles)

ManyFolders == {<<".", "storage">>, <<"backups">>, <<"ai">>, Packages, Ai, In(Ai, <<"b">>),
                In(Packages, <<"ssl">>), <<"ssl">>}

SomeTexts ==
  {Star, StarStar, AnyYaml, In(StarStar, Main), Main, Named("secrets", "yaml"),
   In(Star, Main), In(Packages, StarStar), In(Ai, <<"?", ".", "yaml">>), In(Ai, Star),
   In(Packages, In(Star, Star)), In(Packages, In(StarStar, AnyYaml)), In(Ai, <<"a", "*">>),
   Slashed(Packages) \o StarStar \o AnyYaml, In(Packages, In(<<"[", "a", "]">>, Star))}

BadGlobs == {<<"/", "configs", "/", "*">>, <<"*">>, Under(In(DotDot, Star))}

ManyGlobs ==
  {<<Under(g)>> : g \in SomeTexts}
    \cup {<<Under(g), b>> : g \in {Main, AnyYaml}, b \in BadGlobs}
    \cup {<<b, Under(Main)>> : b \in BadGlobs}

\* A path written in other ways.
Written(p) ==
  {p, ReplaceAll(p, "/", "\\"), Slashed(p), <<"/">> \o p, <<"/", "/">> \o p,
   Root \o DotDot \o p, Root \o <<"/">> \o p, Root \o <<"/", ".">> \o SubSeq(p, 3, Len(p)),
   Root \o <<"/", "ai", "/", ".", ".">> \o SubSeq(p, 3, Len(p)), Tail(p)}

ManyQueries ==
  {Ask("read", w, <<>>) : w \in UNION {Written(Under(f)) : f \in ManyFilesSet}}
    \cup {Ask("list", None, x) : x \in {<<>>, Root, Under(<<"ai">>), Under(Packages), <<"ai">>}}
    \cup {Ask("read", Root, <<>>)}
=============================================================================
