--------------------------- MODULE MCDraftWorkflow ---------------------------
(***************************************************************************)
(* Small instances of the draft workflow for TLC.                          *)
(***************************************************************************)
EXTENDS DraftProperties, TLC

CONSTANTS p1, p2, A, B, C

Symmetry == Permutations(Requests) \cup Permutations(DraftIds)

Create(p, c)    == [path |-> p, op |-> "create", base |-> None, proposed |-> c]
Update(p, b, c) == [path |-> p, op |-> "update", base |-> Hash(b), proposed |-> c]
Delete(p, b)    == [path |-> p, op |-> "delete", base |-> Hash(b), proposed |-> b]
NoBase(p, c)    == [path |-> p, op |-> "update", base |-> None, proposed |-> c]

\* A create, an update, and the reverse of the update.
CyclicRequests == {Create(p1, A), Update(p1, A, B), Update(p1, B, A)}

\* No sequence of these brings a file back to what it held before.
AcyclicRequests == {Create(p1, A), Update(p1, A, B)}

\* Two updates of the same content.
RivalRequests == {Update(p1, A, B), Update(p1, A, C)}

\* Besides, C is too big and not YAML: a draft that starts from it, and bodies
\* that create_draft turns down.
DubiousRequests ==
  CyclicRequests \cup {Update(p1, C, A), Create(p1, C), Delete(p1, A), NoBase(p1, A)}

Setting(ro, w, rl) == [readonly |-> ro, writable |-> w, reload |-> rl]

UsualSettings == {Setting(FALSE, Paths, TRUE)}

\* The allowlists narrowed, or read-only mode turned on, between two runs.
AllSettings ==
  {Setting(FALSE, Paths, TRUE), Setting(FALSE, Paths, FALSE),
   Setting(TRUE, Paths, TRUE), Setting(FALSE, {p2}, TRUE)}

EveryContent == FileContents
SomeEdits    == {B, Absent}

Nowhere == {}

NoFaults        == {}
AllFaults       == FaultKinds
\* Right after a write or a restore: where SQLite may refuse a statement as well.
AmbiguousWrites == {"ambiguous"}
\* Errors the handler answers itself, or that come before it wrote anything.
ErrorAnswers    == {"transport", "ha", "slow"}
=============================================================================
