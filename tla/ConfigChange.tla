----------------------------- MODULE ConfigChange -----------------------------
(***************************************************************************)
(* What the draft workflow is for: a proposal is made against a file as it *)
(* is, the file takes the proposed content only while it still is so (a    *)
(* compare-and-swap), and a change that was made can be taken back to what *)
(* the proposal started from. Handlers, backups, statuses, Home Assistant  *)
(* and restarts are left to the specification that implements this one.    *)
(***************************************************************************)
EXTENDS Naturals

CONSTANTS Drafts, Paths, FileContents, Rows, None, BaseHolds(_, _)

VARIABLES
  file,     \* the configuration files
  row,      \* the proposals
  changed,  \* whether a proposal's change is known to have been made
  edits     \* changes made by others

abstractVars == <<file, row, changed, edits>>

Init ==
  /\ file \in [Paths -> FileContents]
  /\ row = [d \in Drafts |-> None]
  /\ changed = [d \in Drafts |-> FALSE]
  /\ edits = 0

\* A proposal starts from what the file holds.
Propose(d, w) ==
  /\ row[d] = None
  /\ BaseHolds(w, file[w.path])
  /\ row' = [row EXCEPT ![d] = w]
  /\ UNCHANGED <<file, changed, edits>>

\* The file is swapped if it still holds that.
Apply(d) ==
  /\ row[d] # None
  /\ BaseHolds(row[d], file[row[d].path])
  /\ file' = [file EXCEPT ![row[d].path] = row[d].proposed]
  /\ changed' = [changed EXCEPT ![d] = TRUE]
  /\ UNCHANGED <<row, edits>>

\* Whatever the file holds by now, what the proposal started from comes back.
Restore(d) ==
  /\ changed[d]
  /\ \E c \in FileContents :
       /\ BaseHolds(row[d], c)
       /\ file' = [file EXCEPT ![row[d].path] = c]
  /\ UNCHANGED <<row, changed, edits>>

\* A failure before the change is on record.
Forget(d) ==
  /\ changed[d]
  /\ changed' = [changed EXCEPT ![d] = FALSE]
  /\ UNCHANGED <<file, row, edits>>

\* Others change files as they like, and nobody else's change passes for one.
Edit(p, c) ==
  /\ file' = [file EXCEPT ![p] = c]
  /\ edits' = edits + 1
  /\ UNCHANGED <<row, changed>>

Next ==
  \/ \E d \in Drafts, w \in Rows : Propose(d, w)
  \/ \E d \in Drafts : Apply(d) \/ Restore(d) \/ Forget(d)
  \/ \E p \in Paths, c \in FileContents : Edit(p, c)

Spec == Init /\ [][Next]_abstractVars
=============================================================================
