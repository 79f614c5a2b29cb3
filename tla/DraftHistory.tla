----------------------------- MODULE DraftHistory -----------------------------
(***************************************************************************)
(* The draft workflow with a memory of what files held, for what it says   *)
(* of the configuration that Home Assistant loads: the files change while  *)
(* an apply waits for Home Assistant, and a reload may come late.          *)
(***************************************************************************)
EXTENDS DraftProperties

VARIABLES
  since,  \* what the file of its draft has held since a handler wrote it
  news    \* files changed since a handler was told the configuration is valid

hvars == <<vars, since, news>>

\* Between the answer of the check and that of the reload.
CheckToReload == {"valid", "reload"}

HInit ==
  /\ Init
  /\ since = [r \in Requests |-> {}]
  /\ news = [r \in Requests |-> {}]

HNext ==
  /\ Next
  /\ since' = [r \in Requests |->
                 IF pc'[r] \in AppliedPoints
                   THEN since[r] \cup {file'[draft[job[r]].path]} ELSE {}]
  /\ news' = [r \in Requests |->
                IF pc'[r] \in CheckToReload
                  THEN news[r] \cup {p \in Paths : file'[p] # file[p]} ELSE {}]

HSpec == HInit /\ [][HNext]_hvars

-----------------------------------------------------------------------------
(* Properties *)

\* What an apply asks Home Assistant to load is what its check has accepted: a
\* rejected content is in a file only if another handler or an edit put it there
\* after that answer. apply_draft reads the answer before it goes on to the
\* reload, and checks nothing again in between.
ReloadsOnlyCheckedConfig ==
  \A r \in Requests : pc[r] = "reload" =>
    \A p \in Paths : file[p] \in Rejected => p \in news[r]

\* When an apply is found successful Home Assistant runs with a content that its
\* file has held since the apply wrote it, be it from this reload, from that of
\* another handler or from one that comes late (docs/acceptance_criteria.md:14,
\* "A correct reload is performed after a successful apply.").
AppliedIsLoaded ==
  \A r \in Requests : pc[r] \in {"reloaded", "audit_applied"} =>
    loaded[draft[job[r]].path] \in since[r]
=============================================================================
