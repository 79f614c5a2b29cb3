--------------------------- MODULE DraftProperties ---------------------------
(***************************************************************************)
(* What the draft workflow promises, and what its documents say it does.   *)
(***************************************************************************)
EXTENDS DraftWorkflow

AuditEntries ==
  {"apply_draft", "rollback_draft"} \X DraftIds \X {"ok", "failed"}

\* Every variable keeps its type: only create and update drafts are stored,
\* and a status is one of those the API documents (models/api_models.py).
TypeOK ==
  /\ file \in [Paths -> FileContents]
  /\ loaded \in [Paths -> FileContents]
  /\ late \in BOOLEAN
  /\ draft \in [DraftIds -> {w \in Rows : w.op # "delete"} \cup {None}]
  /\ status \in [DraftIds -> Statuses]
  /\ version \in [DraftIds -> FileContents \cup {None}]
  /\ backups \in [DraftIds -> SUBSET Contents]
  /\ audit \subseteq AuditEntries
  /\ settings \in Settings
  /\ pc \in [Requests -> Points]
  /\ job \in [Requests -> DraftIds \cup {None}]
  /\ input \in [Requests -> {w \in Rows : w.op # "delete"} \cup {None}]
  /\ seen \in [Requests -> FileContents \cup {None}]
  /\ loop \in Requests \cup {None}
  /\ edits \in Nat
  /\ crashes \in Nat

-----------------------------------------------------------------------------
(* Backups and versions *)

\* A draft that is applied or failed can be rolled back: there is a version
\* row for it, and the backup the row names was saved (apply_draft inserts the
\* row before it sets the status, and saves the backup before both).
RollbackSourceKept ==
  \A d \in DraftIds : status[d] \in {"applied", "failed"} => CanRestore(d)

\* The version a rollback would restore is the content the draft was made
\* from, which is also what its diff shows: the base of an update, no file for
\* a create.
VersionMatchesBase ==
  \A d \in DraftIds : version[d] # None => BaseHolds(draft[d], version[d])

\* Whoever overwrites a file through apply_draft has saved, for this draft,
\* exactly the content that is lost (docs/acceptance_criteria.md, item 6).
BackupBeforeOverwrite ==
  [][\A r \in Requests : pc[r] = "write" /\ pc'[r] = "written" =>
       LET lost == file[draft[job[r]].path]
       IN lost = Absent \/ lost \in backups[job[r]]]_vars

\* The file a draft is written to still is what the draft was made from
\* (docs/acceptance_criteria.md, item 7).
ApplyOnlyIfUnchanged ==
  [][\A r \in Requests : pc[r] = "write" /\ pc'[r] = "written" =>
       BaseHolds(draft[job[r]], file[draft[job[r]].path])]_vars

\* An apply makes no other change undone: it writes over what its draft was made
\* from, or over the content it brings (docs/acceptance_criteria.md:13, "Apply
\* succeeds only if the original file hash has not changed.").
AppliesLoseNoChange ==
  [][\A r \in Requests : pc[r] = "write" /\ pc'[r] = "written" =>
       LET w == draft[job[r]]
       IN BaseHolds(w, file[w.path]) \/ file[w.path] = w.proposed]_vars

-----------------------------------------------------------------------------
(* Policy *)

\* The proxy changes a file only in a process that is not read-only, and only
\* a file its write allowlist of that moment names, also when a draft or its
\* backup dates from a process with other settings.
PolicyBoundsEveryWrite ==
  [][edits' = edits =>
       \A p \in Paths : file'[p] # file[p] =>
         ~settings.readonly /\ p \in settings.writable]_vars

-----------------------------------------------------------------------------
(* Outcomes *)

\* An "ok" in the audit log stands for something that happened: the draft left
\* ready_for_approval, and what it replaced is on record.
AuditIsTruthful ==
  \A d \in DraftIds :
    /\ <<"apply_draft", d, "ok">> \in audit \/ <<"rollback_draft", d, "ok">> \in audit
         => status[d] \in {"applied", "failed", "rolled_back"} /\ CanRestore(d)
    /\ status[d] = "none" => \A e \in audit : e[2] # d

\* A draft that was rolled back stays so: only a draft that is ready for
\* approval can be applied (message of apply_draft, draft_service.py:204).
RolledBackIsFinal ==
  [][\A d \in DraftIds : status[d] = "rolled_back" => status'[d] = "rolled_back"]_vars

\* When an apply that wrote its file comes to an end the draft can be rolled
\* back, or was: it is not left ready_for_approval, which rollback_draft
\* refuses (docs/acceptance_criteria.md, item 9).
FinishedWriteIsRecoverable ==
  [][crashes' = crashes =>
       \A r \in Requests : pc[r] \in AppliedPoints /\ pc'[r] = "idle" =>
         status'[job[r]] \in {"applied", "failed", "rolled_back"}]_vars

\* When an apply that wrote its file comes to an end the audit log says how
\* (docs/acceptance_criteria.md, item 10).
FinishedWriteIsAudited ==
  [][crashes' = crashes =>
       \A r \in Requests : pc[r] \in AppliedPoints /\ pc'[r] = "idle" =>
         \E result \in {"ok", "failed"} :
           <<"apply_draft", job[r], result>> \in audit']_vars

\* Every request gets its answer (docs/security_policy.md: calls to Home
\* Assistant and to the file transport have timeouts).
RequestsEnd == \A r \in Requests : pc[r] # "idle" ~> pc[r] = "idle"

-----------------------------------------------------------------------------
(* The inductive invariant the proofs use *)

\* Points of a handler that works on a stored draft.
DraftPoints   == Points \ {"idle", "create"}
UncheckedFile == {"hash", "exists", "backup", "write"}

\* A draft has a row exactly when it has a status, and no version before.
RowInv ==
  \A d \in DraftIds :
    IF status[d] = "none" THEN draft[d] = None /\ version[d] = None
                          ELSE draft[d] \in Rows

\* What a handler works on. A create holds an identifier nobody else has.
JobInv ==
  \A r \in Requests :
    /\ pc[r] = "create" => /\ job[r] \in DraftIds
                          /\ status[job[r]] = "none"
                          /\ input[r] \in Rows
                          /\ \A s \in Requests : s # r => job[s] # job[r]
    /\ pc[r] \in DraftPoints => /\ job[r] \in DraftIds
                                /\ status[job[r]] # "none"

\* What a handler is about to record, or to restore, can be restored: there
\* was no file, or its content is backed up.
SeenInv ==
  \A r \in Requests : pc[r] \in {"write", "written", "restore"} =>
    seen[r] = Absent \/ seen[r] \in backups[job[r]]

\* The version row is there before anything that tells of a change.
RecordedInv ==
  /\ \A d \in DraftIds :
       status[d] \in {"applied", "failed", "rolled_back"} => CanRestore(d)
  /\ \A r \in Requests :
       /\ pc[r] \in AppliedPoints \ {"written"} => CanRestore(job[r])
       /\ pc[r] \in UndonePoints \cup {"restore", "created", "remove",
                                       "audit_applied", "audit_failed"} =>
            status[job[r]] \in {"applied", "failed", "rolled_back"}

\* A handler got past the guards of its mode and allowlist, and the settings
\* are those of then.
PolicyInv ==
  \A r \in Requests :
    /\ pc[r] \in UncheckedFile \cup {"restore", "created", "remove"} =>
         ~settings.readonly
    /\ pc[r] \in UncheckedFile \cup {"remove"} =>
         draft[job[r]].path \in settings.writable

IInv ==
  TypeOK /\ RowInv /\ JobInv /\ SeenInv /\ RecordedInv /\ PolicyInv
         /\ AuditIsTruthful

-----------------------------------------------------------------------------
(* What holds besides with the local backend, if nobody edits in the window *)

\* Points between the check of the base and the write.
Window == {"exists", "backup", "write"}

\* A handler at a file operation has the loop, and no other handler moves.
LoopInv ==
  \A r \in Requests :
    pc[r] \in FilePoints \cup {"written", "restored"} => loop = r

\* What was seen of a file in the window is still so.
WindowInv ==
  \A r \in Requests :
    LET w == draft[job[r]]
    IN /\ pc[r] \in {"hash", "backup"} => w.op = "update"
       /\ pc[r] = "exists" /\ w.op = "update" => BaseHolds(w, file[w.path])
       /\ pc[r] \in {"backup", "write"} => BaseHolds(w, file[w.path])
       /\ pc[r] = "write" => seen[r] = file[w.path]

\* What is about to be recorded or restored is what the draft was made from.
SourceInv ==
  \A r \in Requests :
    /\ pc[r] \in {"written", "restore"} => BaseHolds(draft[job[r]], seen[r])
    /\ pc[r] \in {"created", "remove"} => BaseHolds(draft[job[r]], Absent)

LocalInv == IInv /\ LoopInv /\ WindowInv /\ SourceInv /\ VersionMatchesBase

-----------------------------------------------------------------------------
(* What clients may do to be sure of more *)

\* After a write until the draft has its new status.
OpenPoints  == AppliedPoints \ {"audit_failed", "audit_applied"}

\* Points of an apply before the status is set.
ApplyPoints == {"hash"} \cup Window \cup OpenPoints

\* While an apply is open its file does not become what its draft was made from.
BaseStaysGone ==
  \A r \in Requests : pc[r] \in OpenPoints =>
    ~BaseHolds(draft[job[r]], file[draft[job[r]].path])

\* An apply, until it sets the status, works on a draft that is ready for
\* approval, and once it wrote it is the only one that does.
OneApplyInv ==
  \A r \in Requests :
    /\ pc[r] \in ApplyPoints => status[job[r]] = "ready_for_approval"
    /\ pc[r] \in OpenPoints =>
         \A s \in Requests : pc[s] \in OpenPoints /\ job[s] = job[r] => s = r

-----------------------------------------------------------------------------
(* The abstract workflow this one implements *)

\* The draft's content is in its file, or was: a version row says so, or the
\* handler that wrote it is about to insert one.
Changed(d) ==
  \/ version[d] # None
  \/ \E r \in Requests : job[r] = d /\ pc[r] = "written"

Abstract == INSTANCE ConfigChange WITH
  Drafts <- DraftIds,
  row <- draft,
  changed <- [d \in DraftIds |-> Changed(d)]

\* With the local backend, and nobody editing between the checks of a handler
\* and its write, applying a draft is one compare-and-swap of its file.
ImplementsConfigChange == Abstract!Spec
=============================================================================
