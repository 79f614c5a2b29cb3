---------------------------- MODULE DraftWorkflow ----------------------------
(***************************************************************************)
(* The draft workflow of the proxy (services/draft_service.py): a draft    *)
(* proposes new content for one configuration file, applying it writes the *)
(* file after a backup, asks Home Assistant to check and reload its        *)
(* configuration and records the outcome, rolling it back restores what    *)
(* the file held before.                                                   *)
(*                                                                         *)
(* The service is one asyncio process. A handler runs without interruption *)
(* until it awaits something that suspends: every call to Home Assistant   *)
(* does, a file operation does with the SFTP backend and does not with the *)
(* local one (Yields). An action is one stretch of a handler between two   *)
(* points where another handler, a hand edit, an error or the end of the   *)
(* process can come in; `loop` holds the handler that still has the event  *)
(* loop at such a point. A request that is turned down before it changes   *)
(* anything is no step.                                                    *)
(***************************************************************************)
EXTENDS Naturals

CONSTANTS
  Requests,         \* request handlers that may run at once
  DraftIds,         \* identifiers uuid4 may return
  Paths,            \* configuration files
  Contents,         \* file contents
  Malformed,        \* contents that are not YAML
  TooBig,           \* contents over max_file_size_kb
  Rejected,         \* contents Home Assistant's check_config refuses
  Absent,           \* there is no such file
  None,             \* no value (NULL, no handler, no row)
  CreateRequests,   \* bodies of POST /drafts/create
  SettingsChoices,  \* configurations the process may be started with
  Yields,           \* TRUE: SFTP backend, FALSE: local backend
  HandEdits,        \* what an edit outside the proxy may leave in a file
  HandsOff,         \* no such edit while a handler is at one of these points
  Faults,           \* kinds of errors that occur
  MaxEdits,         \* bound on the edits
  MaxCrashes        \* bound on the restarts

\* SHA-256, taken to be injective.
Hash(c) == <<"sha256", c>>

FileContents == Contents \cup {Absent}

Rows ==
  [path : Paths, op : {"create", "update", "delete"},
   base : {Hash(c) : c \in Contents} \cup {None}, proposed : Contents]

Settings == [readonly : BOOLEAN, writable : SUBSET Paths, reload : BOOLEAN]

Statuses == {"none", "ready_for_approval", "applied", "failed", "rolled_back"}

FaultKinds == {"transport", "ambiguous", "store", "ha", "slow", "garbled"}

ASSUME ValueAssumption ==
  /\ Absent \notin Contents
  /\ None \notin FileContents \cup DraftIds \cup Requests \cup Rows
  /\ None \notin {Hash(c) : c \in Contents}

ASSUME DataAssumption ==
  /\ Malformed \subseteq Contents
  /\ TooBig \subseteq Contents
  /\ Rejected \subseteq Contents
  /\ CreateRequests \subseteq Rows
  /\ HandEdits \subseteq FileContents
  /\ SettingsChoices \subseteq Settings

ASSUME BoundAssumption ==
  /\ Yields \in BOOLEAN
  /\ Faults \subseteq FaultKinds
  /\ MaxEdits \in Nat
  /\ MaxCrashes \in Nat

VARIABLES
  file,      \* the configuration files
  loaded,    \* the contents Home Assistant runs with
  late,      \* a reload whose caller gave up has yet to happen
  draft,     \* rows of the table drafts ...
  status,    \* ... and their column status
  version,   \* what the latest row of file_versions for a draft restores
  backups,   \* contents under backup_root/<draft id>
  audit,     \* rows of audit_logs
  settings,  \* the settings of the running process
  pc,        \* where each request handler is
  job,       \* the draft it works on
  input,     \* the body of a create request
  seen,      \* the content an apply replaces or a rollback restores
  loop,      \* the handler holding the event loop, if one does
  edits,     \* edits so far
  crashes    \* restarts so far

ha      == <<loaded, late>>
tables  == <<draft, status, version, audit>>
locals  == <<job, input, seen>>
bounds  == <<edits, crashes>>
vars    == <<file, loaded, late, draft, status, version, backups, audit,
             settings, pc, job, input, seen, loop, edits, crashes>>

\* Points at which a file operation is outstanding, and those after a write.
FilePoints   == {"create", "hash", "exists", "backup", "write",
                 "restore", "created", "remove"}
AppliedPoints == {"written", "check", "valid", "reload", "refused", "reloaded",
                 "audit_failed", "audit_applied"}
UndonePoints == {"restored", "audit_rolled_back"}
Points       == {"idle"} \cup FilePoints \cup AppliedPoints \cup UndonePoints

-----------------------------------------------------------------------------
(* What the services decide *)

\* DraftValidationService.validate_proposed_content
ValidProposed(w) ==
  /\ w.path \in settings.writable
  /\ w.proposed \notin TooBig \cup Malformed

\* FileService.read_writable_file returns the content: it is there, not too big
Readable(c) == c \in Contents \ TooBig

\* validate_draft: the file still has the hash the draft was made from
HashMatches(w, c) == Hash(c) = w.base

\* create_draft: the file is as the request says it is
BaseHolds(w, c) ==
  IF w.op = "create" THEN c = Absent ELSE Readable(c) /\ HashMatches(w, c)

\* Variant: any draft but an applied or failed one may be applied.
MayApplyAgain(d) == ~settings.readonly /\ status[d] \notin {"none", "applied", "failed"}

\* apply_draft, rollback_draft: mode and status allow it
MayApply(d) == ~settings.readonly /\ status[d] = "ready_for_approval"

MayRollback(d) == ~settings.readonly /\ status[d] \in {"applied", "failed"}

\* _latest_file_version and read_backup find what to restore
CanRestore(d) == version[d] = Absent \/ version[d] \in backups[d]

ConfigValid == \A p \in Paths : file[p] \notin Rejected

-----------------------------------------------------------------------------
(* How a handler moves *)

Free(r) == loop \in {None, r}

\* Awaiting a file operation lets go of the loop with the SFTP backend only.
FileAwait(r) == IF Yields THEN None ELSE r

Resume(r, point, holder) ==
  /\ Free(r)
  /\ pc' = [pc EXCEPT ![r] = point]
  /\ loop' = holder

Begin(r, d, point) ==
  /\ pc[r] = "idle"
  /\ loop = None
  /\ Resume(r, point, FileAwait(r))
  /\ job' = [job EXCEPT ![r] = d]

Finish(r) ==
  /\ Resume(r, "idle", None)
  /\ job' = [job EXCEPT ![r] = None]
  /\ input' = [input EXCEPT ![r] = None]
  /\ seen' = [seen EXCEPT ![r] = None]

Log(action, d, result) == audit' = audit \cup {<<action, d, result>>}

Init ==
  /\ file \in [Paths -> FileContents]
  /\ loaded = file
  /\ late = FALSE
  /\ draft = [d \in DraftIds |-> None]
  /\ status = [d \in DraftIds |-> "none"]
  /\ version = [d \in DraftIds |-> None]
  /\ backups = [d \in DraftIds |-> {}]
  /\ audit = {}
  /\ settings \in SettingsChoices
  /\ pc = [r \in Requests |-> "idle"]
  /\ job = [r \in Requests |-> None]
  /\ input = [r \in Requests |-> None]
  /\ seen = [r \in Requests |-> None]
  /\ loop = None
  /\ edits = 0
  /\ crashes = 0

-----------------------------------------------------------------------------
(* POST /drafts/create *)

\* create_draft up to its file operation. The identifier it draws later is
\* chosen here; nobody knows it before the row is there.
CreateStart(r, d, w) ==
  /\ status[d] = "none"
  /\ \A s \in Requests : job[s] # d
  /\ w.op # "delete"
  /\ w.op = "update" => w.base # None
  /\ ValidProposed(w)
  /\ Begin(r, d, "create")
  /\ input' = [input EXCEPT ![r] = w]
  /\ UNCHANGED <<file, ha, tables, backups, settings, seen, bounds>>

\* The file is looked at, and the row inserted if the draft starts from it.
CreateFinish(r) ==
  /\ pc[r] = "create"
  /\ IF BaseHolds(input[r], file[input[r].path])
       THEN /\ draft' = [draft EXCEPT ![job[r]] = input[r]]
            /\ status' = [status EXCEPT ![job[r]] = "ready_for_approval"]
       ELSE UNCHANGED <<draft, status>>
  /\ Finish(r)
  /\ UNCHANGED <<file, ha, version, audit, backups, settings, bounds>>

-----------------------------------------------------------------------------
(* POST /drafts/{id}/apply *)

\* The guards of apply_draft and the part of validate_draft that needs no file.
ApplyStart(r, d) ==
  /\ MayApply(d)
  /\ IF ValidProposed(draft[d])
       THEN /\ Begin(r, d, IF draft[d].op = "update" THEN "hash" ELSE "exists")
            /\ UNCHANGED audit
       ELSE /\ pc[r] = "idle" /\ loop = None
            /\ Log("apply_draft", d, "failed")
            /\ UNCHANGED <<pc, job, loop>>
  /\ UNCHANGED <<file, ha, draft, status, version, backups, settings,
                 input, seen, bounds>>

\* Variant: the hash is not compared.
SkipHash(r) ==
  /\ pc[r] = "hash"
  /\ Resume(r, "exists", FileAwait(r))
  /\ UNCHANGED <<file, ha, tables, backups, settings, locals, bounds>>

\* validate_draft compares the hash of an update's file with its base_hash.
CheckHash(r) ==
  LET d == job[r]
      c == file[draft[d].path]
  IN /\ pc[r] = "hash"
     /\ IF Readable(c) /\ HashMatches(draft[d], c)
          THEN /\ Resume(r, "exists", FileAwait(r))
               /\ UNCHANGED <<audit, locals>>
          ELSE /\ IF Readable(c) THEN Log("apply_draft", d, "failed")
                                 ELSE UNCHANGED audit
               /\ Finish(r)
     /\ UNCHANGED <<file, ha, draft, status, version, backups, settings, bounds>>

\* Variant: a create overwrites a file that is there by now.
OverwriteExisting(r) ==
  LET existed == file[draft[job[r]].path] # Absent
  IN /\ pc[r] = "exists"
     /\ Resume(r, IF existed THEN "backup" ELSE "write", FileAwait(r))
     /\ seen' = [seen EXCEPT ![r] = Absent]
     /\ UNCHANGED <<file, ha, tables, backups, settings, job, input, bounds>>

\* A create needs the file to be missing, an update needs it to be there.
CheckExists(r) ==
  LET w == draft[job[r]]
      existed == file[w.path] # Absent
  IN /\ pc[r] = "exists"
     /\ \/ /\ existed /\ w.op = "update"
           /\ Resume(r, "backup", FileAwait(r))
           /\ UNCHANGED locals
        \/ /\ ~existed /\ w.op = "create"
           /\ Resume(r, "write", FileAwait(r))
           /\ seen' = [seen EXCEPT ![r] = Absent]
           /\ UNCHANGED <<job, input>>
        \/ /\ existed <=> w.op = "create"
           /\ Finish(r)
     /\ UNCHANGED <<file, ha, tables, backups, settings, bounds>>

\* Variant: the content is read, and kept nowhere.
SaveNoBackup(r) ==
  /\ pc[r] = "backup"
  /\ Resume(r, "write", FileAwait(r))
  /\ seen' = [seen EXCEPT ![r] = file[draft[job[r]].path]]
  /\ UNCHANGED <<file, ha, tables, backups, settings, job, input, bounds>>

\* The file is read again, and what this read returns is backed up.
SaveBackup(r) ==
  LET d == job[r]
      c == file[draft[d].path]
  IN /\ pc[r] = "backup"
     /\ IF Readable(c)
          THEN /\ backups' = [backups EXCEPT ![d] = @ \cup {c}]
               /\ seen' = [seen EXCEPT ![r] = c]
               /\ Resume(r, "write", FileAwait(r))
               /\ UNCHANGED <<job, input>>
          ELSE Finish(r) /\ UNCHANGED backups
     /\ UNCHANGED <<file, ha, tables, settings, bounds>>

\* The write takes effect; ValidProposed found the path writable.
WriteFile(r) ==
  LET w == draft[job[r]]
  IN /\ pc[r] = "write"
     /\ file' = [file EXCEPT ![w.path] = w.proposed]
     /\ Resume(r, "written", FileAwait(r))
     /\ UNCHANGED <<ha, tables, backups, settings, locals, bounds>>

\* Variant: file_versions gets no row.
RecordNoVersion(r) ==
  /\ pc[r] = "written"
  /\ Resume(r, "check", None)
  /\ UNCHANGED <<file, ha, tables, backups, settings, locals, bounds>>

\* INSERT INTO file_versions, and the validation after the write.
RecordVersion(r) ==
  /\ pc[r] = "written"
  /\ version' = [version EXCEPT ![job[r]] = seen[r]]
  /\ IF ValidProposed(draft[job[r]]) THEN Resume(r, "check", None)
                                     ELSE Resume(r, "refused", r)
  /\ UNCHANGED <<file, ha, draft, status, audit, backups, settings, locals,
                 bounds>>

\* Variant: the result of the check is not looked at.
IgnoreCheck(r) ==
  /\ pc[r] = "check"
  /\ pc' = [pc EXCEPT ![r] = "valid"]
  /\ UNCHANGED <<file, ha, tables, backups, settings, locals, loop, bounds>>

\* Home Assistant answers check_config, about all of its configuration.
HaCheck(r) ==
  /\ pc[r] = "check"
  /\ \/ /\ ConfigValid
        /\ pc' = [pc EXCEPT ![r] = "valid"]
        /\ UNCHANGED <<locals, loop>>
     \/ /\ ~ConfigValid \/ "ha" \in Faults
        /\ pc' = [pc EXCEPT ![r] = "refused"]
        /\ UNCHANGED <<locals, loop>>
     \/ /\ "garbled" \in Faults  \* not JSON: no ApiError, nothing is recorded
        /\ Finish(r)
  /\ UNCHANGED <<file, ha, tables, backups, settings, bounds>>

\* reload_after_apply, if homeassistant.reload_all is an allowed service.
StartReload(r) ==
  /\ pc[r] = "valid"
  /\ IF settings.reload THEN Resume(r, "reload", None)
                        ELSE Resume(r, "refused", r)
  /\ UNCHANGED <<file, ha, tables, backups, settings, locals, bounds>>

\* Variant: a timeout is taken for a slow success.
SlowIsReloaded(r) ==
  /\ pc[r] = "reload"
  /\ \/ /\ loaded' = file
        /\ pc' = [pc EXCEPT ![r] = "reloaded"]
        /\ UNCHANGED <<late, locals, loop>>
     \/ /\ "slow" \in Faults
        /\ late' = TRUE
        /\ pc' = [pc EXCEPT ![r] = "reloaded"]
        /\ UNCHANGED <<loaded, locals, loop>>
  /\ UNCHANGED <<file, tables, backups, settings, bounds>>

\* Home Assistant loads what the files hold when it gets to it.
HaReload(r) ==
  /\ pc[r] = "reload"
  /\ \/ /\ loaded' = file
        /\ pc' = [pc EXCEPT ![r] = "reloaded"]
        /\ UNCHANGED <<late, locals, loop>>
     \/ /\ \/ "ha" \in Faults /\ UNCHANGED late
           \/ "slow" \in Faults /\ late' = TRUE
        /\ pc' = [pc EXCEPT ![r] = "refused"]
        /\ UNCHANGED <<loaded, locals, loop>>
     \/ /\ "garbled" \in Faults
        /\ loaded' = file
        /\ Finish(r)
        /\ UNCHANGED late
  /\ UNCHANGED <<file, tables, backups, settings, bounds>>

\* Variants: a status the API does not know; no new status; no audit entry;
\* the check is tried again.
MarkUnknown(r) ==
  /\ pc[r] = "refused"
  /\ status' = [status EXCEPT ![job[r]] = "restart_required"]
  /\ Resume(r, "audit_failed", r)
  /\ UNCHANGED <<file, ha, draft, version, audit, backups, settings, locals,
                 bounds>>

MarkNothing(r) ==
  /\ pc[r] = "refused"
  /\ Resume(r, "audit_failed", r)
  /\ UNCHANGED <<file, ha, tables, backups, settings, locals, bounds>>

MarkFailedSilently(r) ==
  /\ pc[r] = "refused"
  /\ status' = [status EXCEPT ![job[r]] = "failed"]
  /\ Finish(r)
  /\ UNCHANGED <<file, ha, draft, version, audit, backups, settings, bounds>>

TryAgain(r) ==
  /\ pc[r] = "refused"
  /\ Resume(r, "check", None)
  /\ UNCHANGED <<file, ha, tables, backups, settings, locals, bounds>>

\* _mark_draft_failed, after any refusal that is an ApiError.
MarkFailed(r) ==
  /\ pc[r] = "refused"
  /\ status' = [status EXCEPT ![job[r]] = "failed"]
  /\ Resume(r, "audit_failed", r)
  /\ UNCHANGED <<file, ha, draft, version, audit, backups, settings, locals,
                 bounds>>

\* UPDATE drafts SET status = 'applied'.
MarkApplied(r) ==
  /\ pc[r] = "reloaded"
  /\ status' = [status EXCEPT ![job[r]] = "applied"]
  /\ Resume(r, "audit_applied", r)
  /\ UNCHANGED <<file, ha, draft, version, audit, backups, settings, locals,
                 bounds>>

-----------------------------------------------------------------------------
(* POST /drafts/{id}/rollback *)

\* The guards of rollback_draft; the backup is read.
RollbackStart(r, d) ==
  /\ MayRollback(d)
  /\ CanRestore(d)
  /\ Begin(r, d, IF version[d] = Absent THEN "created" ELSE "restore")
  /\ seen' = [seen EXCEPT ![r] = version[d]]
  /\ UNCHANGED <<file, ha, tables, backups, settings, input, bounds>>

\* Variant: the backup is written whatever the allowlist says by now.
RestoreAnywhere(r) ==
  /\ pc[r] = "restore"
  /\ file' = [file EXCEPT ![draft[job[r]].path] = seen[r]]
  /\ Resume(r, "restored", FileAwait(r))
  /\ UNCHANGED <<ha, tables, backups, settings, locals, bounds>>

\* The backup is written over whatever the file holds by now.
RestoreFile(r) ==
  LET p == draft[job[r]].path
  IN /\ pc[r] = "restore"
     /\ IF p \in settings.writable
          THEN /\ file' = [file EXCEPT ![p] = seen[r]]
               /\ Resume(r, "restored", FileAwait(r))
               /\ UNCHANGED locals
          ELSE Finish(r) /\ UNCHANGED file
     /\ UNCHANGED <<ha, tables, backups, settings, bounds>>

\* There may be no file left to remove.
CheckCreated(r) ==
  LET p == draft[job[r]].path
  IN /\ pc[r] = "created"
     /\ IF p \in settings.writable
          THEN /\ Resume(r, IF file[p] = Absent THEN "restored" ELSE "remove",
                         FileAwait(r))
               /\ UNCHANGED locals
          ELSE Finish(r)
     /\ UNCHANGED <<file, ha, tables, backups, settings, bounds>>

\* Deleting a file that is gone by now is an error.
RemoveFile(r) ==
  LET p == draft[job[r]].path
  IN /\ pc[r] = "remove"
     /\ IF file[p] # Absent
          THEN /\ file' = [file EXCEPT ![p] = Absent]
               /\ Resume(r, "restored", FileAwait(r))
               /\ UNCHANGED locals
          ELSE Finish(r) /\ UNCHANGED file
     /\ UNCHANGED <<ha, tables, backups, settings, bounds>>

\* UPDATE drafts SET status = 'rolled_back'.
MarkRolledBack(r) ==
  /\ pc[r] = "restored"
  /\ status' = [status EXCEPT ![job[r]] = "rolled_back"]
  /\ Resume(r, "audit_rolled_back", r)
  /\ UNCHANGED <<file, ha, draft, version, audit, backups, settings, locals,
                 bounds>>

-----------------------------------------------------------------------------
(* What apply and rollback share *)

AuditEntry ==
  [audit_failed      |-> <<"apply_draft", "failed">>,
   audit_applied     |-> <<"apply_draft", "ok">>,
   audit_rolled_back |-> <<"rollback_draft", "ok">>]

\* _record_audit, the last thing a handler does.
RecordAudit(r) ==
  /\ pc[r] \in DOMAIN AuditEntry
  /\ Log(AuditEntry[pc[r]][1], job[r], AuditEntry[pc[r]][2])
  /\ Finish(r)
  /\ UNCHANGED <<file, ha, draft, status, version, backups, settings, bounds>>

\* An exception nothing in the handler catches, by what raises it: a file
\* operation that did not take effect, one that did (a timeout after the
\* rename), or a statement SQLite refuses.
FailsAt ==
  [transport |-> FilePoints,
   ambiguous |-> {"written", "restored"},
   store     |-> {"written", "refused", "reloaded", "restored"}
                 \cup DOMAIN AuditEntry]

RequestFails(r) ==
  /\ \E f \in Faults \cap DOMAIN FailsAt : pc[r] \in FailsAt[f]
  /\ Finish(r)
  /\ UNCHANGED <<file, ha, tables, backups, settings, bounds>>

-----------------------------------------------------------------------------
(* What happens around the proxy *)

\* Somebody, or Home Assistant itself, edits a file.
Edit(p, c) ==
  /\ edits < MaxEdits
  /\ \A r \in Requests : pc[r] \notin HandsOff
  /\ file[p] # c
  /\ file' = [file EXCEPT ![p] = c]
  /\ edits' = edits + 1
  /\ UNCHANGED <<ha, tables, backups, settings, pc, locals, loop, crashes>>

\* A reload happens after its caller stopped waiting.
LateReload ==
  /\ late
  /\ loaded' = file
  /\ late' = FALSE
  /\ UNCHANGED <<file, tables, backups, settings, pc, locals, loop, bounds>>

\* The process ends and is started again, perhaps with other settings.
Crash ==
  /\ crashes < MaxCrashes
  /\ crashes' = crashes + 1
  /\ settings' \in SettingsChoices
  /\ \/ UNCHANGED late
     \/ (\E r \in Requests : pc[r] = "reload") /\ late' = TRUE
  /\ pc' = [r \in Requests |-> "idle"]
  /\ job' = [r \in Requests |-> None]
  /\ input' = [r \in Requests |-> None]
  /\ seen' = [r \in Requests |-> None]
  /\ loop' = None
  /\ UNCHANGED <<file, loaded, tables, backups, edits>>

-----------------------------------------------------------------------------

Start(r) ==
  \/ \E d \in DraftIds, w \in CreateRequests : CreateStart(r, d, w)
  \/ \E d \in DraftIds : ApplyStart(r, d)
  \/ \E d \in DraftIds : RollbackStart(r, d)

\* What asyncio, the file timeout and the timeout of the reload see to.
Work(r) ==
  \/ CreateFinish(r)
  \/ CheckHash(r) \/ CheckExists(r) \/ SaveBackup(r) \/ WriteFile(r)
  \/ RecordVersion(r) \/ StartReload(r) \/ HaReload(r)
  \/ MarkFailed(r) \/ MarkApplied(r)
  \/ RestoreFile(r) \/ CheckCreated(r) \/ RemoveFile(r) \/ MarkRolledBack(r)
  \/ RecordAudit(r)

Next ==
  \/ \E r \in Requests : Start(r) \/ Work(r) \/ HaCheck(r) \/ RequestFails(r)
  \/ \E p \in Paths, c \in HandEdits : Edit(p, c)
  \/ LateReload
  \/ Crash

Spec == Init /\ [][Next]_vars

\* asyncio resumes ready handlers in turn, however often others hold the loop.
FairSpec == Spec /\ \A r \in Requests : SF_vars(Work(r))

\* Besides, Home Assistant answers every check_config.
HaLiveSpec == FairSpec /\ \A r \in Requests : WF_vars(HaCheck(r))
=============================================================================
