------------------------- MODULE DraftWorkflowProofs -------------------------
(***************************************************************************)
(* What holds of the draft workflow for every value of its constants: any  *)
(* number of handlers, drafts and files, either backend, any errors, edits *)
(* and restarts. All of it rests on the inductive invariant IInv.          *)
(***************************************************************************)
EXTENDS DraftHistory, TLAPS

-----------------------------------------------------------------------------
(* The invariant holds initially *)

LEMMA InitInv == Init => IInv
<1> SUFFICES ASSUME Init PROVE IInv
  OBVIOUS
<1>1. TypeOK
  <2>1. /\ settings \in Settings
        /\ pc \in [Requests -> Points]
    BY DataAssumption DEF Init, Points
  <2> QED
    BY <2>1 DEF Init, TypeOK, Statuses
<1>2. AuditIsTruthful
  BY DEF Init, AuditIsTruthful
<1>3. RowInv /\ JobInv /\ SeenInv
  BY DEF Init, RowInv, JobInv, SeenInv, DraftPoints, Points
<1>4. RecordedInv /\ PolicyInv
  BY DEF Init, RecordedInv, PolicyInv, AppliedPoints, UndonePoints, UncheckedFile
<1> QED
  BY <1>1, <1>2, <1>3, <1>4 DEF IInv

-----------------------------------------------------------------------------
(* Every step preserves it *)

\* Types. What a write or a restore puts into a file is a content because the
\* draft has a row, and the version a rollback reads is one.
LEMMA TypeStep ==
  ASSUME TypeOK, RowInv, JobInv, SeenInv, [Next]_vars
  PROVE  TypeOK'
<1> USE ValueAssumption, DataAssumption
    DEF TypeOK, Points, FilePoints, AppliedPoints, UndonePoints,
        ha, tables, locals, bounds
<1>1. ASSUME NEW r \in Requests, NEW d \in DraftIds, NEW w \in CreateRequests,
             CreateStart(r, d, w)
      PROVE  TypeOK'
  BY <1>1 DEF CreateStart, Begin, Resume, FileAwait
<1>2. ASSUME NEW r \in Requests, NEW d \in DraftIds, ApplyStart(r, d)
      PROVE  TypeOK'
  BY <1>2 DEF ApplyStart, Begin, Resume, FileAwait, Log, AuditEntries
<1>3. ASSUME NEW r \in Requests, NEW d \in DraftIds, RollbackStart(r, d)
      PROVE  TypeOK'
  BY <1>3 DEF RollbackStart, Begin, Resume, FileAwait
<1>4. ASSUME NEW r \in Requests, CreateFinish(r)
      PROVE  TypeOK'
  BY <1>4 DEF CreateFinish, Finish, Resume, JobInv, Statuses
<1>5. ASSUME NEW r \in Requests, CheckHash(r)
      PROVE  TypeOK'
  BY <1>5 DEF CheckHash, Finish, Resume, FileAwait, JobInv, DraftPoints, Log,
         AuditEntries
<1>6. ASSUME NEW r \in Requests, CheckExists(r)
      PROVE  TypeOK'
  BY <1>6 DEF CheckExists, Finish, Resume, FileAwait, FileContents
<1>7. ASSUME NEW r \in Requests, SaveBackup(r)
      PROVE  TypeOK'
  BY <1>7 DEF SaveBackup, Finish, Resume, FileAwait, FileContents, Readable
<1>8. ASSUME NEW r \in Requests, WriteFile(r)
      PROVE  TypeOK'
  <2>1. draft[job[r]] \in Rows
    BY <1>8 DEF WriteFile, RowInv, JobInv, DraftPoints
  <2> QED
    BY <1>8, <2>1 DEF WriteFile, Resume, FileAwait, FileContents, Rows
<1>9. ASSUME NEW r \in Requests, RecordVersion(r)
      PROVE  TypeOK'
  BY <1>9 DEF RecordVersion, Resume
<1>10. ASSUME NEW r \in Requests, HaCheck(r)
      PROVE  TypeOK'
  BY <1>10 DEF HaCheck, Finish, Resume
<1>11. ASSUME NEW r \in Requests, StartReload(r)
      PROVE  TypeOK'
  BY <1>11 DEF StartReload, Resume
<1>12. ASSUME NEW r \in Requests, HaReload(r)
      PROVE  TypeOK'
  BY <1>12 DEF HaReload, Finish, Resume
<1>13. ASSUME NEW r \in Requests, MarkFailed(r)
      PROVE  TypeOK'
  BY <1>13 DEF MarkFailed, Resume, Statuses
<1>14. ASSUME NEW r \in Requests, MarkApplied(r)
      PROVE  TypeOK'
  BY <1>14 DEF MarkApplied, Resume, Statuses
<1>15. ASSUME NEW r \in Requests, RestoreFile(r)
      PROVE  TypeOK'
  <2>1. seen[r] \in FileContents
    BY <1>15 DEF RestoreFile, SeenInv, JobInv, DraftPoints, FileContents
  <2> QED
    BY <1>15, <2>1 DEF RestoreFile, Finish, Resume, FileAwait
<1>16. ASSUME NEW r \in Requests, CheckCreated(r)
      PROVE  TypeOK'
  BY <1>16 DEF CheckCreated, Finish, Resume, FileAwait
<1>17. ASSUME NEW r \in Requests, RemoveFile(r)
      PROVE  TypeOK'
  BY <1>17 DEF RemoveFile, Finish, Resume, FileAwait, FileContents
<1>18. ASSUME NEW r \in Requests, MarkRolledBack(r)
      PROVE  TypeOK'
  BY <1>18 DEF MarkRolledBack, Resume, Statuses
<1>19. ASSUME NEW r \in Requests, RecordAudit(r)
      PROVE  TypeOK'
  BY <1>19 DEF RecordAudit, Finish, Resume, Log, AuditEntry, AuditEntries,
         JobInv, DraftPoints
<1>20. ASSUME NEW r \in Requests, RequestFails(r)
      PROVE  TypeOK'
  BY <1>20 DEF RequestFails, Finish, Resume
<1>21. ASSUME NEW p \in Paths, NEW c \in HandEdits, Edit(p, c)
      PROVE  TypeOK'
  BY <1>21 DEF Edit
<1>22. ASSUME LateReload
      PROVE  TypeOK'
  BY <1>22 DEF LateReload
<1>23. ASSUME Crash
      PROVE  TypeOK'
  <2>1. late' \in BOOLEAN
    BY <1>23 DEF Crash
  <2>2. settings' \in Settings /\ crashes' \in Nat
    BY <1>23 DEF Crash
  <2>3. UNCHANGED <<file, loaded, draft, status, version, audit, backups, edits>>
    BY <1>23 DEF Crash
  <2> QED
    BY <1>23, <2>1, <2>2, <2>3 DEF Crash
<1>24. ASSUME UNCHANGED vars
      PROVE  TypeOK'
  BY <1>24 DEF vars
<1> HIDE DEF TypeOK
<1> QED
  BY <1>1, <1>2, <1>3, <1>4, <1>5, <1>6, <1>7, <1>8, <1>9, <1>10, <1>11,
         <1>12, <1>13, <1>14, <1>15, <1>16, <1>17, <1>18, <1>19, <1>20, <1>21,
         <1>22, <1>23, <1>24 DEF Next, Start, Work

\* The rest. SaveBackup makes sure of what RecordVersion is to record, before
\* any status says there is something to restore; rows and backups are only
\* added, and a settings change loses the handlers that passed the old guards.
LEMMA InvStep ==
  ASSUME IInv, [Next]_vars
  PROVE  IInv'
<1>0. TypeOK'
  BY TypeStep DEF IInv
<1> DEFINE Rest == /\ RowInv /\ JobInv /\ SeenInv
                   /\ RecordedInv /\ PolicyInv /\ AuditIsTruthful
<1> USE ValueAssumption, DataAssumption, <1>0
    DEF IInv, TypeOK, RowInv, JobInv, SeenInv, RecordedInv, PolicyInv,
        AuditIsTruthful, CanRestore, FileContents, Points, DraftPoints,
        FilePoints, AppliedPoints, UndonePoints, UncheckedFile,
        ha, tables, locals, bounds, Begin, Finish, Resume, FileAwait, Log
<1>1. ASSUME NEW r \in Requests, NEW d \in DraftIds, NEW w \in CreateRequests,
             CreateStart(r, d, w)
      PROVE  Rest'
  BY <1>1 DEF CreateStart, ValidProposed
<1>2. ASSUME NEW r \in Requests, NEW d \in DraftIds, ApplyStart(r, d)
      PROVE  Rest'
  BY <1>2 DEF ApplyStart, MayApply, ValidProposed
<1>3. ASSUME NEW r \in Requests, NEW d \in DraftIds, RollbackStart(r, d)
      PROVE  Rest'
  BY <1>3 DEF RollbackStart, MayRollback
<1>4. ASSUME NEW r \in Requests, CreateFinish(r)
      PROVE  Rest'
  BY <1>4 DEF CreateFinish
<1>5. ASSUME NEW r \in Requests, CheckHash(r)
      PROVE  Rest'
  BY <1>5 DEF CheckHash
<1>6. ASSUME NEW r \in Requests, CheckExists(r)
      PROVE  Rest'
  BY <1>6 DEF CheckExists
<1>7. ASSUME NEW r \in Requests, SaveBackup(r)
      PROVE  Rest'
  <2>1. CASE ~Readable(file[draft[job[r]].path])
    BY <1>7, <2>1 DEF SaveBackup
  <2>2. CASE Readable(file[draft[job[r]].path])
    <3>1. /\ seen'[r] \in backups'[job[r]]
          /\ \A d \in DraftIds : backups[d] \subseteq backups'[d]
          /\ UNCHANGED <<job, input, draft, status, version, audit, settings>>
      BY <1>7, <2>2 DEF SaveBackup
    <3>2. /\ pc' = [pc EXCEPT ![r] = "write"]
          /\ \A s \in Requests : s # r => seen'[s] = seen[s]
          /\ pc[r] = "backup"
      BY <1>7, <2>2 DEF SaveBackup
    <3>3. SeenInv'
      BY <3>1, <3>2
    <3> QED
      BY <3>1, <3>2, <3>3
  <2> QED
    BY <2>1, <2>2
<1>8. ASSUME NEW r \in Requests, WriteFile(r)
      PROVE  Rest'
  BY <1>8 DEF WriteFile
<1>9. ASSUME NEW r \in Requests, RecordVersion(r)
      PROVE  Rest'
  BY <1>9 DEF RecordVersion
<1>10. ASSUME NEW r \in Requests, HaCheck(r)
      PROVE  Rest'
  BY <1>10 DEF HaCheck
<1>11. ASSUME NEW r \in Requests, StartReload(r)
      PROVE  Rest'
  BY <1>11 DEF StartReload
<1>12. ASSUME NEW r \in Requests, HaReload(r)
      PROVE  Rest'
  BY <1>12 DEF HaReload
<1>13. ASSUME NEW r \in Requests, MarkFailed(r)
      PROVE  Rest'
  BY <1>13 DEF MarkFailed
<1>14. ASSUME NEW r \in Requests, MarkApplied(r)
      PROVE  Rest'
  BY <1>14 DEF MarkApplied
<1>15. ASSUME NEW r \in Requests, RestoreFile(r)
      PROVE  Rest'
  BY <1>15 DEF RestoreFile
<1>16. ASSUME NEW r \in Requests, CheckCreated(r)
      PROVE  Rest'
  BY <1>16 DEF CheckCreated
<1>17. ASSUME NEW r \in Requests, RemoveFile(r)
      PROVE  Rest'
  BY <1>17 DEF RemoveFile
<1>18. ASSUME NEW r \in Requests, MarkRolledBack(r)
      PROVE  Rest'
  BY <1>18 DEF MarkRolledBack
<1>19. ASSUME NEW r \in Requests, RecordAudit(r)
      PROVE  Rest'
  BY <1>19 DEF RecordAudit, AuditEntry
<1>20. ASSUME NEW r \in Requests, RequestFails(r)
      PROVE  Rest'
  BY <1>20 DEF RequestFails
<1>21. ASSUME NEW p \in Paths, NEW c \in HandEdits, Edit(p, c)
      PROVE  Rest'
  BY <1>21 DEF Edit
<1>22. ASSUME LateReload
      PROVE  Rest'
  BY <1>22 DEF LateReload
<1>23. ASSUME Crash
      PROVE  Rest'
  BY <1>23 DEF Crash
<1>24. ASSUME UNCHANGED vars
      PROVE  Rest'
  BY <1>24 DEF vars
<1> HIDE DEF Rest, TypeOK
<1>25. Rest'
  BY <1>1, <1>2, <1>3, <1>4, <1>5, <1>6, <1>7, <1>8, <1>9, <1>10, <1>11,
         <1>12, <1>13, <1>14, <1>15, <1>16, <1>17, <1>18, <1>19, <1>20, <1>21,
         <1>22, <1>23, <1>24 DEF Next, Start, Work
<1> QED
  BY <1>0, <1>25 DEF Rest, IInv

-----------------------------------------------------------------------------
(* Theorems *)

\* The inductive invariant holds of every behaviour: whatever a handler does
\* next, it does to a draft whose row, version and backup are in place.
THEOREM Invariant == Spec => []IInv
<1>1. Init => IInv
  BY InitInv
<1>2. IInv /\ [Next]_vars => IInv'
  BY InvStep
<1> QED
  BY <1>1, <1>2, PTL DEF Spec

\* Tables and handlers keep their types; no status outside the API's appears.
THEOREM TypeCorrect == Spec => []TypeOK
<1>1. IInv => TypeOK
  BY DEF IInv
<1> QED
  BY <1>1, Invariant, PTL

\* Whenever the status of a draft lets it be rolled back, the version row and
\* the backup rollback_draft reads are there, with any errors and restarts and
\* however many handlers apply and roll back the same drafts.
THEOREM RollbackAlwaysPossible == Spec => []RollbackSourceKept
<1>1. IInv => RollbackSourceKept
  BY DEF IInv, RecordedInv, RollbackSourceKept
<1> QED
  BY <1>1, Invariant, PTL

\* What the audit log calls ok was done and is on record.
THEOREM AuditAlwaysTruthful == Spec => []AuditIsTruthful
<1>1. IInv => AuditIsTruthful
  BY DEF IInv
<1> QED
  BY <1>1, Invariant, PTL

\* No step of the proxy changes a file in read-only mode or outside the write
\* allowlist, whatever settings the draft and its backup were made under.
LEMMA PolicyStep ==
  ASSUME IInv, [Next]_vars, edits' = edits,
         NEW p \in Paths, file'[p] # file[p]
  PROVE  ~settings.readonly /\ p \in settings.writable
<1> USE DEF IInv, TypeOK, UncheckedFile, ha, tables, locals, bounds
<1>1. \E r \in Requests : WriteFile(r) \/ RestoreFile(r) \/ RemoveFile(r)
  <2>1. CASE \E r \in Requests : Start(r)
    BY <2>1 DEF Start, CreateStart, ApplyStart, RollbackStart
  <2>2. CASE \E r \in Requests : HaCheck(r) \/ RequestFails(r)
    BY <2>2 DEF HaCheck, RequestFails
  <2>3. CASE \E r \in Requests : Work(r)
    BY <2>3 DEF Work, CreateFinish, CheckHash, CheckExists, SaveBackup,
                RecordVersion, StartReload, HaReload, MarkFailed, MarkApplied,
                CheckCreated, MarkRolledBack, RecordAudit
  <2>4. ~\E q \in Paths, c \in HandEdits : Edit(q, c)
    BY DEF Edit
  <2>5. ~(LateReload \/ Crash \/ UNCHANGED vars)
    BY DEF LateReload, Crash, vars
  <2> HIDE DEF IInv, TypeOK
  <2> QED
    BY <2>1, <2>2, <2>3, <2>4, <2>5 DEF Next
<1>2. PICK r \in Requests : WriteFile(r) \/ RestoreFile(r) \/ RemoveFile(r)
  BY <1>1
<1>3. job[r] \in DraftIds /\ p = draft[job[r]].path
  BY <1>2 DEF WriteFile, RestoreFile, RemoveFile, JobInv, DraftPoints,
              Points, FilePoints
<1> QED
  BY <1>2, <1>3 DEF WriteFile, RestoreFile, RemoveFile, PolicyInv

THEOREM PolicyAlwaysBoundsWrites == Spec => PolicyBoundsEveryWrite
<1>1. IInv /\ [Next]_vars =>
        [edits' = edits =>
           \A p \in Paths : file'[p] # file[p] =>
             ~settings.readonly /\ p \in settings.writable]_vars
  BY PolicyStep
<1> QED
  BY <1>1, Invariant, PTL DEF Spec, PolicyBoundsEveryWrite

\* Without errors that no except of apply_draft takes, the only step that ends
\* a handler after its write is the one that records its outcome.
LEMMA EndStep ==
  ASSUME Faults \cap {"ambiguous", "store", "garbled"} = {},
         IInv, [Next]_vars, crashes' = crashes,
         NEW r \in Requests, pc[r] \in AppliedPoints, pc'[r] = "idle"
  PROVE  pc[r] \in {"audit_failed", "audit_applied"} /\ RecordAudit(r)
<1>0. TypeOK
  BY DEF IInv
<1> USE <1>0
    DEF TypeOK, AppliedPoints, FilePoints, ha, tables, locals, bounds, Begin,
        Finish, Resume
<1>1. ASSUME NEW s \in Requests, Start(s)
      PROVE  FALSE
  BY <1>1 DEF Start, CreateStart, ApplyStart, RollbackStart
<1>2. ASSUME NEW s \in Requests, HaCheck(s) \/ RequestFails(s)
      PROVE  FALSE
  BY <1>2 DEF HaCheck, RequestFails, FailsAt, AuditEntry
<1>3. ASSUME NEW s \in Requests, Work(s), ~RecordAudit(s)
      PROVE  FALSE
  BY <1>3 DEF Work, CreateFinish, CheckHash, CheckExists, SaveBackup,
              WriteFile, RecordVersion, StartReload, HaReload, MarkFailed,
              MarkApplied, RestoreFile, CheckCreated, RemoveFile,
              MarkRolledBack
<1>4. ASSUME NEW s \in Requests, RecordAudit(s)
      PROVE  s = r /\ pc[r] \in {"audit_failed", "audit_applied"}
  BY <1>4 DEF RecordAudit, AuditEntry
<1>5. ~\E q \in Paths, c \in HandEdits : Edit(q, c)
  BY DEF Edit
<1>6. ~(LateReload \/ Crash \/ UNCHANGED vars)
  BY DEF LateReload, Crash, vars
<1> HIDE DEF TypeOK
<1> QED
  BY <1>1, <1>2, <1>3, <1>4, <1>5, <1>6 DEF Next

\* An apply that wrote its file is not over before its draft can be rolled
\* back, or was.
THEOREM FinishedWritesAreRecoverable ==
  ASSUME Faults \cap {"ambiguous", "store", "garbled"} = {}
  PROVE  Spec => FinishedWriteIsRecoverable
<1>1. IInv /\ [Next]_vars =>
        [crashes' = crashes =>
           \A r \in Requests : pc[r] \in AppliedPoints /\ pc'[r] = "idle" =>
             status'[job[r]] \in {"applied", "failed", "rolled_back"}]_vars
  BY EndStep DEF IInv, RecordedInv, RecordAudit
<1> QED
  BY <1>1, Invariant, PTL DEF Spec, FinishedWriteIsRecoverable

\* Nor is it before the audit log says how it ended.
THEOREM FinishedWritesAreAudited ==
  ASSUME Faults \cap {"ambiguous", "store", "garbled"} = {}
  PROVE  Spec => FinishedWriteIsAudited
<1>1. ASSUME NEW r \in Requests, pc[r] \in {"audit_failed", "audit_applied"},
             RecordAudit(r)
      PROVE  \E result \in {"ok", "failed"} :
               <<"apply_draft", job[r], result>> \in audit'
  BY <1>1 DEF RecordAudit, AuditEntry, Log
<1>2. IInv /\ [Next]_vars =>
        [crashes' = crashes =>
           \A r \in Requests : pc[r] \in AppliedPoints /\ pc'[r] = "idle" =>
             \E result \in {"ok", "failed"} :
               <<"apply_draft", job[r], result>> \in audit']_vars
  BY <1>1, EndStep
<1> QED
  BY <1>2, Invariant, PTL DEF Spec, FinishedWriteIsAudited

-----------------------------------------------------------------------------
(* What Home Assistant is made to load *)

\* A rejected content that is in a file when a reload is due came after the check.
NewsInv ==
  \A r \in Requests : pc[r] \in CheckToReload =>
    \A p \in Paths : file[p] \in Rejected => p \in news[r]

\* The memory of an apply has what its file holds, and at the end what is loaded.
SinceInv ==
  \A r \in Requests :
    /\ pc[r] \in AppliedPoints => file[draft[job[r]].path] \in since[r]
    /\ pc[r] \in {"reloaded", "audit_applied"} =>
         loaded[draft[job[r]].path] \in since[r]

LEMMA HistoryOfSpec == HSpec => Spec
<1>1. HInit => Init
  BY DEF HInit
<1>2. [HNext]_hvars => [Next]_vars
  BY DEF HNext, hvars
<1> QED
  BY <1>1, <1>2, PTL DEF HSpec, Spec

\* A handler gets between check and reload by a check that found no rejected
\* content, or by what was checked.
LEMMA CheckedPoint ==
  ASSUME TypeOK, [Next]_vars,
         NEW r \in Requests, pc'[r] \in CheckToReload
  PROVE  pc[r] \in CheckToReload \/ (ConfigValid /\ file' = file)
<1> USE DEF TypeOK, CheckToReload, Begin, Finish, Resume
<1>1. ASSUME NEW s \in Requests, Start(s)
      PROVE  pc[r] \in CheckToReload
  BY <1>1 DEF Start, CreateStart, ApplyStart, RollbackStart
<1>2. ASSUME NEW s \in Requests, HaCheck(s)
      PROVE  pc[r] \in CheckToReload \/ (ConfigValid /\ file' = file)
  BY <1>2 DEF HaCheck
<1>3. ASSUME NEW s \in Requests,
             CreateFinish(s) \/ CheckHash(s) \/ CheckExists(s) \/ SaveBackup(s) \/ WriteFile(s)
      PROVE  pc[r] \in CheckToReload
  BY <1>3 DEF CreateFinish, CheckHash, CheckExists, SaveBackup, WriteFile
<1>4. ASSUME NEW s \in Requests,
             \/ RecordVersion(s) \/ StartReload(s) \/ HaReload(s)
             \/ MarkFailed(s) \/ MarkApplied(s)
      PROVE  pc[r] \in CheckToReload
  BY <1>4 DEF RecordVersion, StartReload, HaReload, MarkFailed, MarkApplied
<1>5. ASSUME NEW s \in Requests,
             \/ RestoreFile(s) \/ CheckCreated(s) \/ RemoveFile(s)
             \/ MarkRolledBack(s) \/ RecordAudit(s) \/ RequestFails(s)
      PROVE  pc[r] \in CheckToReload
  BY <1>5 DEF RestoreFile, CheckCreated, RemoveFile, MarkRolledBack, RecordAudit, RequestFails
<1>6. ASSUME (\E p \in Paths, c \in HandEdits : Edit(p, c)) \/ LateReload \/ UNCHANGED vars
      PROVE  pc[r] \in CheckToReload
  BY <1>6 DEF Edit, LateReload, vars
<1>7. ~Crash
  BY DEF Crash
<1> HIDE DEF TypeOK, CheckToReload, Begin, Finish, Resume
<1> QED
  BY <1>1, <1>2, <1>3, <1>4, <1>5, <1>6, <1>7 DEF Next, Work

LEMMA NewsStep ==
  ASSUME TypeOK, NewsInv, [HNext]_hvars
  PROVE  NewsInv'
<1> SUFFICES ASSUME NEW r \in Requests, pc'[r] \in CheckToReload,
                    NEW p \in Paths, file'[p] \in Rejected
             PROVE  p \in news'[r]
  BY DEF NewsInv
<1>1. CASE HNext
  <2>1. news'[r] = news[r] \cup {q \in Paths : file'[q] # file[q]}
    BY <1>1 DEF HNext
  <2>2. CASE file'[p] # file[p]
    BY <2>1, <2>2
  <2>3. CASE file'[p] = file[p]
    <3>1. pc[r] \in CheckToReload
      BY <1>1, <2>3, CheckedPoint DEF HNext, ConfigValid
    <3> QED
      BY <2>1, <2>3, <3>1 DEF NewsInv
  <2> QED
    BY <2>2, <2>3
<1>2. CASE UNCHANGED hvars
  BY <1>2 DEF hvars, vars, NewsInv
<1> QED
  BY <1>1, <1>2

\* An apply that wrote its file stays with its draft, and the draft stays as it is.
LEMMA JobKept ==
  ASSUME IInv, Next, NEW r \in Requests, pc'[r] \in AppliedPoints
  PROVE  job'[r] = job[r] /\ draft'[job[r]] = draft[job[r]]
<1>0. TypeOK /\ JobInv
  BY DEF IInv
<1> USE <1>0
    DEF TypeOK, AppliedPoints, tables, locals, Begin, Finish, Resume
<1>1. ASSUME NEW s \in Requests, Start(s)
      PROVE  job'[r] = job[r] /\ draft' = draft
  BY <1>1 DEF Start, CreateStart, ApplyStart, RollbackStart
<1>2. ASSUME NEW s \in Requests, CreateFinish(s)
      PROVE  job'[r] = job[r] /\ draft'[job[r]] = draft[job[r]]
  <2>1. s # r
    BY <1>2 DEF CreateFinish
  <2>2. job[r] # job[s]
    BY <1>2, <2>1 DEF CreateFinish, JobInv
  <2>3. job[r] \in DraftIds
    BY <1>2, <2>1 DEF CreateFinish, JobInv, DraftPoints, Points
  <2>4. job'[r] = job[r]
    BY <1>2, <2>1 DEF CreateFinish
  <2>5. draft'[job[r]] = draft[job[r]]
    BY <1>2, <2>2, <2>3 DEF CreateFinish
  <2> QED
    BY <2>4, <2>5
<1>3. ASSUME NEW s \in Requests,
             CheckHash(s) \/ CheckExists(s) \/ SaveBackup(s) \/ WriteFile(s)
      PROVE  job'[r] = job[r] /\ draft' = draft
  BY <1>3 DEF CheckHash, CheckExists, SaveBackup, WriteFile
<1>4. ASSUME NEW s \in Requests,
             \/ RecordVersion(s) \/ HaCheck(s) \/ StartReload(s) \/ HaReload(s)
             \/ MarkFailed(s) \/ MarkApplied(s)
      PROVE  job'[r] = job[r] /\ draft' = draft
  BY <1>4 DEF RecordVersion, HaCheck, StartReload, HaReload, MarkFailed, MarkApplied
<1>5. ASSUME NEW s \in Requests,
             \/ RestoreFile(s) \/ CheckCreated(s) \/ RemoveFile(s)
             \/ MarkRolledBack(s) \/ RecordAudit(s) \/ RequestFails(s)
      PROVE  job'[r] = job[r] /\ draft' = draft
  BY <1>5 DEF RestoreFile, CheckCreated, RemoveFile, MarkRolledBack, RecordAudit,
              RequestFails
<1>6. ASSUME (\E p \in Paths, c \in HandEdits : Edit(p, c)) \/ LateReload
      PROVE  job'[r] = job[r] /\ draft' = draft
  BY <1>6 DEF Edit, LateReload
<1>7. ~Crash
  BY DEF Crash
<1> HIDE <1>0 DEF TypeOK, AppliedPoints, tables, locals, Begin, Finish, Resume
<1> QED
  BY <1>1, <1>2, <1>3, <1>4, <1>5, <1>6, <1>7 DEF Next, Work

\* A handler gets past its reload with what the files hold then, and what is
\* loaded later is what they hold later.
LEMMA LoadedStep ==
  ASSUME TypeOK, Next, NEW r \in Requests, pc'[r] \in {"reloaded", "audit_applied"}
  PROVE  \/ pc[r] = "reload" /\ loaded' = file
         \/ /\ pc[r] \in {"reloaded", "audit_applied"}
            /\ loaded' \in {file, loaded}
<1> USE DEF TypeOK, ha, Begin, Finish, Resume
<1>1. ASSUME NEW s \in Requests, Start(s) \/ HaCheck(s) \/ RequestFails(s)
      PROVE  pc[r] \in {"reloaded", "audit_applied"} /\ loaded' = loaded
  BY <1>1 DEF Start, CreateStart, ApplyStart, RollbackStart, HaCheck, RequestFails
<1>2. ASSUME NEW s \in Requests,
             CreateFinish(s) \/ CheckHash(s) \/ CheckExists(s) \/ SaveBackup(s) \/ WriteFile(s)
      PROVE  pc[r] \in {"reloaded", "audit_applied"} /\ loaded' = loaded
  BY <1>2 DEF CreateFinish, CheckHash, CheckExists, SaveBackup, WriteFile
<1>3. ASSUME NEW s \in Requests, HaReload(s)
      PROVE  \/ pc[r] = "reload" /\ loaded' = file
             \/ /\ pc[r] \in {"reloaded", "audit_applied"}
                /\ loaded' \in {file, loaded}
  BY <1>3 DEF HaReload
<1>4. ASSUME NEW s \in Requests,
             RecordVersion(s) \/ StartReload(s) \/ MarkFailed(s) \/ MarkApplied(s)
      PROVE  pc[r] \in {"reloaded", "audit_applied"} /\ loaded' = loaded
  BY <1>4 DEF RecordVersion, StartReload, MarkFailed, MarkApplied
<1>5. ASSUME NEW s \in Requests,
             \/ RestoreFile(s) \/ CheckCreated(s) \/ RemoveFile(s)
             \/ MarkRolledBack(s) \/ RecordAudit(s)
      PROVE  pc[r] \in {"reloaded", "audit_applied"} /\ loaded' = loaded
  BY <1>5 DEF RestoreFile, CheckCreated, RemoveFile, MarkRolledBack, RecordAudit
<1>6. ASSUME (\E p \in Paths, c \in HandEdits : Edit(p, c)) \/ LateReload
      PROVE  pc[r] \in {"reloaded", "audit_applied"} /\ loaded' \in {file, loaded}
  BY <1>6 DEF Edit, LateReload
<1>7. ~Crash
  BY DEF Crash
<1> HIDE DEF TypeOK, ha, Begin, Finish, Resume
<1> QED
  BY <1>1, <1>2, <1>3, <1>4, <1>5, <1>6, <1>7 DEF Next, Work

LEMMA SinceStep ==
  ASSUME IInv, SinceInv, [HNext]_hvars
  PROVE  SinceInv'
<1>1. CASE HNext
  <2> SUFFICES ASSUME NEW r \in Requests, pc'[r] \in AppliedPoints
               PROVE  /\ file'[draft'[job'[r]].path] \in since'[r]
                      /\ pc'[r] \in {"reloaded", "audit_applied"} =>
                           loaded'[draft'[job'[r]].path] \in since'[r]
    BY DEF SinceInv, AppliedPoints
  <2> DEFINE path == draft[job[r]].path
  <2>1. draft'[job'[r]].path = path
    BY <1>1, JobKept DEF HNext
  <2>2. since'[r] = since[r] \cup {file'[path]}
    BY <1>1 DEF HNext
  <2>3. ASSUME pc'[r] \in {"reloaded", "audit_applied"}
        PROVE  loaded'[path] \in since[r]
    <3>1. /\ pc[r] \in {"reload", "reloaded", "audit_applied"}
          /\ \/ loaded' = file
             \/ pc[r] \in {"reloaded", "audit_applied"} /\ loaded' = loaded
      BY <1>1, <2>3, LoadedStep DEF HNext, IInv
    <3>2. file[path] \in since[r]
      BY <3>1 DEF SinceInv, AppliedPoints
    <3> QED
      BY <3>1, <3>2 DEF SinceInv
  <2> QED
    BY <2>1, <2>2, <2>3
<1>2. CASE UNCHANGED hvars
  BY <1>2 DEF hvars, vars, SinceInv
<1> QED
  BY <1>1, <1>2

\* What an apply asks Home Assistant to load is what its check accepted, and what
\* others put in a file since, with any number of handlers and edits.
THEOREM ReloadsWhatWasChecked == HSpec => []ReloadsOnlyCheckedConfig
<1>1. HInit => NewsInv
  BY DEF HInit, Init, NewsInv, CheckToReload
<1>2. TypeOK /\ NewsInv /\ [HNext]_hvars => NewsInv'
  BY NewsStep
<1>3. NewsInv => ReloadsOnlyCheckedConfig
  BY DEF NewsInv, ReloadsOnlyCheckedConfig, CheckToReload
<1> QED
  BY <1>1, <1>2, <1>3, HistoryOfSpec, TypeCorrect, PTL DEF HSpec

\* When an apply is found successful Home Assistant has loaded its file as it was
\* some time since the apply wrote it, whatever other handlers and late reloads
\* made it load.
THEOREM AppliesAreLoaded == HSpec => []AppliedIsLoaded
<1>1. HInit => SinceInv
  BY DEF HInit, Init, SinceInv, AppliedPoints
<1>2. IInv /\ SinceInv /\ [HNext]_hvars => SinceInv'
  BY SinceStep
<1>3. SinceInv => AppliedIsLoaded
  BY DEF SinceInv, AppliedIsLoaded
<1> QED
  BY <1>1, <1>2, <1>3, HistoryOfSpec, Invariant, PTL DEF HSpec
=============================================================================
