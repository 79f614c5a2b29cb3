-------------------------- MODULE LocalBackendProofs --------------------------
(***************************************************************************)
(* What holds of the draft workflow with the local backend, as long as     *)
(* nobody else edits a file between a handler's check of its base and its  *)
(* write: for any number of handlers, drafts and files, with any errors    *)
(* and restarts, an apply is a compare-and-swap.                           *)
(***************************************************************************)
EXTENDS DraftWorkflowProofs

LEMMA LocalInit == Init => LocalInv
BY InitInv
   DEF Init, LocalInv, LoopInv, WindowInv, SourceInv, VersionMatchesBase,
       FilePoints

\* Only the handler that has the loop moves past a file operation, and Window
\* keeps edits out: nobody changes what another one has checked.
LEMMA LocalStep ==
  ASSUME ~Yields, Window \subseteq HandsOff, LocalInv, [Next]_vars
  PROVE  LocalInv'
<1>0. IInv'
  BY InvStep DEF LocalInv
<1> DEFINE Rest == LoopInv /\ WindowInv /\ SourceInv /\ VersionMatchesBase
<1> USE ValueAssumption, DataAssumption
    DEF LocalInv, LoopInv, WindowInv, SourceInv, VersionMatchesBase, Window,
        IInv, TypeOK, RowInv, JobInv, SeenInv, RecordedInv, CanRestore,
        FileContents, Points, DraftPoints, FilePoints, AppliedPoints,
        UndonePoints, BaseHolds, Readable,
        ha, tables, locals, bounds, Begin, Finish, Resume, Free, FileAwait, Log
<1>1. ASSUME NEW r \in Requests, NEW d \in DraftIds, NEW w \in CreateRequests,
             CreateStart(r, d, w)
      PROVE  Rest'
  BY <1>1 DEF CreateStart
<1>2. ASSUME NEW r \in Requests, NEW d \in DraftIds, ApplyStart(r, d)
      PROVE  Rest'
  BY <1>2 DEF ApplyStart, MayApply
<1>3. ASSUME NEW r \in Requests, NEW d \in DraftIds, RollbackStart(r, d)
      PROVE  Rest'
  BY <1>3 DEF RollbackStart, MayRollback
<1>4. ASSUME NEW r \in Requests, CreateFinish(r)
      PROVE  Rest'
  BY <1>4 DEF CreateFinish
<1>5. ASSUME NEW r \in Requests, CheckHash(r)
      PROVE  Rest'
  BY <1>5 DEF CheckHash
<1>6. ASSUME NEW r \in Requests, CheckExists(r)
      PROVE  Rest'
  BY SMTT(40), <1>6 DEF CheckExists
<1>7. ASSUME NEW r \in Requests, SaveBackup(r)
      PROVE  Rest'
  BY <1>7 DEF SaveBackup
<1>8. ASSUME NEW r \in Requests, WriteFile(r)
      PROVE  Rest'
  BY <1>8 DEF WriteFile
<1>9. ASSUME NEW r \in Requests, RecordVersion(r)
      PROVE  Rest'
  BY <1>9 DEF RecordVersion
<1>10. ASSUME NEW r \in Requests, HaCheck(r)
      PROVE  Rest'
  BY <1>10 DEF HaCheck
<1>11. ASSUME NEW r \in Requests, StartReload(r)
      PROVE  Rest'
  BY <1>11 DEF StartReload
<1>12. ASSUME NEW r \in Requests, HaReload(r)
      PROVE  Rest'
  BY <1>12 DEF HaReload
<1>13. ASSUME NEW r \in Requests, MarkFailed(r)
      PROVE  Rest'
  BY <1>13 DEF MarkFailed
<1>14. ASSUME NEW r \in Requests, MarkApplied(r)
      PROVE  Rest'
  BY <1>14 DEF MarkApplied
<1>15. ASSUME NEW r \in Requests, RestoreFile(r)
      PROVE  Rest'
  BY <1>15 DEF RestoreFile
<1>16. ASSUME NEW r \in Requests, CheckCreated(r)
      PROVE  Rest'
  BY <1>16 DEF CheckCreated
<1>17. ASSUME NEW r \in Requests, RemoveFile(r)
      PROVE  Rest'
  BY <1>17 DEF RemoveFile
<1>18. ASSUME NEW r \in Requests, MarkRolledBack(r)
      PROVE  Rest'
  BY <1>18 DEF MarkRolledBack
<1>19. ASSUME NEW r \in Requests, RecordAudit(r)
      PROVE  Rest'
  BY SMTT(40), <1>19 DEF RecordAudit, AuditEntry
<1>20. ASSUME NEW r \in Requests, RequestFails(r)
      PROVE  Rest'
  BY <1>20 DEF RequestFails
<1>21. ASSUME NEW p \in Paths, NEW c \in HandEdits, Edit(p, c)
      PROVE  Rest'
  BY <1>21 DEF Edit
<1>22. ASSUME LateReload
      PROVE  Rest'
  BY <1>22 DEF LateReload
<1>23. ASSUME Crash
      PROVE  Rest'
  BY <1>23 DEF Crash
<1>24. ASSUME UNCHANGED vars
      PROVE  Rest'
  BY <1>24 DEF vars
<1> HIDE DEF Rest, IInv, LocalInv
<1>25. Rest'
  BY <1>1, <1>2, <1>3, <1>4, <1>5, <1>6, <1>7, <1>8, <1>9, <1>10, <1>11,
         <1>12, <1>13, <1>14, <1>15, <1>16, <1>17, <1>18, <1>19, <1>20, <1>21,
         <1>22, <1>23, <1>24 DEF Next, Start, Work, LocalInv
<1> QED
  BY <1>0, <1>25 DEF Rest, LocalInv

-----------------------------------------------------------------------------
(* Theorems *)

\* The invariant of the local backend, without edits in the window.
THEOREM LocalInvariant ==
  ASSUME ~Yields, Window \subseteq HandsOff
  PROVE  Spec => []LocalInv
<1>1. Init => LocalInv
  BY LocalInit
<1>2. LocalInv /\ [Next]_vars => LocalInv'
  BY LocalStep
<1> QED
  BY <1>1, <1>2, PTL DEF Spec

\* A rollback of a draft would restore what the draft was made from, whatever
\* other handlers did to the file or to the draft since.
THEOREM VersionsMatchBases ==
  ASSUME ~Yields, Window \subseteq HandsOff
  PROVE  Spec => []VersionMatchesBase
<1>1. LocalInv => VersionMatchesBase
  BY DEF LocalInv
<1> QED
  BY <1>1, LocalInvariant, PTL

\* An apply writes its file only while the file is what the draft was made
\* from: the hash it compared still is the hash of the file.
THEOREM AppliesOnlyIfUnchanged ==
  ASSUME ~Yields, Window \subseteq HandsOff
  PROVE  Spec => ApplyOnlyIfUnchanged
<1>1. LocalInv /\ [Next]_vars =>
        [\A r \in Requests : pc[r] = "write" /\ pc'[r] = "written" =>
           BaseHolds(draft[job[r]], file[draft[job[r]].path])]_vars
  BY DEF LocalInv, WindowInv
<1> QED
  BY <1>1, LocalInvariant, PTL DEF Spec, ApplyOnlyIfUnchanged

\* Nothing is overwritten by an apply that its draft has not backed up.
THEOREM BacksUpBeforeOverwriting ==
  ASSUME ~Yields, Window \subseteq HandsOff
  PROVE  Spec => BackupBeforeOverwrite
<1>1. LocalInv /\ [Next]_vars =>
        [\A r \in Requests : pc[r] = "write" /\ pc'[r] = "written" =>
           LET lost == file[draft[job[r]].path]
           IN lost = Absent \/ lost \in backups[job[r]]]_vars
  BY DEF LocalInv, WindowInv, IInv, SeenInv
<1> QED
  BY <1>1, LocalInvariant, PTL DEF Spec, BackupBeforeOverwrite

-----------------------------------------------------------------------------
(* The workflow implements ConfigChange *)

LEMMA AbstractInit == Init => Abstract!Init
BY DEF Init, Abstract!Init, Changed

\* A step that leaves files, rows and versions alone, and brings no handler to
\* or from "written".
Quiet ==
  /\ UNCHANGED <<file, draft, version, edits>>
  /\ \A r \in Requests :
       (pc[r] = "written" \/ pc'[r] = "written") =>
         pc'[r] = pc[r] /\ job'[r] = job[r]

LEMMA QuietStep ==
  ASSUME Quiet
  PROVE  UNCHANGED Abstract!abstractVars
<1>1. ASSUME NEW d \in DraftIds
      PROVE  Changed(d)' <=> Changed(d)
  BY DEF Changed, Quiet
<1> QED
  BY <1>1, Zenon DEF Abstract!abstractVars, Changed, Quiet

\* At most one handler has written its file and not yet recorded the version.
LEMMA OneWriter ==
  ASSUME LoopInv, NEW r \in Requests, pc[r] = "written",
         NEW s \in Requests, pc[s] = "written"
  PROVE  s = r
BY DEF LoopInv

\* A handler that fails, or a process that ends, after a write may leave it
\* without a version: the change is forgotten.
LEMMA ForgetStep ==
  ASSUME JobInv, NEW r \in Requests, pc[r] = "written",
         \A s \in Requests : pc[s] = "written" => s = r,
         \A s \in Requests : pc'[s] # "written",
         UNCHANGED <<file, draft, version, edits>>
  PROVE  [Abstract!Next]_Abstract!abstractVars
<1>1. job[r] \in DraftIds
  BY DEF JobInv, DraftPoints, Points, AppliedPoints
<1>2. ASSUME NEW d \in DraftIds
      PROVE  /\ Changed(d)' <=> version[d] # None
             /\ d # job[r] => (Changed(d) <=> version[d] # None)
  BY DEF Changed
<1>3. Changed(job[r])
  BY <1>1 DEF Changed
<1>4. CASE version[job[r]] # None
  <2>1. ASSUME NEW d \in DraftIds
        PROVE  Changed(d)' <=> Changed(d)
    BY <1>2, <1>3, <1>4
  <2> QED
    BY <2>1, Zenon DEF Abstract!abstractVars, Changed
<1>5. CASE version[job[r]] = None
  <2>1. ASSUME NEW d \in DraftIds
        PROVE  Changed(d)' <=> (d # job[r] /\ Changed(d))
    BY <1>2, <1>5
  <2>2. [d \in DraftIds |-> Changed(d)]' =
          [[d \in DraftIds |-> Changed(d)] EXCEPT ![job[r]] = FALSE]
    BY <2>1, Zenon DEF Changed
  <2>3. Abstract!Forget(job[r])
    BY <1>1, <1>3, <2>2 DEF Abstract!Forget
  <2> QED
    BY <1>1, <2>3 DEF Abstract!Next
<1> QED
  BY <1>4, <1>5

LEMMA AbstractStep ==
  ASSUME LocalInv, [Next]_vars
  PROVE  [Abstract!Next]_Abstract!abstractVars
<1> DEFINE Goal == [Abstract!Next]_Abstract!abstractVars
<1>0. TypeOK /\ RowInv /\ JobInv /\ RecordedInv /\ LoopInv /\ WindowInv /\ SourceInv
  BY DEF LocalInv, IInv
<1> USE ValueAssumption, DataAssumption, <1>0
    DEF TypeOK, ha, tables, locals, bounds, Begin, Finish, Resume, Log
<1>1. ASSUME NEW r \in Requests, Start(r)
      PROVE  Quiet
  BY <1>1 DEF Quiet, Start, CreateStart, ApplyStart, RollbackStart
<1>2. ASSUME NEW r \in Requests, CheckHash(r)
      PROVE  Quiet
  BY <1>2 DEF Quiet, CheckHash
<1>3. ASSUME NEW r \in Requests, CheckExists(r)
      PROVE  Quiet
  BY <1>3 DEF Quiet, CheckExists
<1>4. ASSUME NEW r \in Requests, SaveBackup(r)
      PROVE  Quiet
  BY <1>4 DEF Quiet, SaveBackup
<1>5. ASSUME NEW r \in Requests, StartReload(r)
      PROVE  Quiet
  BY <1>5 DEF Quiet, StartReload
<1>6. ASSUME NEW r \in Requests, HaReload(r)
      PROVE  Quiet
  BY <1>6 DEF Quiet, HaReload
<1>7. ASSUME NEW r \in Requests, HaCheck(r)
      PROVE  Quiet
  BY <1>7 DEF Quiet, HaCheck
<1>8. ASSUME NEW r \in Requests, MarkFailed(r)
      PROVE  Quiet
  BY <1>8 DEF Quiet, MarkFailed
<1>9. ASSUME NEW r \in Requests, MarkApplied(r)
      PROVE  Quiet
  BY <1>9 DEF Quiet, MarkApplied
<1>10. ASSUME NEW r \in Requests, CheckCreated(r)
      PROVE  Quiet
  BY <1>10 DEF Quiet, CheckCreated
<1>11. ASSUME NEW r \in Requests, MarkRolledBack(r)
      PROVE  Quiet
  BY <1>11 DEF Quiet, MarkRolledBack
<1>12. ASSUME NEW r \in Requests, RecordAudit(r)
      PROVE  Quiet
  BY <1>12 DEF Quiet, RecordAudit, AuditEntry
<1>13. ASSUME LateReload \/ UNCHANGED vars
      PROVE  Quiet
  BY <1>13 DEF Quiet, LateReload, vars
<1>14. ASSUME NEW r \in Requests, CreateFinish(r)
      PROVE  Goal
  <2>1. CASE BaseHolds(input[r], file[input[r].path])
    <3>1. Abstract!Propose(job[r], input[r])
      <4>1. draft[job[r]] = None /\ job[r] \in DraftIds
        BY <1>14 DEF CreateFinish, JobInv, RowInv
      <4>2. draft' = [draft EXCEPT ![job[r]] = input[r]] /\ UNCHANGED <<file, version, edits>>
        BY <1>14, <2>1 DEF CreateFinish
      <4>3. \A q \in Requests :
              (pc[q] = "written" \/ pc'[q] = "written") =>
                pc'[q] = pc[q] /\ job'[q] = job[q]
        BY <1>14 DEF CreateFinish
      <4>4. ASSUME NEW d \in DraftIds
            PROVE  Changed(d)' <=> Changed(d)
        BY <4>2, <4>3 DEF Changed
      <4>5. UNCHANGED [d \in DraftIds |-> Changed(d)]
        BY <4>4, Zenon DEF Changed
      <4> QED
        BY <2>1, <4>1, <4>2, <4>5 DEF Abstract!Propose
    <3>2. job[r] \in DraftIds /\ input[r] \in Rows
      BY <1>14 DEF CreateFinish, JobInv
    <3> QED
      BY <3>1, <3>2, Zenon DEF Abstract!Next
  <2>2. CASE ~BaseHolds(input[r], file[input[r].path])
    <3>1. Quiet
      BY <1>14, <2>2 DEF Quiet, CreateFinish
    <3> QED
      BY <3>1, QuietStep
  <2> QED
    BY <2>1, <2>2
<1>15. ASSUME NEW r \in Requests, WriteFile(r)
      PROVE  Goal
  <2>1. /\ job[r] \in DraftIds
        /\ draft[job[r]] # None
        /\ BaseHolds(draft[job[r]], file[draft[job[r]].path])
    BY <1>15 DEF WriteFile, JobInv, RowInv, WindowInv, DraftPoints, Points,
                FilePoints
  <2>2. UNCHANGED <<draft, version, edits, job>>
    BY <1>15 DEF WriteFile
  <2>3. /\ pc'[r] = "written"
        /\ \A s \in Requests : s # r => pc'[s] = pc[s]
        /\ pc[r] # "written"
    BY <1>15 DEF WriteFile
  <2>4. ASSUME NEW d \in DraftIds
        PROVE  Changed(d)' <=> (d = job[r] \/ Changed(d))
    BY <2>1, <2>2, <2>3 DEF Changed
  <2>5. [d \in DraftIds |-> Changed(d)]' =
          [[d \in DraftIds |-> Changed(d)] EXCEPT ![job[r]] = TRUE]
    BY <2>1, <2>4, Zenon DEF Changed
  <2>6. Abstract!Apply(job[r])
    BY <1>15, <2>1, <2>2, <2>5 DEF WriteFile, Abstract!Apply
  <2> QED
    BY <2>1, <2>6 DEF Abstract!Next
<1>16. ASSUME NEW r \in Requests, RecordVersion(r)
      PROVE  Goal
  <2>1. job[r] \in DraftIds /\ pc[r] = "written"
    BY <1>16 DEF RecordVersion, JobInv, DraftPoints, Points, AppliedPoints
  <2>2. seen[r] # None
    BY <2>1 DEF SourceInv, BaseHolds, Readable, FileContents
  <2>3. /\ version' = [version EXCEPT ![job[r]] = seen[r]]
        /\ UNCHANGED <<file, draft, edits, job>>
        /\ pc'[r] # "written"
        /\ \A s \in Requests : s # r => pc'[s] = pc[s]
    BY <1>16 DEF RecordVersion
  <2>4. ASSUME NEW d \in DraftIds
        PROVE  Changed(d)' <=> Changed(d)
    BY <2>1, <2>2, <2>3 DEF Changed
  <2>5. UNCHANGED [d \in DraftIds |-> Changed(d)]
    BY <2>4, Zenon DEF Changed
  <2> QED
    BY <2>3, <2>5 DEF Abstract!abstractVars
<1>17. ASSUME NEW r \in Requests, RestoreFile(r)
      PROVE  Goal
  <2>1. CASE UNCHANGED file
    <3>1. Quiet
      BY <1>17, <2>1 DEF Quiet, RestoreFile
    <3> QED
      BY <3>1, QuietStep
  <2>2. CASE file' = [file EXCEPT ![draft[job[r]].path] = seen[r]]
    <3>1. /\ job[r] \in DraftIds
          /\ version[job[r]] # None
          /\ BaseHolds(draft[job[r]], seen[r])
      BY <1>17 DEF RestoreFile, JobInv, RecordedInv, SourceInv, CanRestore,
                   DraftPoints, Points, FilePoints, FileContents
    <3>2. seen[r] \in FileContents
      BY <3>1 DEF BaseHolds, Readable, FileContents
    <3>3. /\ UNCHANGED <<draft, version, edits>>
          /\ \A q \in Requests :
               (pc[q] = "written" \/ pc'[q] = "written") =>
                 pc'[q] = pc[q] /\ job'[q] = job[q]
      BY <1>17 DEF RestoreFile
    <3>4. ASSUME NEW d \in DraftIds
          PROVE  Changed(d)' <=> Changed(d)
      BY <3>3 DEF Changed
    <3>5. UNCHANGED [d \in DraftIds |-> Changed(d)]
      BY <3>4, Zenon DEF Changed
    <3>6. Abstract!Restore(job[r])
      BY <2>2, <3>1, <3>2, <3>3, <3>5 DEF Abstract!Restore, Changed
    <3> QED
      BY <3>1, <3>6 DEF Abstract!Next
  <2> QED
    BY <1>17, <2>1, <2>2 DEF RestoreFile
<1>18. ASSUME NEW r \in Requests, RemoveFile(r)
      PROVE  Goal
  <2>1. CASE UNCHANGED file
    <3>1. Quiet
      BY <1>18, <2>1 DEF Quiet, RemoveFile
    <3> QED
      BY <3>1, QuietStep
  <2>2. CASE file' = [file EXCEPT ![draft[job[r]].path] = Absent]
    <3>1. /\ job[r] \in DraftIds
          /\ version[job[r]] # None
          /\ BaseHolds(draft[job[r]], Absent)
      BY <1>18 DEF RemoveFile, JobInv, RecordedInv, SourceInv, CanRestore,
                   DraftPoints, Points, FilePoints, FileContents
    <3>2. Absent \in FileContents
      BY <3>1 DEF BaseHolds, Readable, FileContents
    <3>3. /\ UNCHANGED <<draft, version, edits>>
          /\ \A q \in Requests :
               (pc[q] = "written" \/ pc'[q] = "written") =>
                 pc'[q] = pc[q] /\ job'[q] = job[q]
      BY <1>18 DEF RemoveFile
    <3>4. ASSUME NEW d \in DraftIds
          PROVE  Changed(d)' <=> Changed(d)
      BY <3>3 DEF Changed
    <3>5. UNCHANGED [d \in DraftIds |-> Changed(d)]
      BY <3>4, Zenon DEF Changed
    <3>6. Abstract!Restore(job[r])
      BY <2>2, <3>1, <3>2, <3>3, <3>5 DEF Abstract!Restore, Changed
    <3> QED
      BY <3>1, <3>6 DEF Abstract!Next
  <2> QED
    BY <1>18, <2>1, <2>2 DEF RemoveFile
<1>19. ASSUME NEW r \in Requests, RequestFails(r)
      PROVE  Goal
  <2>1. CASE pc[r] # "written"
    <3>1. Quiet
      BY <1>19, <2>1 DEF Quiet, RequestFails
    <3> QED
      BY <3>1, QuietStep
  <2>2. CASE pc[r] = "written"
    <3>1. \A s \in Requests : pc[s] = "written" => s = r
      BY <2>2, OneWriter
    <3>2. /\ \A s \in Requests : pc'[s] # "written"
          /\ UNCHANGED <<file, draft, version, edits>>
      BY <1>19, <2>2, <3>1 DEF RequestFails
    <3> QED
      BY <2>2, <3>1, <3>2, ForgetStep
  <2> QED
    BY <2>1, <2>2
<1>20. ASSUME NEW p \in Paths, NEW c \in HandEdits, Edit(p, c)
      PROVE  Goal
  <2>1. /\ UNCHANGED <<draft, version, pc, job>>
        /\ file' = [file EXCEPT ![p] = c]
        /\ edits' = edits + 1
        /\ c \in FileContents
    BY <1>20 DEF Edit
  <2>2. ASSUME NEW d \in DraftIds
        PROVE  Changed(d)' <=> Changed(d)
    BY <2>1 DEF Changed
  <2>3. UNCHANGED [d \in DraftIds |-> Changed(d)]
    BY <2>2, Zenon DEF Changed
  <2>4. Abstract!Edit(p, c)
    BY <2>1, <2>3 DEF Abstract!Edit
  <2> QED
    BY <2>1, <2>4 DEF Abstract!Next
<1>21. ASSUME Crash
      PROVE  Goal
  <2>1. /\ UNCHANGED <<file, draft, version, edits>>
        /\ \A s \in Requests : pc'[s] # "written"
    BY <1>21 DEF Crash
  <2>2. CASE \A s \in Requests : pc[s] # "written"
    <3>1. Quiet
      BY <2>1, <2>2 DEF Quiet
    <3> QED
      BY <3>1, QuietStep
  <2>3. CASE \E s \in Requests : pc[s] = "written"
    <3>1. PICK s \in Requests : pc[s] = "written"
      BY <2>3
    <3>2. \A q \in Requests : pc[q] = "written" => q = s
      BY <3>1, OneWriter
    <3> QED
      BY <2>1, <3>1, <3>2, ForgetStep
  <2> QED
    BY <2>2, <2>3
<1> HIDE DEF Goal, Quiet, TypeOK, Finish, Begin, Resume, Log, ha, tables, locals,
             bounds
<1>22. ASSUME Quiet
       PROVE  Goal
  BY <1>22, QuietStep DEF Goal
<1>23. ASSUME NEW r \in Requests, Work(r)
       PROVE  Goal
  BY <1>2, <1>3, <1>4, <1>5, <1>6, <1>8, <1>9, <1>10, <1>11, <1>12, <1>14,
     <1>15, <1>16, <1>17, <1>18, <1>22, <1>23 DEF Work
<1>24. Goal
  BY <1>1, <1>7, <1>13, <1>19, <1>20, <1>21, <1>22, <1>23 DEF Next
<1> QED
  BY <1>24 DEF Goal

\* With the local backend and no edits in the window, every behaviour of the
\* workflow is one of ConfigChange: a draft's content gets into its file by a
\* compare-and-swap, and is taken back to what the draft was made from.
THEOREM Refinement ==
  ASSUME ~Yields, Window \subseteq HandsOff
  PROVE  Spec => ImplementsConfigChange
<1>1. LocalInv /\ [Next]_vars => [Abstract!Next]_Abstract!abstractVars
  BY AbstractStep
<1> QED
  BY <1>1, AbstractInit, LocalInvariant, PTL
     DEF Spec, ImplementsConfigChange, Abstract!Spec

-----------------------------------------------------------------------------
(* A rollback is final *)

\* Only an apply under way sets the status of a draft that was rolled back.
LEMMA FinalStep ==
  ASSUME TypeOK, JobInv, OneApplyInv, Next,
         NEW d \in DraftIds, status[d] = "rolled_back"
  PROVE  status'[d] = "rolled_back"
<1> USE DEF TypeOK, JobInv, OneApplyInv, ApplyPoints, OpenPoints, AppliedPoints, tables
<1>1. ASSUME NEW r \in Requests, Start(r) \/ HaCheck(r) \/ RequestFails(r)
      PROVE  status' = status
  BY <1>1 DEF Start, CreateStart, ApplyStart, RollbackStart, HaCheck, RequestFails
<1>2. ASSUME NEW r \in Requests,
             CreateFinish(r) \/ MarkFailed(r) \/ MarkApplied(r) \/ MarkRolledBack(r)
      PROVE  status'[d] = "rolled_back"
  BY <1>2 DEF CreateFinish, MarkFailed, MarkApplied, MarkRolledBack
<1>3. ASSUME NEW r \in Requests,
             \/ CheckHash(r) \/ CheckExists(r) \/ SaveBackup(r) \/ WriteFile(r)
             \/ RecordVersion(r) \/ StartReload(r) \/ HaReload(r)
      PROVE  status' = status
  BY <1>3 DEF CheckHash, CheckExists, SaveBackup, WriteFile, RecordVersion,
              StartReload, HaReload
<1>4. ASSUME NEW r \in Requests,
             RestoreFile(r) \/ CheckCreated(r) \/ RemoveFile(r) \/ RecordAudit(r)
      PROVE  status' = status
  BY <1>4 DEF RestoreFile, CheckCreated, RemoveFile, RecordAudit
<1>5. ASSUME (\E p \in Paths, c \in HandEdits : Edit(p, c)) \/ LateReload \/ Crash
      PROVE  status' = status
  BY <1>5 DEF Edit, LateReload, Crash
<1> HIDE DEF TypeOK, JobInv, OneApplyInv
<1> QED
  BY <1>1, <1>2, <1>3, <1>4, <1>5 DEF Next, Work

\* No other handler moves while one holds the loop, and an open apply is left
\* alone by everybody: another apply of its draft would find another content.
LEMMA OneApplyStep ==
  ASSUME ~Yields, LocalInv, OneApplyInv, BaseStaysGone, [Next]_vars
  PROVE  OneApplyInv'
<1>0. TypeOK /\ JobInv /\ RecordedInv /\ LoopInv /\ WindowInv
  BY DEF LocalInv, IInv
<1> USE ValueAssumption, <1>0
    DEF TypeOK, JobInv, LoopInv, OneApplyInv, Window, OpenPoints, ApplyPoints,
        Points, DraftPoints, FilePoints, AppliedPoints, UndonePoints,
        ha, tables, locals, bounds, Begin, Finish, Resume, Free, FileAwait
<1>1. ASSUME NEW r \in Requests, Start(r)
      PROVE  OneApplyInv'
  BY <1>1 DEF Start, CreateStart, ApplyStart, RollbackStart, MayApply
<1>2. ASSUME NEW r \in Requests, CreateFinish(r) \/ RequestFails(r)
      PROVE  OneApplyInv'
  BY <1>2 DEF CreateFinish, RequestFails
<1>3. ASSUME NEW r \in Requests, CheckHash(r) \/ CheckExists(r) \/ SaveBackup(r)
      PROVE  OneApplyInv'
  BY <1>3 DEF CheckHash, CheckExists, SaveBackup
<1>4. ASSUME NEW r \in Requests, WriteFile(r)
      PROVE  OneApplyInv'
  <2>1. BaseHolds(draft[job[r]], file[draft[job[r]].path])
    BY <1>4 DEF WriteFile, WindowInv
  <2>2. \A s \in Requests : pc[s] \in OpenPoints => job[s] # job[r]
    BY <2>1 DEF BaseStaysGone
  <2> QED
    BY <1>4, <2>2 DEF WriteFile
<1>5. ASSUME NEW r \in Requests,
             RecordVersion(r) \/ HaCheck(r) \/ StartReload(r) \/ HaReload(r)
      PROVE  OneApplyInv'
  BY <1>5 DEF RecordVersion, HaCheck, StartReload, HaReload
<1>6. ASSUME NEW r \in Requests, MarkFailed(r) \/ MarkApplied(r)
      PROVE  OneApplyInv'
  BY <1>6 DEF MarkFailed, MarkApplied
<1>7. ASSUME NEW r \in Requests, RestoreFile(r) \/ CheckCreated(r) \/ RemoveFile(r)
      PROVE  OneApplyInv'
  BY <1>7 DEF RestoreFile, CheckCreated, RemoveFile
<1>8. ASSUME NEW r \in Requests, MarkRolledBack(r)
      PROVE  OneApplyInv'
  BY <1>8 DEF MarkRolledBack, RecordedInv
<1>9. ASSUME NEW r \in Requests, RecordAudit(r)
      PROVE  OneApplyInv'
  BY <1>9 DEF RecordAudit, AuditEntry
<1>10. ASSUME \/ \E p \in Paths, c \in HandEdits : Edit(p, c)
              \/ LateReload \/ Crash \/ UNCHANGED vars
       PROVE  OneApplyInv'
  BY <1>10 DEF Edit, LateReload, Crash, vars
<1> HIDE <1>0 DEF OneApplyInv, TypeOK
<1> QED
  BY <1>1, <1>2, <1>3, <1>4, <1>5, <1>6, <1>7, <1>8, <1>9, <1>10 DEF Next, Work

\* With the local backend a draft that was rolled back stays so, unless a file
\* becomes again what a draft was made from while an apply of it is open.
THEOREM FinalUnlessBaseReturns ==
  ASSUME ~Yields, Window \subseteq HandsOff
  PROVE  Spec /\ []BaseStaysGone => RolledBackIsFinal
<1>1. Init => OneApplyInv
  BY DEF Init, OneApplyInv, ApplyPoints, Window, OpenPoints, AppliedPoints
<1>2. LocalInv /\ OneApplyInv /\ BaseStaysGone /\ [Next]_vars => OneApplyInv'
  BY OneApplyStep
<1>3. LocalInv /\ OneApplyInv /\ [Next]_vars =>
        [\A d \in DraftIds :
           status[d] = "rolled_back" => status'[d] = "rolled_back"]_vars
  BY FinalStep DEF LocalInv, IInv
<1> QED
  BY <1>1, <1>2, <1>3, LocalInvariant, PTL DEF Spec, RolledBackIsFinal
=============================================================================
