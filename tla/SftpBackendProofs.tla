-------------------------- MODULE SftpBackendProofs --------------------------
(***************************************************************************)
(* What holds of the SFTP backend for any number of calls and files, with  *)
(* every kind of fault.                                                    *)
(***************************************************************************)
EXTENDS SftpBackend, TLAPS

\* What a call has achieved, by the point it is at. A write waits for its
\* cleanup with the outcome "ok" only after its rename.
CallInv ==
  \A t \in Tasks :
    /\ pc[t] = "idle" <=> call[t] = None
    /\ pc[t] \in WritePoints \cup {"cleanup"} => call[t].kind = "write"
    /\ pc[t] = "look" => call[t].kind # "write"
    /\ pc[t] \in {"fetch", "receive"} => call[t].kind = "read"
    /\ pc[t] \in {"remove", "removed"} => call[t].kind = "delete"
    /\ pc[t] \in {"recheck", "removed"} => done[t] = "ok"
    /\ pc[t] = "receive" => done[t] \in Contents
    /\ done[t] # None => pc[t] \in {"recheck", "cleanup", "removed", "receive"}
    /\ pc[t] = "rename" => temp[t] = call[t].content
    /\ pc[t] = "recheck" => temp[t] = Absent
    /\ pc[t] = "cleanup" => outcome[t] \in {"ok", "failed"}
    /\ pc[t] = "cleanup" /\ outcome[t] = "ok" => done[t] = "ok" /\ temp[t] = Absent
    /\ temp[t] # Absent => pc[t] \in WritePoints \cup {"cleanup"}

IInv == TypeOK /\ CallInv

\* The arguments of a call.
LEMMA Arguments ==
  ASSUME IInv, NEW t \in Tasks, pc[t] # "idle"
  PROVE  /\ call[t] \in Calls
         /\ Path(t) \in Paths
         /\ call[t].kind \in {"read", "write", "delete"}
         /\ Effect(call[t]) \in Contents \cup {Absent}
         /\ call[t].kind = "write" => call[t].content \in Contents
<1>1. call[t] \in Calls
  BY DEF IInv, CallInv, TypeOK
<1> QED
  BY <1>1, DataAssumption DEF CallType, Path, Effect

LEMMA InitInv == Init => IInv
BY ValueAssumption
   DEF Init, IInv, TypeOK, CallInv, Points, WritePoints, CallPoints

\* Every action keeps the types ...
LEMMA TypeStep ==
  ASSUME IInv, [Next]_vars
  PROVE  TypeOK'
<1>0. \A t \in Tasks : pc[t] # "idle" =>
        /\ call[t] \in Calls
        /\ Path(t) \in Paths
        /\ call[t].kind \in {"read", "write", "delete"}
        /\ Effect(call[t]) \in Contents \cup {Absent}
        /\ call[t].kind = "write" => call[t].content \in Contents
  BY Arguments
<1>00. TypeOK /\ CallInv
  BY DEF IInv
<1> USE <1>0, <1>00, DataAssumption
    DEF TypeOK, Results, FileContents, Points, WritePoints, CallPoints, Move,
        End, Leave, ToCleanup, progress
<1>1. ASSUME NEW t \in Tasks, NEW c \in Calls, Invoke(t, c)
      PROVE  TypeOK'
  BY <1>1 DEF Invoke
<1>2. ASSUME NEW t \in Tasks, Connect(t)
      PROVE  TypeOK'
  BY <1>2 DEF Connect
<1>3. ASSUME NEW t \in Tasks, FindFolder(t)
      PROVE  TypeOK'
  BY <1>3 DEF FindFolder
<1>4. ASSUME NEW t \in Tasks, MakeFolder(t)
      PROVE  TypeOK'
  BY <1>4 DEF MakeFolder
<1>5. ASSUME NEW t \in Tasks, CheckTarget(t)
      PROVE  TypeOK'
  BY <1>5 DEF CheckTarget
<1>6. ASSUME NEW t \in Tasks, OpenTemp(t)
      PROVE  TypeOK'
  BY <1>6 DEF OpenTemp
<1>7. ASSUME NEW t \in Tasks, WriteTemp(t)
      PROVE  TypeOK'
  BY <1>7 DEF WriteTemp, CallInv
<1>8. ASSUME NEW t \in Tasks, Rename(t)
      PROVE  TypeOK'
  BY <1>8 DEF Rename, CallInv
<1>9. ASSUME NEW t \in Tasks, Recheck(t)
      PROVE  TypeOK'
  BY <1>9 DEF Recheck
<1>10. ASSUME NEW t \in Tasks, CleanUp(t)
       PROVE  TypeOK'
  BY <1>10 DEF CleanUp, CallInv
<1>11. ASSUME NEW t \in Tasks, Look(t)
       PROVE  TypeOK'
  <2>1. CASE file[Path(t)] \in Contents
    BY <1>11, <2>1 DEF Look
  <2>2. CASE ~(file[Path(t)] \in Contents)
    BY <1>11, <2>2 DEF Look
  <2> QED
    BY <2>1, <2>2
<1>12. ASSUME NEW t \in Tasks, Fetch(t)
       PROVE  TypeOK'
  <2>1. CASE file[Path(t)] \in Contents
    BY <1>12, <2>1 DEF Fetch
  <2>2. CASE ~(file[Path(t)] \in Contents)
    <3>1. End(t, "not_found") /\ UNCHANGED <<file, folder, litter, stray, edits>>
      BY <1>12, <2>2 DEF Fetch
    <3> QED
      BY <3>1
  <2> QED
    BY <2>1, <2>2
<1>13. ASSUME NEW t \in Tasks, Remove(t)
       PROVE  TypeOK'
  <2>1. CASE file[Path(t)] \in Contents
    BY <1>13, <2>1 DEF Remove
  <2>2. CASE ~(file[Path(t)] \in Contents)
    <3>1. End(t, "not_found") /\ UNCHANGED <<file, folder, litter, stray, edits>>
      BY <1>13, <2>2 DEF Remove
    <3> QED
      BY <3>1
  <2> QED
    BY <2>1, <2>2
<1>14. ASSUME NEW t \in Tasks, Receive(t)
       PROVE  TypeOK'
  BY <1>14 DEF Receive, CallInv
<1>15. ASSUME NEW t \in Tasks, RefuseWrite(t)
       PROVE  TypeOK'
  BY <1>15 DEF RefuseWrite
<1>16. ASSUME NEW t \in Tasks, RefuseCall(t)
       PROVE  TypeOK'
  BY <1>16 DEF RefuseCall
<1>17. ASSUME NEW t \in Tasks, RefuseCleanup(t)
       PROVE  TypeOK'
  BY <1>17 DEF RefuseCleanup, CallInv
<1>18. ASSUME NEW t \in Tasks, Timeout(t)
       PROVE  TypeOK'
  <2>1. CASE pc[t] \in WritePoints
    BY <1>18, <2>1 DEF Timeout
  <2>2. CASE ~(pc[t] \in WritePoints)
    <3>1. /\ End(t, "failed") /\ Leave(t) /\ pc[t] # "idle"
          /\ UNCHANGED <<file, folder, stray, edits>>
      BY <1>18, <2>2 DEF Timeout
    <3> QED
      BY <3>1
  <2> QED
    BY <2>1, <2>2
<1>19. ASSUME NEW t \in Tasks, Lose(t)
       PROVE  TypeOK'
  BY <1>19 DEF Lose, CallInv
<1>20. ASSUME NEW s \in stray, Straggle(s)
       PROVE  TypeOK'
  BY <1>20 DEF Straggle
<1>21. ASSUME NEW p \in Paths, NEW c \in HandEdits, Edit(p, c)
       PROVE  TypeOK'
  BY <1>21 DEF Edit
<1>22. ASSUME UNCHANGED vars
       PROVE  TypeOK'
  BY <1>22 DEF vars
<1> HIDE DEF TypeOK
<1> QED
  BY <1>1, <1>2, <1>3, <1>4, <1>5, <1>6, <1>7, <1>8, <1>9, <1>10, <1>11,
     <1>12, <1>13, <1>14, <1>15, <1>16, <1>17, <1>18, <1>19, <1>20, <1>21,
     <1>22 DEF Next, Answer

\* ... and what is known of each call.
LEMMA CallStep ==
  ASSUME IInv, [Next]_vars
  PROVE  CallInv'
<1>0. \A t \in Tasks : pc[t] # "idle" =>
        /\ call[t] \in Calls
        /\ Path(t) \in Paths
        /\ call[t].kind \in {"read", "write", "delete"}
        /\ Effect(call[t]) \in Contents \cup {Absent}
        /\ call[t].kind = "write" => call[t].content \in Contents
  BY Arguments
<1>00. TypeOK /\ CallInv
  BY DEF IInv
<1> USE <1>0, <1>00, ValueAssumption
    DEF TypeOK, CallInv, Results, FileContents, Points, WritePoints, CallPoints,
        Move, End, ToCleanup, progress
<1>1. ASSUME NEW t \in Tasks, NEW c \in Calls, Invoke(t, c)
      PROVE  CallInv'
  BY <1>1 DEF Invoke
<1>2. ASSUME NEW t \in Tasks, Connect(t)
      PROVE  CallInv'
  BY <1>2 DEF Connect
<1>3. ASSUME NEW t \in Tasks, FindFolder(t)
      PROVE  CallInv'
  BY <1>3 DEF FindFolder
<1>4. ASSUME NEW t \in Tasks, MakeFolder(t)
      PROVE  CallInv'
  BY <1>4 DEF MakeFolder
<1>5. ASSUME NEW t \in Tasks, CheckTarget(t)
      PROVE  CallInv'
  BY <1>5 DEF CheckTarget
<1>6. ASSUME NEW t \in Tasks, OpenTemp(t)
      PROVE  CallInv'
  BY <1>6 DEF OpenTemp
<1>7. ASSUME NEW t \in Tasks, WriteTemp(t)
      PROVE  CallInv'
  BY <1>7 DEF WriteTemp
<1>8. ASSUME NEW t \in Tasks, Rename(t)
      PROVE  CallInv'
  BY <1>8 DEF Rename
<1>9. ASSUME NEW t \in Tasks, Recheck(t)
      PROVE  CallInv'
  BY <1>9 DEF Recheck
<1>10. ASSUME NEW t \in Tasks, CleanUp(t)
       PROVE  CallInv'
  BY <1>10 DEF CleanUp
<1>11. ASSUME NEW t \in Tasks, Look(t)
       PROVE  CallInv'
  <2>1. CASE file[Path(t)] \in Contents
    BY <1>11, <2>1 DEF Look
  <2>2. CASE ~(file[Path(t)] \in Contents)
    <3>1. \E r \in {"not_found", "failed"} : End(t, r)
      BY <1>11, <2>2 DEF Look
    <3> QED
      BY <3>1
  <2> QED
    BY <2>1, <2>2
<1>12. ASSUME NEW t \in Tasks, Fetch(t)
       PROVE  CallInv'
  BY <1>12 DEF Fetch
<1>13. ASSUME NEW t \in Tasks, Remove(t)
       PROVE  CallInv'
  BY <1>13 DEF Remove
<1>14. ASSUME NEW t \in Tasks, Receive(t)
       PROVE  CallInv'
  BY <1>14 DEF Receive
<1>15. ASSUME NEW t \in Tasks, RefuseWrite(t)
       PROVE  CallInv'
  BY <1>15 DEF RefuseWrite
<1>16. ASSUME NEW t \in Tasks, RefuseCall(t)
       PROVE  CallInv'
  BY <1>16 DEF RefuseCall
<1>17. ASSUME NEW t \in Tasks, RefuseCleanup(t)
       PROVE  CallInv'
  BY <1>17 DEF RefuseCleanup
<1>18. ASSUME NEW t \in Tasks, Timeout(t)
       PROVE  CallInv'
  BY <1>18 DEF Timeout
<1>19. ASSUME NEW t \in Tasks, Lose(t)
       PROVE  CallInv'
  BY <1>19 DEF Lose
<1>20. ASSUME NEW s \in stray, Straggle(s)
       PROVE  CallInv'
  BY <1>20 DEF Straggle
<1>21. ASSUME NEW p \in Paths, NEW c \in HandEdits, Edit(p, c)
       PROVE  CallInv'
  BY <1>21 DEF Edit
<1>22. ASSUME UNCHANGED vars
       PROVE  CallInv'
  BY <1>22 DEF vars
<1> HIDE DEF CallInv
<1> QED
  BY <1>1, <1>2, <1>3, <1>4, <1>5, <1>6, <1>7, <1>8, <1>9, <1>10, <1>11,
     <1>12, <1>13, <1>14, <1>15, <1>16, <1>17, <1>18, <1>19, <1>20, <1>21,
     <1>22 DEF Next, Answer

LEMMA InvStep ==
  ASSUME IInv, [Next]_vars
  PROVE  IInv'
BY TypeStep, CallStep DEF IInv

-----------------------------------------------------------------------------
(* Theorems *)

\* What each call has achieved is known at each point.
THEOREM Invariant == Spec => []IInv
<1>1. Init => IInv
  BY InitInv
<1>2. IInv /\ [Next]_vars => IInv'
  BY InvStep
<1> QED
  BY <1>1, <1>2, PTL DEF Spec

\* Types; a target never holds an unfinished content.
THEOREM TypeCorrect == Spec => []TypeOK
<1>1. IInv => TypeOK
  BY DEF IInv
<1> QED
  BY <1>1, Invariant, PTL

\* A call that returns "ok" or a content leaves no temporary file behind.
THEOREM SuccessLeavesNoLitter == Spec => LitterOnlyOnFailure
<1>1. ASSUME IInv, [Next]_vars, litter' # litter
      PROVE  \E t \in Tasks : call[t] # None /\ result'[t] = "failed"
  <2>1. TypeOK /\ CallInv
    BY <1>1 DEF IInv
  <2> USE <1>1, <2>1
      DEF Move, End, Leave, ToCleanup, progress
  <2>2. PICK t \in Tasks : RefuseCleanup(t) \/ Timeout(t) \/ Lose(t)
    <3>1. ASSUME NEW t \in Tasks, NEW c \in Calls, Invoke(t, c)
          PROVE  FALSE
      BY <3>1 DEF Invoke
    <3>2. ASSUME NEW t \in Tasks, Answer(t), ~RefuseCleanup(t)
          PROVE  FALSE
      BY <3>2 DEF Answer, Connect, FindFolder, MakeFolder, CheckTarget,
                  OpenTemp, WriteTemp, Rename, Recheck, CleanUp, Look, Fetch,
                  Remove, Receive, RefuseWrite, RefuseCall
    <3>3. ~\E s \in stray : Straggle(s)
      BY DEF Straggle
    <3>4. ~\E p \in Paths, c \in HandEdits : Edit(p, c)
      BY DEF Edit
    <3>5. ~UNCHANGED vars
      BY DEF vars
    <3> HIDE DEF End, Leave
    <3> QED
      BY <3>1, <3>2, <3>3, <3>4, <3>5 DEF Next
  <2>3. call[t] # None /\ temp \in [Tasks -> Contents \cup {Absent, Part}]
    BY <2>2 DEF TypeOK, CallInv, RefuseCleanup, Timeout, Lose, CallPoints
  <2>4. result'[t] = "failed"
    BY <2>2, ValueAssumption
       DEF TypeOK, CallInv, RefuseCleanup, Timeout, Lose, WritePoints
  <2> QED
    BY <2>3, <2>4
<1>2. IInv /\ [Next]_vars =>
        [litter' # litter =>
           \E t \in Tasks : call[t] # None /\ result'[t] = "failed"]_vars
  BY <1>1
<1> QED
  BY <1>2, Invariant, PTL DEF Spec, LitterOnlyOnFailure

-----------------------------------------------------------------------------
(* The backend implements FileStore *)

\* How a call ends, as its caller sees it.
LEMMA ReturnStep ==
  ASSUME IInv, NEW t \in Tasks, pc[t] # "idle",
         NEW r \in Results, End(t, r),
         \/ r = done[t]
         \/ r = "failed"
         \/ /\ r = "not_found" /\ call[t].kind # "write" /\ done[t] = None
            /\ file[Path(t)] \notin Contents,
         \/ UNCHANGED stray
         \/ /\ r = "failed" /\ done[t] = None /\ call[t].kind # "read"
            /\ stray' = stray \cup {<<Path(t), Effect(call[t])>>},
         UNCHANGED <<file, edits>>
  PROVE  Store!Return(t, r)
BY ValueAssumption
   DEF IInv, CallInv, End, Path, Effect, Store!Return, Store!Effect

LEMMA StoreStep ==
  ASSUME IInv, [Next]_vars
  PROVE  [Store!Next]_Store!storeVars
<1> DEFINE Goal == [Store!Next]_Store!storeVars
           Returns(t) == \E r \in Results : Store!Return(t, r)
<1>0. TypeOK /\ CallInv
  BY DEF IInv
<1> USE <1>0, ValueAssumption DEF Move, ToCleanup, progress, Store!storeVars
<1>1. ASSUME NEW t \in Tasks, NEW c \in Calls, Invoke(t, c)
      PROVE  Store!Invoke(t, c)
  BY <1>1 DEF Invoke, Store!Invoke, CallInv
<1>2. ASSUME NEW t \in Tasks,
             \/ Connect(t) \/ FindFolder(t) \/ MakeFolder(t) \/ CheckTarget(t)
             \/ OpenTemp(t) \/ WriteTemp(t) \/ Recheck(t) \/ RefuseWrite(t)
      PROVE  UNCHANGED Store!storeVars
  BY <1>2 DEF Connect, FindFolder, MakeFolder, CheckTarget, OpenTemp,
              WriteTemp, Recheck, RefuseWrite
<1>3. ASSUME NEW t \in Tasks, Rename(t)
      PROVE  Store!Change(t)
  BY <1>3 DEF Rename, Store!Change, Store!Effect, CallInv, WritePoints, Path
<1>4. ASSUME NEW t \in Tasks, CleanUp(t) \/ RefuseCleanup(t)
      PROVE  Returns(t)
  <2>1. /\ pc[t] = "cleanup" /\ outcome[t] \in {"ok", "failed"}
        /\ End(t, outcome[t]) /\ UNCHANGED <<file, stray, edits>>
    BY <1>4 DEF CleanUp, RefuseCleanup, CallInv
  <2>2. outcome[t] = done[t] \/ outcome[t] = "failed"
    BY <2>1 DEF CallInv
  <2> QED
    BY <2>1, <2>2, ReturnStep DEF Results
<1>5. ASSUME NEW t \in Tasks, Look(t)
      PROVE  Goal
  <2>1. CASE file[Path(t)] \in Contents
    BY <1>5, <2>1 DEF Look, Goal
  <2>2. CASE file[Path(t)] \notin Contents
    <3>1. PICK r \in {"not_found", "failed"} : End(t, r)
      BY <1>5, <2>2 DEF Look
    <3>2. /\ pc[t] = "look" /\ done[t] = None /\ call[t].kind # "write"
          /\ UNCHANGED <<file, stray, edits>>
      BY <1>5 DEF Look, CallInv
    <3>3. Store!Return(t, r)
      BY <2>2, <3>1, <3>2, ReturnStep DEF Results
    <3> QED
      BY <3>3 DEF Goal, Store!Next
  <2> QED
    BY <2>1, <2>2
<1>6. ASSUME NEW t \in Tasks, Fetch(t)
      PROVE  Goal
  <2>0. pc[t] = "fetch" /\ done[t] = None /\ call[t].kind = "read" /\ call[t] # None
    BY <1>6 DEF Fetch, CallInv
  <2>1. CASE file[Path(t)] \in Contents
    <3>1. Store!Read(t)
      BY <1>6, <2>0, <2>1 DEF Fetch, Store!Read, Path
    <3> QED
      BY <3>1 DEF Goal, Store!Next
  <2>2. CASE file[Path(t)] \notin Contents
    <3>1. End(t, "not_found") /\ UNCHANGED <<file, stray, edits>>
      BY <1>6, <2>2 DEF Fetch
    <3>2. Store!Return(t, "not_found")
      BY <2>0, <2>2, <3>1, ReturnStep DEF Results
    <3> QED
      BY <3>2 DEF Goal, Store!Next
  <2> QED
    BY <2>1, <2>2
<1>7. ASSUME NEW t \in Tasks, Remove(t)
      PROVE  Goal
  <2>0. /\ pc[t] = "remove" /\ done[t] = None /\ call[t].kind = "delete"
        /\ call[t] # None
    BY <1>7 DEF Remove, CallInv
  <2>1. CASE file[Path(t)] \in Contents
    <3>1. Store!Change(t)
      BY <1>7, <2>0, <2>1 DEF Remove, Store!Change, Store!Effect, Path
    <3> QED
      BY <3>1 DEF Goal, Store!Next
  <2>2. CASE file[Path(t)] \notin Contents
    <3>1. End(t, "not_found") /\ UNCHANGED <<file, stray, edits>>
      BY <1>7, <2>2 DEF Remove
    <3>2. Store!Return(t, "not_found")
      BY <2>0, <2>2, <3>1, ReturnStep DEF Results
    <3> QED
      BY <3>2 DEF Goal, Store!Next
  <2> QED
    BY <2>1, <2>2
<1>8. ASSUME NEW t \in Tasks, Receive(t)
      PROVE  Returns(t)
  <2>1. /\ pc[t] # "idle" /\ done[t] \in Results
        /\ End(t, done[t]) /\ UNCHANGED <<file, stray, edits>>
    BY <1>8 DEF Receive, CallInv, Results
  <2> QED
    BY <2>1, ReturnStep
<1>9. ASSUME NEW t \in Tasks, RefuseCall(t)
      PROVE  Returns(t)
  <2>1. pc[t] # "idle" /\ End(t, "failed") /\ UNCHANGED <<file, stray, edits>>
    BY <1>9 DEF RefuseCall, CallPoints
  <2> QED
    BY <2>1, ReturnStep DEF Results
<1>10. ASSUME NEW t \in Tasks, Timeout(t)
       PROVE  Goal
  <2>1. CASE pc[t] \in WritePoints
    BY <1>10, <2>1 DEF Timeout, Goal
  <2>2. CASE pc[t] \notin WritePoints
    <3>1. pc[t] # "idle" /\ End(t, "failed") /\ UNCHANGED <<file, stray, edits>>
      BY <1>10, <2>2 DEF Timeout
    <3>2. Store!Return(t, "failed")
      BY <3>1, ReturnStep DEF Results
    <3> QED
      BY <3>2 DEF Goal, Store!Next
  <2> QED
    BY <2>1, <2>2
<1>11. ASSUME NEW t \in Tasks, Lose(t)
       PROVE  Returns(t)
  <2>1. pc[t] # "idle" /\ UNCHANGED <<file, edits>>
    BY <1>11 DEF Lose
  <2>2. CASE pc[t] = "cleanup"
    <3>1. /\ outcome[t] \in {"ok", "failed"} /\ UNCHANGED stray
          /\ End(t, outcome[t])
      BY <1>11, <2>2 DEF Lose, CallInv
    <3>2. outcome[t] = done[t] \/ outcome[t] = "failed"
      BY <2>2, <3>1 DEF CallInv
    <3> QED
      BY <2>1, <3>1, <3>2, ReturnStep DEF Results
  <2>3. CASE pc[t] # "cleanup"
    <3>1. End(t, "failed")
      BY <1>11, <2>3 DEF Lose
    <3>2. \/ UNCHANGED stray
          \/ /\ done[t] = None /\ call[t].kind # "read"
             /\ stray' = stray \cup {<<Path(t), Effect(call[t])>>}
      BY <1>11 DEF Lose, CallInv, WritePoints
    <3> QED
      BY <2>1, <3>1, <3>2, ReturnStep DEF Results
  <2> QED
    BY <2>2, <2>3
<1>12. ASSUME NEW s \in stray, Straggle(s)
       PROVE  Store!Straggle(s)
  BY <1>12 DEF Straggle, Store!Straggle
<1>13. ASSUME NEW p \in Paths, NEW c \in HandEdits, Edit(p, c)
       PROVE  Store!Edit(p, c)
  BY <1>13 DEF Edit, Store!Edit
<1>14. ASSUME UNCHANGED vars
       PROVE  UNCHANGED Store!storeVars
  BY <1>14 DEF vars
<1> HIDE DEF Move, ToCleanup, progress, Store!storeVars
<1>15. ASSUME NEW t \in Tasks, Returns(t)
       PROVE  Goal
  BY <1>15 DEF Goal, Results, Store!Next
<1>16. ASSUME NEW t \in Tasks, Answer(t)
       PROVE  Goal
  <2>1. ASSUME Rename(t)
        PROVE  Goal
    BY <1>3, <2>1 DEF Goal, Store!Next
  <2> HIDE DEF Goal, Returns
  <2>2. ASSUME UNCHANGED Store!storeVars
        PROVE  Goal
    BY <2>2 DEF Goal
  <2> QED
    BY <1>2, <1>4, <1>5, <1>6, <1>7, <1>8, <1>9, <1>15, <1>16, <2>1, <2>2
       DEF Answer
<1>17. ASSUME NEW t \in Tasks, NEW c \in Calls, Invoke(t, c)
       PROVE  Goal
  BY <1>1, <1>17 DEF Goal, Store!Next
<1>18. ASSUME NEW s \in stray, Straggle(s)
       PROVE  Goal
  BY <1>12, <1>18 DEF Goal, Store!Next
<1>19. ASSUME NEW p \in Paths, NEW c \in HandEdits, Edit(p, c)
       PROVE  Goal
  BY <1>13, <1>19 DEF Goal, Store!Next
<1>20. ASSUME UNCHANGED vars
       PROVE  Goal
  BY <1>14, <1>20 DEF Goal
<1> HIDE DEF Goal, Returns
<1>21. Goal
  BY <1>10, <1>11, <1>15, <1>16, <1>17, <1>18, <1>19, <1>20 DEF Next
<1> QED
  BY <1>21 DEF Goal

\* Whatever fails, callers of the backend see a file store: files change as a
\* whole, a result tells what was so during the call, and a call has at most
\* one effect.
THEOREM Refinement == Spec => ImplementsFileStore
<1>1. Init => Store!Init
  BY DEF Init, Store!Init, FileContents
<1>2. IInv /\ [Next]_vars => [Store!Next]_Store!storeVars
  BY StoreStep
<1> QED
  BY <1>1, <1>2, Invariant, PTL DEF Spec, ImplementsFileStore, Store!Spec
=============================================================================
