----------------------------- MODULE SftpBackend -----------------------------
(***************************************************************************)
(* Reading, writing and deleting files behind SFTP (SftpFileBackend of     *)
(* services/file_backends.py). A write creates a temporary file beside its *)
(* target and renames it over the target. Every call has a connection of   *)
(* its own and one timeout, which cancels the call wherever it is and then *)
(* waits for its cleanup.                                                  *)
(*                                                                         *)
(* A task is a call in progress. An action is a request that the server    *)
(* performs and answers; between two of them other tasks run, a timeout    *)
(* may fire or a connection break. A request cancelled after the server    *)
(* performed it is one cancelled at the next point: the cleanup's requests *)
(* follow it on the same connection.                                       *)
(***************************************************************************)
EXTENDS Naturals

CONSTANTS
  Tasks,      \* calls that may be in progress at once
  Paths,      \* files of one directory
  Contents,   \* file contents
  Part,       \* an unfinished content
  Absent,     \* there is no such file
  Dir, Link,  \* a directory or a symbolic link is there instead
  None,       \* no value
  Calls,      \* calls of the file service
  HandEdits,  \* what an edit outside the proxy may leave in a file
  Faults,     \* kinds of faults that occur
  MaxEdits    \* bound on the edits

CallType == [kind : {"read", "write", "delete"}, path : Paths,
             content : Contents \cup {None}]

FileContents == Contents \cup {Absent, Dir, Link}

Results == Contents \cup {"ok", "not_found", "failed"}

ASSUME ValueAssumption ==
  /\ Absent \notin Contents /\ Dir \notin Contents /\ Link \notin Contents
  /\ Dir # Absent /\ Dir # Link
  /\ Part \notin FileContents
  /\ None \notin Results /\ None \notin Calls

ASSUME DataAssumption ==
  /\ Calls \subseteq CallType
  /\ \A c \in Calls : c.kind = "write" => c.content \in Contents
  /\ HandEdits \subseteq Contents \cup {Absent}
  /\ Faults \subseteq {"refusal", "timeout", "loss"}
  /\ MaxEdits \in Nat

VARIABLES
  file,     \* what is at each path
  folder,   \* the directory of the files is there
  temp,     \* the temporary file of each write
  litter,   \* paths beside which a temporary file stays for good
  stray,    \* requests a server may still perform after its client has gone
  pc,       \* the request each task waits for
  call,     \* the call it performs
  done,     \* what that achieved: the content opened, "ok", or None
  outcome,  \* what it returns after its cleanup
  expired,  \* its timeout has fired
  result,   \* what the latest call returned
  edits     \* edits so far

progress == <<call, done, outcome, expired, result>>
vars == <<file, folder, temp, litter, stray, pc, call, done, outcome, expired,
          result, edits>>

\* Points of _write_text inside the try, those before a call changes anything,
\* and all.
WritePoints == {"folder", "mkdir", "target", "open", "write", "rename", "recheck"}
CallPoints  == {"connect", "look", "fetch", "receive", "remove", "removed"}
Points      == {"idle", "cleanup"} \cup WritePoints \cup CallPoints

Path(t) == call[t].path

\* What a call leaves in its file.
Effect(c) == IF c.kind = "write" THEN c.content ELSE Absent

Init ==
  /\ folder \in BOOLEAN
  /\ file \in [Paths -> FileContents]
  /\ ~folder => \A p \in Paths : file[p] = Absent
  /\ temp = [t \in Tasks |-> Absent]
  /\ litter = {}
  /\ stray = {}
  /\ pc = [t \in Tasks |-> "idle"]
  /\ call = [t \in Tasks |-> None]
  /\ done = [t \in Tasks |-> None]
  /\ outcome = [t \in Tasks |-> None]
  /\ expired = [t \in Tasks |-> FALSE]
  /\ result = [t \in Tasks |-> None]
  /\ edits = 0

-----------------------------------------------------------------------------
(* How a call moves *)

Move(t, from, to) ==
  /\ pc[t] = from
  /\ pc' = [pc EXCEPT ![t] = to]

End(t, r) ==
  /\ pc' = [pc EXCEPT ![t] = "idle"]
  /\ call' = [call EXCEPT ![t] = None]
  /\ done' = [done EXCEPT ![t] = None]
  /\ outcome' = [outcome EXCEPT ![t] = None]
  /\ expired' = [expired EXCEPT ![t] = FALSE]
  /\ result' = [result EXCEPT ![t] = r]
  /\ temp' = [temp EXCEPT ![t] = Absent]

\* The temporary file, if there is one, stays behind.
Leave(t) ==
  litter' = IF temp[t] = Absent THEN litter ELSE litter \cup {Path(t)}

\* On to the finally clause of _write_text.
ToCleanup(t, r) ==
  /\ pc' = [pc EXCEPT ![t] = "cleanup"]
  /\ outcome' = [outcome EXCEPT ![t] = r]
  /\ UNCHANGED <<file, folder, temp, litter, stray, call, done, result, edits>>

Invoke(t, c) ==
  /\ Move(t, "idle", "connect")
  /\ call' = [call EXCEPT ![t] = c]
  /\ result' = [result EXCEPT ![t] = None]
  /\ UNCHANGED <<file, folder, temp, litter, stray, done, outcome, expired, edits>>

\* _sftp_client
Connect(t) ==
  /\ Move(t, "connect", IF call[t].kind = "write" THEN "folder" ELSE "look")
  /\ UNCHANGED <<file, folder, temp, litter, stray, progress, edits>>

-----------------------------------------------------------------------------
(* write_text *)

\* _ensure_safe_remote_dir: lstat, and mkdir if that found nothing.
FindFolder(t) ==
  /\ Move(t, "folder", IF folder THEN "target" ELSE "mkdir")
  /\ UNCHANGED <<file, folder, temp, litter, stray, progress, edits>>

MakeFolder(t) ==
  /\ Move(t, "mkdir", "target")
  /\ ~folder
  /\ folder' = TRUE
  /\ UNCHANGED <<file, temp, litter, stray, progress, edits>>

\* _assert_safe_write_target: only a link is turned down (see RefuseWrite).
CheckTarget(t) ==
  /\ Move(t, "target", "open")
  /\ file[Path(t)] # Link
  /\ UNCHANGED <<file, folder, temp, litter, stray, progress, edits>>

\* Variant: the target itself is opened for writing.
OpenTarget(t) ==
  /\ Move(t, "open", "write")
  /\ file' = [file EXCEPT ![Path(t)] = Part]
  /\ UNCHANGED <<folder, temp, litter, stray, progress, edits>>

OpenTemp(t) ==
  /\ Move(t, "open", "write")
  /\ temp' = [temp EXCEPT ![t] = Part]
  /\ UNCHANGED <<file, folder, litter, stray, progress, edits>>

\* The content is written, and the file found to be a regular one.
WriteTemp(t) ==
  /\ Move(t, "write", "rename")
  /\ temp' = [temp EXCEPT ![t] = call[t].content]
  /\ UNCHANGED <<file, folder, litter, stray, progress, edits>>

\* Variant: the content is copied over the target.
CopyOver(t) ==
  /\ Move(t, "rename", "recheck")
  /\ file[Path(t)] # Dir
  /\ file' = [file EXCEPT ![Path(t)] = temp[t]]
  /\ done' = [done EXCEPT ![t] = "ok"]
  /\ UNCHANGED <<folder, temp, litter, stray, call, outcome, expired, result, edits>>

Rename(t) ==
  /\ Move(t, "rename", "recheck")
  /\ file[Path(t)] # Dir
  /\ file' = [file EXCEPT ![Path(t)] = temp[t]]
  /\ temp' = [temp EXCEPT ![t] = Absent]
  /\ done' = [done EXCEPT ![t] = "ok"]
  /\ UNCHANGED <<folder, litter, stray, call, outcome, expired, result, edits>>

Recheck(t) ==
  /\ pc[t] = "recheck"
  /\ ToCleanup(t, "ok")
  /\ UNCHANGED expired

\* Variant: a return in the finally clause swallows the error.
CleanUpReturns(t) ==
  /\ pc[t] = "cleanup"
  /\ End(t, "ok")
  /\ UNCHANGED <<file, folder, litter, stray, edits>>

\* _remove_temp_file_if_present
CleanUp(t) ==
  /\ pc[t] = "cleanup"
  /\ End(t, outcome[t])
  /\ UNCHANGED <<file, folder, litter, stray, edits>>

-----------------------------------------------------------------------------
(* read_text, stat and delete_file *)

\* _assert_safe_remote_file: what is no regular file is not found, except that
\* a link is refused.
Look(t) ==
  LET c == file[Path(t)]
  IN /\ pc[t] = "look"
     /\ \/ /\ c \in Contents
           /\ Move(t, "look", IF call[t].kind = "read" THEN "fetch" ELSE "remove")
           /\ UNCHANGED <<temp, progress>>
        \/ c \in {Absent, Dir} /\ End(t, "not_found")
        \/ c = Link /\ End(t, "failed")
     /\ UNCHANGED <<file, folder, litter, stray, edits>>

\* An opened file is read to its end as it was, whatever is renamed over it.
Fetch(t) ==
  /\ pc[t] = "fetch"
  /\ IF file[Path(t)] \in Contents
       THEN /\ Move(t, "fetch", "receive")
            /\ done' = [done EXCEPT ![t] = file[Path(t)]]
            /\ UNCHANGED <<temp, call, outcome, expired, result>>
       ELSE End(t, "not_found")
  /\ UNCHANGED <<file, folder, litter, stray, edits>>

Remove(t) ==
  /\ pc[t] = "remove"
  /\ IF file[Path(t)] \in Contents
       THEN /\ Move(t, "remove", "removed")
            /\ file' = [file EXCEPT ![Path(t)] = Absent]
            /\ done' = [done EXCEPT ![t] = "ok"]
            /\ UNCHANGED <<temp, call, outcome, expired, result>>
       ELSE End(t, "not_found") /\ UNCHANGED file
  /\ UNCHANGED <<folder, litter, stray, edits>>

\* The content, or the answer to the removal, arrives.
Receive(t) ==
  /\ pc[t] \in {"receive", "removed"}
  /\ End(t, done[t])
  /\ UNCHANGED <<file, folder, litter, stray, edits>>

-----------------------------------------------------------------------------
(* What can go wrong *)

\* Another call made the directory since, or the target is none that a file
\* can replace.
MustRefuse(t) ==
  \/ pc[t] = "mkdir" /\ folder
  \/ pc[t] = "target" /\ file[Path(t)] = Link
  \/ pc[t] = "rename" /\ file[Path(t)] = Dir

RefuseWrite(t) ==
  /\ pc[t] \in WritePoints
  /\ "refusal" \in Faults \/ MustRefuse(t)
  /\ ToCleanup(t, "failed")
  /\ UNCHANGED expired

\* No connection, or an error of the one request.
RefuseCall(t) ==
  /\ "refusal" \in Faults
  /\ pc[t] \in CallPoints \ {"removed"}
  /\ End(t, "failed")
  /\ UNCHANGED <<file, folder, litter, stray, edits>>

\* Errors of the cleanup are ignored.
RefuseCleanup(t) ==
  /\ "refusal" \in Faults
  /\ pc[t] = "cleanup"
  /\ End(t, outcome[t])
  /\ Leave(t)
  /\ UNCHANGED <<file, folder, stray, edits>>

\* _with_timeout: the call is cancelled. A write still does its cleanup, for
\* which there is no other timeout, unless it was in it already.
Timeout(t) ==
  /\ "timeout" \in Faults
  /\ pc[t] # "idle" /\ ~expired[t]
  /\ IF pc[t] \in WritePoints
       THEN /\ ToCleanup(t, "failed")
            /\ expired' = [expired EXCEPT ![t] = TRUE]
       ELSE /\ End(t, "failed")
            /\ Leave(t)
            /\ UNCHANGED <<file, folder, stray, edits>>

\* The connection breaks. Nothing can be cleaned up, and the server may yet
\* perform the request it was sent. The end of the process does this to every
\* call.
Lose(t) ==
  /\ "loss" \in Faults
  /\ pc[t] # "idle"
  /\ End(t, IF pc[t] = "cleanup" THEN outcome[t] ELSE "failed")
  /\ \/ Leave(t) /\ UNCHANGED stray
     \/ /\ pc[t] \in {"rename", "remove"}
        /\ stray' = stray \cup {<<Path(t), Effect(call[t])>>}
        /\ UNCHANGED litter
     \/ /\ pc[t] = "open"
        /\ litter' = litter \cup {Path(t)}
        /\ UNCHANGED stray
     \/ /\ pc[t] = "cleanup"
        /\ UNCHANGED <<litter, stray>>
  /\ UNCHANGED <<file, folder, edits>>

\* The server gets to a request whose client has gone.
Straggle(s) ==
  /\ file[s[1]] # Dir
  /\ file' = [file EXCEPT ![s[1]] = s[2]]
  /\ stray' = stray \ {s}
  /\ UNCHANGED <<folder, temp, litter, pc, progress, edits>>

\* Somebody else changes a file.
Edit(p, c) ==
  /\ edits < MaxEdits
  /\ file[p] \in Contents \cup {Absent} /\ file[p] # c
  /\ file' = [file EXCEPT ![p] = c]
  /\ folder' = TRUE
  /\ edits' = edits + 1
  /\ UNCHANGED <<temp, litter, stray, pc, progress>>

-----------------------------------------------------------------------------

\* The server answers.
Answer(t) ==
  \/ Connect(t)
  \/ FindFolder(t) \/ MakeFolder(t) \/ CheckTarget(t) \/ OpenTemp(t)
  \/ WriteTemp(t) \/ Rename(t) \/ Recheck(t) \/ CleanUp(t)
  \/ Look(t) \/ Fetch(t) \/ Remove(t) \/ Receive(t)
  \/ RefuseWrite(t) \/ RefuseCall(t) \/ RefuseCleanup(t)

Next ==
  \/ \E t \in Tasks, c \in Calls : Invoke(t, c)
  \/ \E t \in Tasks : Answer(t) \/ Timeout(t) \/ Lose(t)
  \/ \E s \in stray : Straggle(s)
  \/ \E p \in Paths, c \in HandEdits : Edit(p, c)

Spec == Init /\ [][Next]_vars

\* A timeout fires. Nothing says that the server answers.
FairSpec == Spec /\ \A t \in Tasks : WF_vars(Timeout(t))

-----------------------------------------------------------------------------
(* Properties *)

\* Variables keep their types. In particular a target never holds an
\* unfinished content: only temporary files are written to.
TypeOK ==
  /\ file \in [Paths -> FileContents]
  /\ folder \in BOOLEAN
  /\ temp \in [Tasks -> Contents \cup {Absent, Part}]
  /\ litter \subseteq Paths
  /\ stray \subseteq Paths \X (Contents \cup {Absent})
  /\ pc \in [Tasks -> Points]
  /\ call \in [Tasks -> Calls \cup {None}]
  /\ done \in [Tasks -> Contents \cup {"ok", None}]
  /\ outcome \in [Tasks -> {"ok", "failed", None}]
  /\ expired \in [Tasks -> BOOLEAN]
  /\ result \in [Tasks -> Results \cup {None}]
  /\ edits \in Nat

\* A write that returns without an error leaves no temporary file, also if its
\* connection breaks or times out during the cleanup: only failures do.
LitterOnlyOnFailure ==
  [][litter' # litter =>
       \E t \in Tasks : call[t] # None /\ result'[t] = "failed"]_vars

\* Every call ends, whether or not the server answers
\* (docs/security_policy.md:143, "timeouts for remote file transport calls").
CallsEnd == \A t \in Tasks : pc[t] # "idle" ~> pc[t] = "idle"

Store == INSTANCE FileStore

\* Callers see files that change as a whole, and results that were true.
ImplementsFileStore == Store!Spec
=============================================================================
