------------------------------ MODULE FileStore ------------------------------
(***************************************************************************)
(* What a file backend promises a caller: a call that returns a content    *)
(* or "ok" read or changed the file at one moment between invocation and   *)
(* return, and "not_found" was true at such a moment. A call that fails    *)
(* may have taken effect or not, or may do so later. No file is ever seen  *)
(* half written.                                                           *)
(***************************************************************************)
EXTENDS Naturals

CONSTANTS Tasks, Paths, Contents, Calls, HandEdits, Absent, None, Dir,
          Link

VARIABLES
  file,    \* the files
  call,    \* what each task is calling
  done,    \* what the call has achieved: a content read, "ok", or None
  result,  \* what the latest call returned
  stray,   \* effects a failed call may still have
  edits    \* changes by others

storeVars == <<file, call, done, result, stray, edits>>

Init ==
  /\ file \in [Paths -> Contents \cup {Absent, Dir, Link}]
  /\ call = [t \in Tasks |-> None]
  /\ done = [t \in Tasks |-> None]
  /\ result = [t \in Tasks |-> None]
  /\ stray = {}
  /\ edits = 0

\* What a call leaves in its file.
Effect(c) == IF c.kind = "write" THEN c.content ELSE Absent

Invoke(t, c) ==
  /\ call[t] = None
  /\ call' = [call EXCEPT ![t] = c]
  /\ result' = [result EXCEPT ![t] = None]
  /\ UNCHANGED <<file, done, stray, edits>>

Change(t) ==
  /\ call[t] # None /\ done[t] = None
  /\ call[t].kind # "read"
  /\ call[t].kind = "delete" => file[call[t].path] \in Contents
  /\ file' = [file EXCEPT ![call[t].path] = Effect(call[t])]
  /\ done' = [done EXCEPT ![t] = "ok"]
  /\ UNCHANGED <<call, result, stray, edits>>

Read(t) ==
  /\ call[t] # None /\ done[t] = None
  /\ call[t].kind = "read"
  /\ file[call[t].path] \in Contents
  /\ done' = [done EXCEPT ![t] = file[call[t].path]]
  /\ UNCHANGED <<file, call, result, stray, edits>>

Return(t, r) ==
  /\ call[t] # None
  /\ \/ r = done[t] /\ r # None
     \/ r = "not_found" /\ call[t].kind # "write" /\ done[t] = None
        /\ file[call[t].path] \notin Contents
     \/ r = "failed"
  /\ \/ UNCHANGED stray
     \/ /\ r = "failed" /\ done[t] = None /\ call[t].kind # "read"
        /\ stray' = stray \cup {<<call[t].path, Effect(call[t])>>}
  /\ call' = [call EXCEPT ![t] = None]
  /\ done' = [done EXCEPT ![t] = None]
  /\ result' = [result EXCEPT ![t] = r]
  /\ UNCHANGED <<file, edits>>

Straggle(s) ==
  /\ file' = [file EXCEPT ![s[1]] = s[2]]
  /\ stray' = stray \ {s}
  /\ UNCHANGED <<call, done, result, edits>>

Edit(p, c) ==
  /\ file' = [file EXCEPT ![p] = c]
  /\ edits' = edits + 1
  /\ UNCHANGED <<call, done, result, stray>>

Next ==
  \/ \E t \in Tasks, c \in Calls : Invoke(t, c)
  \/ \E t \in Tasks : Change(t) \/ Read(t)
  \/ \E t \in Tasks, r \in Contents \cup {"ok", "not_found", "failed"} : Return(t, r)
  \/ \E s \in stray : Straggle(s)
  \/ \E p \in Paths, c \in HandEdits : Edit(p, c)

Spec == Init /\ [][Next]_storeVars
=============================================================================
