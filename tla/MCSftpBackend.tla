----------------------------- MODULE MCSftpBackend -----------------------------
(***************************************************************************)
(* Small instances of the SFTP backend for TLC.                            *)
(***************************************************************************)
EXTENDS SftpBackend

CONSTANTS p1, A, B

AllCalls ==
  {[kind |-> "write", path |-> p1, content |-> A],
   [kind |-> "read", path |-> p1, content |-> None],
   [kind |-> "delete", path |-> p1, content |-> None]}

Edits == {B, Absent}

AllFaults == {"refusal", "timeout", "loss"}
OnlyTimeouts == {"timeout"}
NoEdits == {}
=============================================================================
