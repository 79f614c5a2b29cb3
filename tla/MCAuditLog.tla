------------------------------ MODULE MCAuditLog ------------------------------
(***************************************************************************)
(* A small instance of the audit log for TLC.                              *)
(***************************************************************************)
EXTENDS AuditLog

\* Dates as isoformat writes them, with another zone or Z, and one that ends
\* after its second.
SomeBounds == {<<0, ".", 1, "+">>, <<1, "+">>, <<1, "">>, <<1, "-">>, <<1, "Z">>,
               <<0, ".", 1, "Z">>}

SomeLimits == {0, 1, 2}
=============================================================================
