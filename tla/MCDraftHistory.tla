---------------------------- MODULE MCDraftHistory ----------------------------
(***************************************************************************)
(* A small instance of the draft workflow with its history for TLC.        *)
(***************************************************************************)
EXTENDS MCDraftWorkflow, DraftHistory
===============================================================================
