------------------------ MODULE MCApprovalExecution -------------------------
(***************************************************************************)
(* Values for TLC.  Two slots is what the deep-work queue has              *)
(* (worker.mts:846, concurrency 2).                                        *)
(***************************************************************************)
EXTENDS ApprovalExecution

CONSTANTS j1, j2
=============================================================================
