------------------------------ MODULE MCSyncRun ------------------------------
(* Values for SyncRun: a report with a photo, another command, one order. *)
EXTENDS SyncRun

CONSTANTS report, other, order
=============================================================================
