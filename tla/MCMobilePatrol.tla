--------------------------- MODULE MCMobilePatrol ---------------------------
(***************************************************************************)
(* Instances of MobilePatrol for TLC: the assignment the request may have  *)
(* come with, and one the phone may draw after it has returned that.       *)
(***************************************************************************)
EXTENDS MobilePatrol

CONSTANTS first, second
=============================================================================
