------------------------------ MODULE MCEmuBoard ------------------------------
(* Values for EmuBoard: two work sessions, and nobody who may see the plan. *)
EXTENDS EmuBoard

CONSTANTS w1, w2, none

MCBoardOf == [c \in Cards |-> "work"]
=============================================================================
