-------------------------- MODULE MCEmuWorkSession --------------------------
(***************************************************************************)
(* Instances of EmuWorkSession for TLC.                                    *)
(***************************************************************************)
EXTENDS EmuWorkSession

CONSTANTS one, two, anna, boris, web, phone

\* Sessions are interchangeable, and so are employees and slots.
Symmetric == Permutations(Sessions) \cup Permutations(Employees) \cup Permutations(Slots)
=============================================================================
