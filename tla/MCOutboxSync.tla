---------------------------- MODULE MCOutboxSync ----------------------------
(***************************************************************************)
(* Instances of OutboxSync for TLC.  A .cfg picks the commands the user    *)
(* creates out of: the start of a patrol, its report, and a work command.  *)
(***************************************************************************)
EXTENDS OutboxRefinement

CONSTANTS start, report, work, patrol, task

PatrolOnly == {start, report}
WorkToo == {start, work}
All == {start, report, work}
MCReports == Commands \cap {report}
MCWork == Commands \cap {work}
MCAssignmentOf == [c \in Commands |-> IF c = work THEN task ELSE patrol]
MCRank == [c \in Commands |->
              IF c = start THEN 0 ELSE IF c = work THEN 3 ELSE 4]
=============================================================================
