-------------------------- MODULE PatrolRefinement --------------------------
(***************************************************************************)
(* The tables of PatrolLifecycle read as the book of PatrolLedger.         *)
(***************************************************************************)
EXTENDS PatrolLifecycle

\* An entry the book does not have for rows that contradict each other.
Entry(row, n) ==
    CASE row.status = "unused" /\ n = 0 -> "none"
      [] row.status = "removed" /\ n = 0 -> "returned"
      [] row.status \in Open /\ n = 0 ->
            IF row.started THEN "underway" ELSE "taken"
      [] row.status = "completed" /\ n = 1 -> "done"
      [] row.status = "cancelled" /\ n = 0 -> "cancelled"
      [] row.status = "cancelled" /\ n = 1 -> "late"
      [] OTHER -> "contradiction"

Ledger == INSTANCE PatrolLedger
    WITH page <- [i \in Assignments |-> Entry(asg[i], reports[i])]

\* Phones and dispatchers, each in transactions that read before they write,
\* keep the book: a patrol that has begun is never returned, a closed one
\* never reopened or reported twice, a completed one always has its report,
\* and a request has one assignment (SaveOutbox and EfPatrolStore).
KeepsTheLedger == Ledger!Spec
=============================================================================
