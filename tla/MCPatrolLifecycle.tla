-------------------------- MODULE MCPatrolLifecycle --------------------------
(***************************************************************************)
(* Instances of PatrolLifecycle for TLC: one request with two or three     *)
(* assignment ids (a return, and acceptances after it), or two requests    *)
(* held by one employee, whose account may send two batches at once.       *)
(***************************************************************************)
EXTENDS PatrolRefinement, TLC

CONSTANTS a1, a2, a3, b1, r1, r2, ivan, phone, t1, t2, shift1, shift2

MCRequestOf == [i \in Assignments |-> IF i = b1 THEN r2 ELSE r1]
MCEmployeeOf == [i \in Assignments |-> ivan]
MCShiftOf == [i \in Assignments |-> IF i = b1 THEN shift2 ELSE shift1]
MCHolderOf == [r \in Requests |-> ivan]
MCBound == [a \in Accounts |-> {ivan}]

\* Transactions are alike, and so are the ids of one request.
MCSymmetry == Permutations(Txs) \cup Permutations(Assignments \ {b1})
=============================================================================
