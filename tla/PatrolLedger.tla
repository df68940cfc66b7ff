---------------------------- MODULE PatrolLedger ----------------------------
(***************************************************************************)
(* What the server promises about patrols: the book a dispatcher could     *)
(* keep by hand.  An assignment is taken, gets under way and ends in a     *)
(* report or a cancellation; nothing that has begun disappears, nothing    *)
(* that has ended goes on, a report is entered once, and a request is in   *)
(* one pair of hands at a time.                                            *)
(***************************************************************************)
EXTENDS FiniteSets

CONSTANTS Assignments, RequestOf

VARIABLE page       \* page[i]: what the book says of assignment i

Entries ==
    {"none", "taken", "underway", "returned", "done", "cancelled", "late"}

\* "late" is a cancelled patrol whose report came in all the same.
Edges ==
    ({"none"} \X {"taken", "underway"})
        \cup ({"taken"} \X {"underway", "returned"})
        \cup ({"taken", "underway"} \X {"done", "cancelled"})
        \cup {<<"cancelled", "late">>}

InOneHand(p) ==
    \A i, j \in Assignments :
        /\ RequestOf[i] = RequestOf[j]
        /\ p[i] \notin {"none", "returned"}
        /\ p[j] \notin {"none", "returned"}
        => i = j

Init == page = [i \in Assignments |-> "none"]

\* One commit may enter several lines, at most one for each assignment.
Enter ==
    /\ page' \in [Assignments -> Entries]
    /\ \A i \in Assignments :
          page'[i] # page[i] => <<page[i], page'[i]>> \in Edges
    /\ InOneHand(page')

Spec == Init /\ [][Enter]_page
=============================================================================
