----------------------------- MODULE MCPercoSync -----------------------------
(* Values for PercoSync: a long stay, and a pass that PERCo hears of late: it
   makes two of the stay.  With PageSize 1 a new pass moves the others on by a
   page, and with MaxPages 2 a window of three is cut off. *)
EXTENDS PercoSync

MCPass == << [dir |-> "IN", day |-> 0, at |-> 1], [dir |-> "OUT", day |-> 1, at |-> 5],
             [dir |-> "OUT", day |-> 0, at |-> 3] >>
=============================================================================
