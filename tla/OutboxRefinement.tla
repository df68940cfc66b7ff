-------------------------- MODULE OutboxRefinement --------------------------
(***************************************************************************)
(* OutboxSync implements ExactlyOnce for its patrol commands: the row of   *)
(* mobile_outbox_operations is the decision, and the status of the row in  *)
(* the phone's outbox_commands is what the phone was told.                 *)
(***************************************************************************)
EXTENDS OutboxSync

Outcome(v) ==
    CASE v = "accepted" -> "applied"
      [] v = "duplicate" -> "known"
      [] v = "refused" -> "refused"
      [] v = "none" -> "none"

Knowledge(s) ==
    CASE s \in Acked -> "success"
      [] s = "refused" -> "refused"
      [] s = "deleted" -> "forgotten"
      [] s \in {"none"} \cup Queued -> "none"

Promise == INSTANCE ExactlyOnce WITH
    Commands <- PatrolCommands,
    submitted <- {c \in PatrolCommands : status[c] # "none"},
    verdict <- [c \in PatrolCommands |-> Outcome(op[c])],
    done <- [c \in PatrolCommands |-> effects[c]],
    told <- [c \in PatrolCommands |-> Knowledge(status[c])]

\* Every step of the transport decides, tells, forgets, or changes nothing a
\* user of it can see.
ImplementsExactlyOnce == Promise!Spec
=============================================================================
