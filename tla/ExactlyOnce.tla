----------------------------- MODULE ExactlyOnce -----------------------------
(***************************************************************************)
(* What the outbox promises for a patrol command: it is decided at most    *)
(* once, its effect and its verdict become visible together, and the phone *)
(* is told that verdict and no other.  No message, retry or crash appears  *)
(* here; OutboxSync implements this.                                       *)
(***************************************************************************)
EXTENDS Naturals

CONSTANT Commands

VARIABLES
    submitted,   \* commands the user has created
    verdict,     \* what the server has decided
    done,        \* how often the effect has been applied
    told         \* what the phone knows

vars == <<submitted, verdict, done, told>>

\* "known": the effect was there before, by another command.
Outcomes == {"applied", "known", "refused"}

\* The phone cannot tell the first two apart.
Said(v) == IF v = "refused" THEN "refused" ELSE "success"

Init ==
    /\ submitted = {}
    /\ verdict = [c \in Commands |-> "none"]
    /\ done = [c \in Commands |-> 0]
    /\ told = [c \in Commands |-> "none"]

Submit(c) ==
    /\ c \notin submitted
    /\ submitted' = submitted \cup {c}
    /\ UNCHANGED <<verdict, done, told>>

\* The server decides a batch in one transaction.
Decide(S) ==
    /\ S \subseteq submitted
    /\ \A c \in S : verdict[c] = "none"
    /\ \E v \in [S -> Outcomes] :
        /\ verdict' = [c \in Commands |-> IF c \in S THEN v[c] ELSE verdict[c]]
        /\ done' = [c \in Commands |->
              IF c \in S /\ v[c] = "applied" THEN done[c] + 1 ELSE done[c]]
    /\ UNCHANGED <<submitted, told>>

\* The phone learns verdicts, never one the server has not reached.
Tell(S) ==
    /\ S \subseteq submitted
    /\ \A c \in S : verdict[c] # "none" /\ told[c] \in {"none", Said(verdict[c])}
    /\ told' = [c \in Commands |-> IF c \in S THEN Said(verdict[c]) ELSE told[c]]
    /\ UNCHANGED <<submitted, verdict, done>>

\* Signing out erases what the phone knew, for good.
Forget ==
    /\ told' = [c \in Commands |->
          IF c \in submitted THEN "forgotten" ELSE told[c]]
    /\ UNCHANGED <<submitted, verdict, done>>

Next ==
    \/ \E c \in Commands : Submit(c)
    \/ \E S \in SUBSET Commands : Decide(S) \/ Tell(S)
    \/ Forget

Spec == Init /\ [][Next]_vars
=============================================================================
