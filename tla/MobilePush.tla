------------------------------ MODULE MobilePush ------------------------------
(***************************************************************************)
(* The queue of push notifications: EfPatrolStore writes a row in          *)
(* mobile_notifications with the order it tells of, and the worker's loop  *)
(* (apps/worker/Worker.cs) sends the queued rows through Firebase          *)
(* (EfMobilePushDeliveryService).                                          *)
(*                                                                         *)
(* A row is claimed by one SQL statement, then loaded, then sent and saved *)
(* one by one through the DbContext.  Between any two of those steps the   *)
(* worker may die, or another worker may take its turn.  EF writes back    *)
(* only the columns that differ from the row as it was loaded, and the     *)
(* table has no concurrency token.                                         *)
(***************************************************************************)
EXTENDS Naturals, FiniteSets

CONSTANTS
    Notes,         \* notifications, numbered in the order they are created
    Workers,       \* instances of the worker
    MaxAttempts,   \* EfMobilePushDeliveryService.MaxAttempts
    BatchSize,     \* EfMobilePushDeliveryService.BatchSize
    AccountOf,     \* AccountOf[n]: the mobile account notification n is for
    MaxDeaths      \* bound: how often a worker dies

ASSUME NotesAssumption   == Notes \subseteq Nat
ASSUME WorkersAssumption == IsFiniteSet(Workers)
ASSUME LimitsAssumption  == MaxAttempts \in Nat \ {0} /\ BatchSize \in Nat \ {0}
ASSUME BoundsAssumption  == MaxDeaths \in Nat

VARIABLES
    row,      \* the table: push_status, push_attempt_count, push_claimed_at
    step,     \* where the worker's SendQueuedAsync stands
    batch,    \* the claimed rows it has still to send
    loaded,   \* those rows as its DbContext loaded them
    pushed,   \* how often Firebase took the notification for delivery
    deaths,
    outlived  \* for the properties only: the notifications whose claim was
              \* released as stale while the worker that held it was still at it

vars == <<row, step, batch, loaded, pushed, deaths, outlived>>

Statuses == {"absent", "waitingSync", "queued", "sending", "sent", "failed"}
Ages     == {"null", "fresh", "stale"}      \* push_claimed_at against SendingTimeout
Rows     == [status : Statuses, attempts : 0..MaxAttempts, claimed : Ages]
Absent   == [status |-> "absent", attempts |-> 0, claimed |-> "null"]

Init ==
    /\ row = [n \in Notes |-> Absent]
    /\ step = [w \in Workers |-> "idle"]
    /\ batch = [w \in Workers |-> {}]
    /\ loaded = [w \in Workers |-> [n \in Notes |-> Absent]]
    /\ pushed = [n \in Notes |-> 0]
    /\ deaths = 0
    /\ outlived = {}

Unclaimed(r) == [r EXCEPT !.claimed = "null"]

\* What a claim that was given up, or an attempt that failed, leaves behind.
RetryOrFail(attempts) == IF attempts >= MaxAttempts THEN "failed" ELSE "queued"

-----------------------------------------------------------------------------
(* EfPatrolStore.AddMobileNotificationForEmployee *)

\* The row is saved with the order.  Without a push token it waits for one, or
\* for the phone to read it when it synchronises.
Notify(n) ==
    /\ row[n].status = "absent"
    /\ \E status \in {"queued", "waitingSync"} :
          row' = [row EXCEPT ![n].status = status]
    /\ UNCHANGED <<step, batch, loaded, pushed, deaths, outlived>>

\* EfMobileAppService.RegisterPushToken: what waited for a token of the account
\* is queued.  It reads and then saves, but nothing else takes a row out of
\* waitingSync: a step, as long as one phone of the account registers at a time.
RegisterPushToken(a) ==
    LET waiting == {n \in Notes : AccountOf[n] = a /\ row[n].status = "waitingSync"}
    IN  /\ waiting # {}
        /\ row' = [n \in Notes |-> IF n \in waiting THEN [row[n] EXCEPT !.status = "queued"]
                                   ELSE row[n]]
        /\ UNCHANGED <<step, batch, loaded, pushed, deaths, outlived>>

-----------------------------------------------------------------------------
(* EfMobilePushDeliveryService.SendQueuedAsync *)

Stale(n) == row[n].status = "sending" /\ row[n].claimed = "stale"

\* A slip: the claim is undone as if it had not been an attempt.
ReleasedUncounted(n) ==
    IF Stale(n) THEN [row[n] EXCEPT !.status = "queued", !.claimed = "null", !.attempts = @ - 1]
                ELSE row[n]

\* A slip: the count of attempts is looked at only when a send has failed.
ReleasedToQueue(n) ==
    IF Stale(n) THEN [Unclaimed(row[n]) EXCEPT !.status = "queued"] ELSE row[n]

\* A slip: abandoned claims stay.
ReleasedNever(n) == row[n]

Released(n) ==
    IF Stale(n)
    THEN [Unclaimed(row[n]) EXCEPT !.status = RetryOrFail(row[n].attempts)]
    ELSE row[n]

ReleaseStaleSending(w) ==
    /\ step[w] = "idle"
    /\ row' = [n \in Notes |-> Released(n)]
    /\ step' = [step EXCEPT ![w] = "released"]
    /\ outlived' = outlived \cup {n \in Notes : Stale(n) /\ \E v \in Workers : n \in batch[v]}
    /\ UNCHANGED <<batch, loaded, pushed, deaths>>

Claimable == {n \in Notes : row[n].status = "queued" /\ row[n].attempts < MaxAttempts}

\* ORDER BY created_at LIMIT BatchSize; FOR UPDATE SKIP LOCKED makes one
\* statement of it.
Oldest(S) == {n \in S : Cardinality({m \in S : m < n}) < BatchSize}

ClaimQueued(w) ==
    /\ step[w] = "released"
    /\ batch' = [batch EXCEPT ![w] = Oldest(Claimable)]
    /\ row' = [n \in Notes |->
                  IF n \in Oldest(Claimable)
                  THEN [status |-> "sending", attempts |-> row[n].attempts + 1,
                        claimed |-> "fresh"]
                  ELSE row[n]]
    /\ step' = [step EXCEPT ![w] = IF Claimable = {} THEN "idle" ELSE "claimed"]
    /\ UNCHANGED <<loaded, pushed, deaths, outlived>>

Load(w) ==
    /\ step[w] = "claimed"
    /\ loaded' = [loaded EXCEPT ![w] = [n \in Notes |-> IF n \in batch[w] THEN row[n] ELSE Absent]]
    /\ step' = [step EXCEPT ![w] = "sending"]
    /\ UNCHANGED <<row, batch, pushed, deaths, outlived>>

Sending(w) == CHOOSE n \in batch[w] : \A m \in batch[w] : n <= m

\* The sender returns or throws; one that throws may have reached Firebase.
Send(w) ==
    /\ step[w] = "sending"
    /\ \E outcome \in {"delivered", "refused", "answerLost"} :
          /\ step' = [step EXCEPT ![w] = IF outcome = "delivered" THEN "answered" ELSE "threw"]
          /\ pushed' = [pushed EXCEPT ![Sending(w)] =
                           IF outcome = "refused" THEN @ ELSE @ + 1]
    /\ UNCHANGED <<row, batch, loaded, deaths, outlived>>

\* SaveChangesAsync: only what differs from the loaded row is written.
Written(old, before, status) ==
    [old EXCEPT !.status = IF status = before.status THEN @ ELSE status,
                !.claimed = IF before.claimed = "null" THEN @ ELSE "null"]

Saved(w, n) ==
    Written(row[n], loaded[w][n],
            IF step[w] = "answered" THEN "sent" ELSE RetryOrFail(loaded[w][n].attempts))

SaveOutcome(w) ==
    /\ step[w] \in {"answered", "threw"}
    /\ row' = [row EXCEPT ![Sending(w)] = Saved(w, Sending(w))]
    /\ batch' = [batch EXCEPT ![w] = @ \ {Sending(w)}]
    /\ loaded' = [loaded EXCEPT ![w][Sending(w)] = Absent]
    /\ step' = [step EXCEPT ![w] = IF batch[w] = {Sending(w)} THEN "idle" ELSE "sending"]
    /\ UNCHANGED <<pushed, deaths, outlived>>

-----------------------------------------------------------------------------
(* The process and the clock *)

\* Nothing in Worker.ExecuteAsync catches what a job throws: an exception of the
\* EMU or PERCo jobs, of a query or of a save ends the process, like a kill.
Die(w) ==
    /\ step[w] # "down"
    /\ deaths < MaxDeaths
    /\ deaths' = deaths + 1
    /\ step' = [step EXCEPT ![w] = "down"]
    /\ batch' = [batch EXCEPT ![w] = {}]
    /\ loaded' = [loaded EXCEPT ![w] = [n \in Notes |-> Absent]]
    /\ UNCHANGED <<row, pushed, outlived>>

Restart(w) ==
    /\ step[w] = "down"
    /\ step' = [step EXCEPT ![w] = "idle"]
    /\ UNCHANGED <<row, batch, loaded, pushed, deaths, outlived>>

\* Five minutes pass.  A batch is up to BatchSize sends one after the other,
\* each of which takes what Firebase takes: its worker may well be at it still.
Age(n) ==
    /\ row[n].claimed = "fresh"
    /\ row' = [row EXCEPT ![n].claimed = "stale"]
    /\ UNCHANGED <<step, batch, loaded, pushed, deaths, outlived>>

Work(w) ==
    \/ ReleaseStaleSending(w)
    \/ ClaimQueued(w)
    \/ Load(w)
    \/ Send(w)
    \/ SaveOutcome(w)

Next ==
    \/ \E n \in Notes : Notify(n) \/ RegisterPushToken(AccountOf[n]) \/ Age(n)
    \/ \E w \in Workers : Work(w) \/ Die(w) \/ Restart(w)

\* The loop comes round every five seconds, a dead worker is started again and
\* time passes.
Fairness ==
    /\ \A w \in Workers : WF_vars(Work(w)) /\ WF_vars(Restart(w))
    /\ \A n \in Notes : WF_vars(Age(n))

Spec     == Init /\ [][Next]_vars
FairSpec == Spec /\ Fairness

-----------------------------------------------------------------------------
(* Properties *)

TypeOK ==
    /\ row \in [Notes -> Rows]
    /\ step \in [Workers -> {"idle", "released", "claimed", "sending", "answered", "threw", "down"}]
    /\ batch \in [Workers -> SUBSET Notes]
    /\ loaded \in [Workers -> [Notes -> Rows]]
    /\ pushed \in [Notes -> 0..MaxAttempts]
    /\ deaths \in 0..MaxDeaths
    /\ outlived \subseteq Notes

\* However often workers die between a send and its save, and however many of
\* them there are, the phone is not pushed a notification more than MaxAttempts
\* times: every send is paid for by a claim, and nothing gives a claim back.
PushesAreCounted == \A n \in Notes : pushed[n] <= row[n].attempts

\* A notification is queued only while a worker will still pick it up: a row
\* at the limit is closed as failed, by whoever gives up its last claim.  Left
\* out are those whose claim was released under a worker still at it, whose
\* save then writes "queued" over a row that others have tried out.
NothingInLimbo ==
    \A n \in Notes \ outlived : row[n].status = "queued" => row[n].attempts < MaxAttempts

\* Every queued notification is closed at last: sent, or failed after
\* MaxAttempts, whatever dies on the way (with the same exception).
QueuedIsSettled ==
    \A n \in Notes :
        row[n].status = "queued" ~> row[n].status \in {"sent", "failed"} \/ n \in outlived
=============================================================================
