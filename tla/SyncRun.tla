-------------------------------- MODULE SyncRun --------------------------------
(***************************************************************************)
(* A run of sync/syncEngine.ts as the triggers see it, with the photos it  *)
(* uploads before it posts a batch: api/fileApi.ts on the phone, UploadFile *)
(* of EfMobileAppService.Files.cs on the server.  What the server makes of *)
(* the commands is OutboxSync's; here it answers or it does not.           *)
(***************************************************************************)
EXTENDS SyncTriggers

CONSTANTS
    WithPhoto,     \* the commands that name a photo
    MaxBatches     \* maxSyncBatchesPerRun

ASSUME RunAssumption ==
    WithPhoto \subseteq Commands /\ MaxBatches \in Nat \ {0}

VARIABLES
    batch,       \* the commands this run has marked as sending
    batches,     \* how many batches it has posted
    file,        \* files: the photo of a command: retryLater (local), uploading, uploaded
    stored,      \* mobile_uploaded_files
    withdrawn    \* photos whose assignment or point the server no longer grants

media == <<file, stored, withdrawn>>
vars  == <<world, sending, data, orders, batch, batches, media>>

Init ==
    /\ TriggersInit
    /\ batch = {} /\ batches = 0
    /\ file = [c \in WithPhoto |-> "retryLater"]
    /\ stored = {} /\ withdrawn = {}

-----------------------------------------------------------------------------

\* The commands get a status again that later runs list.
BackToQueue(S) ==
    command' = [c \in Commands |->
                   IF c \in S /\ command[c] = "sending" THEN "queued" ELSE command[c]]

\* A slip: the batch of a failed run is still in hand.
KeepsBatchAnyway == UNCHANGED <<batch, batches>>

\* What the engine holds in memory goes with the run.
KeepsBatch ==
    /\ batch' = IF run' = NoRun THEN {} ELSE batch
    /\ batches' = IF run' = NoRun THEN 0 ELSE batches

\* hasUsableNetwork, checkServerConnection, resetStaleSendingOutboxCommands: rows
\* a killed run left as sending come back when the server is found dead, or when
\* they are older than five minutes.
Check ==
    /\ run.at = "checking"
    /\ \/ /\ ~online
          /\ RunEnds(FALSE)
          /\ UNCHANGED command
       \/ /\ online /\ ~serverUp
          /\ RunEnds(TRUE)
          /\ BackToQueue(Commands)
       \/ /\ Up
          /\ run' = [run EXCEPT !.at = "listing"]
          /\ \E stale \in SUBSET Commands : BackToQueue(stale)
          /\ UNCHANGED retry
    /\ UNCHANGED <<world, waiting, data, orders, batch, batches, media>>

\* getPendingOutboxBatch and markOutboxCommandsSending.
List ==
    /\ run.at = "listing"
    /\ IF Queued = {} \/ batches = MaxBatches
       THEN RunEnds(FALSE) /\ batch' = {} /\ batches' = 0 /\ UNCHANGED command
       ELSE /\ run' = [run EXCEPT !.at = "uploading"]
            /\ batch' = Queued
            /\ command' = [c \in Commands |-> IF c \in Queued THEN "sending" ELSE command[c]]
            /\ UNCHANGED <<retry, batches>>
    /\ UNCHANGED <<world, waiting, data, orders, media>>

\* A slip: a photo that was being uploaded counts as uploaded.
ToUploadNew == {c \in batch \cap WithPhoto : file[c] = "retryLater"}

ToUpload == {c \in batch \cap WithPhoto : file[c] # "uploaded"}

Granted(c) == c \in stored \/ c \notin withdrawn

\* UploadFile answers null, which the controller makes 401, when the server no
\* longer grants the point; a photo it has is a duplicate.  The phone takes 401
\* for an invalid session and gives up every command of the queue, other errors
\* only give up the batch.  No answer does not mean that nothing was stored.
Upload(c) ==
    /\ run.at = "uploading" /\ c \in ToUpload
    /\ \/ /\ Up /\ Granted(c)
          /\ stored' = stored \cup {c}
          /\ file' = [file EXCEPT ![c] = "uploaded"]
          /\ UNCHANGED <<run, retry, command>>
       \/ /\ Up /\ ~Granted(c)
          /\ file' = [file EXCEPT ![c] = "retryLater"]
          /\ RunEnds(TRUE)
          /\ BackToQueue(Commands)
          /\ UNCHANGED stored
       \/ /\ ~Up
          /\ stored' \in {stored} \cup {stored \cup {d} : d \in {c} \ withdrawn}
          /\ file' = [file EXCEPT ![c] = "retryLater"]
          /\ RunEnds(TRUE)
          /\ BackToQueue(batch)
    /\ KeepsBatch
    /\ UNCHANGED <<world, waiting, data, orders, withdrawn>>

\* A report that names a photo the server does not have is rejected for good.
Verdict(c) == IF c \in WithPhoto \ stored THEN "rejected" ELSE "sent"

Post ==
    /\ run.at = "uploading" /\ ToUpload = {}
    /\ \/ /\ Up
          /\ command' = [c \in Commands |-> IF c \in batch THEN Verdict(c) ELSE command[c]]
          /\ run' = [run EXCEPT !.at = "listing"]
          /\ batches' = batches + 1
          /\ UNCHANGED retry
       \/ /\ ~Up
          /\ BackToQueue(batch)
          /\ RunEnds(TRUE)
          /\ batches' = 0
    /\ batch' = {}
    /\ UNCHANGED <<world, waiting, data, orders, media>>

\* The process dies, at worst with a photo half sent.
KillRun ==
    /\ Kill
    /\ batch' = {} /\ batches' = 0
    /\ \/ UNCHANGED <<file, stored>>
       \/ /\ run.at = "uploading"
          /\ \E c \in ToUpload :
                /\ file' = [file EXCEPT ![c] = "uploading"]
                /\ stored' \in {stored} \cup {stored \cup {d} : d \in {c} \ withdrawn}
    /\ UNCHANGED withdrawn

\* The point is deleted or made a draft (DeleteRoutePoint, UpdateRoutePoint), or the
\* account is unbound from the employee: ValidateAssignmentPoint fails from then on.
Withdraw(c) ==
    /\ c \notin withdrawn
    /\ withdrawn' = withdrawn \cup {c}
    /\ UNCHANGED <<world, sending, data, orders, batch, batches, file, stored>>

-----------------------------------------------------------------------------

Run == Check \/ List \/ Post \/ \E c \in WithPhoto : Upload(c)

Fetch == FetchFails \/ FetchReads \/ FetchSaves

Triggers ==
    \/ \E c \in Commands : Enqueue(c)
    \/ \E o \in Orders : Order(o) \/ Push(o)
    \/ ManualSync \/ PullDown \/ Registered
    \/ Fallback \/ ScheduledRefresh \/ CooldownEnds \/ RetryFires
    \/ Fetch
    \/ Leave \/ Return \/ Open \/ NetworkBack \/ Change
    \/ BackgroundTask

Next ==
    \/ Triggers /\ UNCHANGED <<batch, batches, media>>
    \/ Run \/ KillRun
    \/ \E c \in WithPhoto : Withdraw(c)

\* Promises settle and timers fire.  Nothing is promised of the employee, of the
\* network, of a push or of the background task.
Inside(A) == A /\ UNCHANGED <<batch, batches, media>>

Fairness ==
    /\ WF_vars(Run)
    /\ WF_vars(Inside(Fetch))
    /\ WF_vars(Inside(CooldownEnds))
    /\ WF_vars(Inside(ScheduledRefresh))
    /\ WF_vars(Inside(RetryFires))
    /\ WF_vars(Inside(Fallback))

Spec     == Init /\ [][Next]_vars
FairSpec == Spec /\ Fairness

-----------------------------------------------------------------------------
(* Properties *)

TypeOK ==
    /\ app \in {"active", "background", "closed"}
    /\ {online, serverUp, waiting, retry, active, scheduled, cool} \subseteq BOOLEAN
    /\ breaks \in 0..MaxBreaks
    /\ command \in [Commands -> {"none", "queued", "sending", "sent", "rejected"}]
    /\ run \in [at : {"none", "checking", "listing", "uploading"}, by : {"none", "trigger", "task"}]
    /\ fetch \in [at : {"none", "asking", "saving"}, got : SUBSET Orders]
    /\ {orders, seen, owed, swallowed} \subseteq SUBSET Orders
    /\ batch \in SUBSET Commands /\ batches \in 0..MaxBatches
    /\ file \in [WithPhoto -> {"retryLater", "uploading", "uploaded"}]
    /\ stored \in SUBSET WithPhoto /\ withdrawn \in SUBSET WithPhoto
    /\ run.at # "uploading" => batch = {}

\* A push that was handled is followed by an attempt to read the board, made after
\* it, or one is on its way, whatever the cooldown, the refresh in progress and the
\* timers do to the request it made.  A push that joins a screen's fetch which has
\* read the board without its order is swallowed by it and excepted: that order
\* waits for another trigger.  An attempt that fails is not repeated.
PushIsFollowedUp == owed # swallowed => scheduled \/ fetch.at = "asking"

\* The server is never shown a report before its photos, so none is rejected for
\* want of a photo, whichever upload was killed or lost its answer.
PhotosComeFirst == \A c \in Commands : command[c] # "rejected"

\* No trigger waits for a refresh that is over: what is put off is not forgotten.
WaitingIsWokenUp == waiting => active /\ fetch.at # "none"

Left(c)   == command[c] = "sending" /\ c \notin batch
Reachable == app = "active" /\ Up

\* While the application is open and the server can be reached, a report or a work
\* command is sent without the background task
\* (docs/mobile-app-technical-requirements.md:531), and takes with it what waits in
\* the queue: only that sends the commands that trigger nothing.
\* A command a killed run had in hand is excepted: it waits for its age; and no
\* photo is withdrawn, for which see OthersAreSent.
CommandsAreSent ==
    (<>[]Reachable /\ [](run.by # "task") /\ [](withdrawn = {})) =>
        \A c \in Commands, p \in Prompt :
            command[c] = "queued" /\ command[p] = "queued" ~> (command[c] = "sent" \/ Left(c))

\* docs/mobile-app-technical-requirements.md:1262: a command, once in the outbox,
\* is sent if there is a network.
EveryCommandIsSent ==
    (<>[]Reachable /\ [](run.by # "task") /\ [](withdrawn = {})) =>
        \A c \in Commands : command[c] = "queued" ~> (command[c] = "sent" \/ Left(c))

\* A photo that cannot be sent keeps back its own report at most: the other commands
\* go out when the server can be reached, and they go first
\* (docs/mobile-app-technical-requirements.md:526-528).
OthersAreSent ==
    (<>[]Reachable /\ [](run.by # "task")) =>
        \A c \in Commands \ WithPhoto :
            command[c] = "queued" ~> (command[c] = "sent" \/ Left(c))

\* What the dispatcher orders reaches an open phone, be all pushes lost.
OrdersAreSeen == <>[]Reachable => \A o \in Orders : o \in orders ~> o \in seen
=============================================================================
