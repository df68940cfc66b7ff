----------------------------- MODULE OutboxSync -----------------------------
(***************************************************************************)
(* The transport of the mobile outbox: the phone's SQLite table            *)
(* outbox_commands, the single-flight sync engine that drains it, the      *)
(* network between phone and server, and the server's SaveOutbox handler   *)
(* with its table mobile_outbox_operations.                                *)
(*                                                                         *)
(* A command is its clientOperationId: the phone draws a UUID for it once  *)
(* and never reuses it.  What a command MEANS for a patrol is abstracted   *)
(* to the server's verdict (accepted, or refused, which stands for the     *)
(* statuses conflict and rejected: the transport treats them alike); we ask*)
(* whether verdicts and effects stay in step when requests are lost,       *)
(* repeated or answered late, when the app is killed, and when SaveChanges *)
(* fails.                                                                  *)
(***************************************************************************)
EXTENDS Naturals, FiniteSets

CONSTANTS
    Commands,       \* every clientOperationId the user may create
    Reports,        \* the completePatrolAssignment commands among them
    WorkCommands,   \* the work-accounting (EMU) commands among them
    Reversible,     \* those a dispatcher can undo on the web (pause, resume)
    AssignmentOf,   \* AssignmentOf[c]: the assignment command c belongs to
    Rank,           \* Rank[c]: place of c in compareOutboxCommands' order
    Slots,          \* POST requests that may be under way at one time
    None,           \* the absence of a slot
    BatchLimit,     \* commands per POST (25 in the code)
    MaxBatches,     \* POSTs per run of the engine (maxSyncBatchesPerRun, 4)
    MaxFaults,      \* bound: timeouts, losses, crashes, failed commits ...
    MaySignOut      \* whether the user ever signs out

ASSUME ConstantsAssumption ==
    /\ Reports \subseteq Commands
    /\ WorkCommands \subseteq Commands
    /\ Reports \cap WorkCommands = {}
    /\ Reversible \subseteq WorkCommands
    /\ Rank \in [Commands -> Nat]
    /\ \A c, d \in Commands : Rank[c] = Rank[d] => c = d
    /\ None \notin Slots
    /\ BatchLimit \in Nat \ {0}
    /\ MaxBatches \in Nat \ {0}
    /\ MaxFaults \in Nat
    /\ MaySignOut \in BOOLEAN

VARIABLES
    \* the phone, on disk
    status,        \* outbox_commands.status, "none" before the insert
    aged,          \* commands that have been 'sending' for over 5 minutes
    token,         \* is there an access token in the secure storage?
    \* the phone, in memory
    pc,            \* where runForegroundSyncInternal stands
    batch,         \* the commands of the batch it is sending
    batchesLeft,   \* iterations its loop still has
    cur,           \* the POST it is waiting for
    signingOut,    \* signOut has passed assertNoPendingLocalChanges
    \* the network and the requests the server is working on
    post,
    \* the server's database
    op,            \* mobile_outbox_operations: the stored verdict
    effects,       \* how often the command's effect has been applied
    undone,        \* work commands a dispatcher has undone on the web
    \* bookkeeping of the model
    faults

phoneVars == <<status, aged, token, pc, batch, batchesLeft, cur, signingOut>>
serverVars == <<op, effects, undone>>
vars == <<phoneVars, post, serverVars, faults>>

\* What a handler may answer; a first answer "duplicate" is given to a report
\* only, when another command has already reported the same assignment.
Answers == {"accepted", "duplicate", "refused"}
Verdicts(c) == IF c \in Reports THEN Answers ELSE Answers \ {"duplicate"}

\* The statuses countPendingOutboxCommands counts, and the final ones.
Queued == {"pending", "sending", "retryLater"}
Acked == {"accepted", "duplicate"}
Statuses == {"none", "deleted"} \cup Queued \cup Answers

FreePost ==
    [state |-> "free", cmds |-> {}, todo |-> {}, added |-> {},
     ans |-> [c \in Commands |-> "none"]]

FailedPost == [FreePost EXCEPT !.state = "failed"]

\* The request as postOutbox sends it.
NewPost(B) == [FreePost EXCEPT !.state = "sent", !.cmds = B, !.todo = B]

PostType ==
    [state : {"free", "sent", "answered", "failed"},
     cmds : SUBSET Commands, todo : SUBSET Commands, added : SUBSET Commands,
     ans : [Commands -> Answers \cup {"none"}]]

TypeOK ==
    /\ status \in [Commands -> Statuses]
    /\ aged \subseteq Commands
    /\ token \in BOOLEAN
    /\ pc \in {"idle", "loop", "listed", "uploading", "posting"}
    /\ batch \subseteq Commands
    /\ batchesLeft \in 0 .. MaxBatches
    /\ cur \in Slots \cup {None}
    /\ cur # None <=> pc = "posting"
    /\ signingOut \in BOOLEAN
    /\ post \in [Slots -> PostType]
    /\ op \in [Commands -> Answers \cup {"none"}]
    /\ effects \in [Commands -> Nat]
    /\ undone \subseteq Reversible
    /\ faults \in 0 .. MaxFaults

Init ==
    /\ status = [c \in Commands |-> "none"]
    /\ aged = {}
    /\ token = TRUE
    /\ pc = "idle"
    /\ batch = {}
    /\ batchesLeft = 0
    /\ cur = None
    /\ signingOut = FALSE
    /\ post = [p \in Slots |-> FreePost]
    /\ op = [c \in Commands |-> "none"]
    /\ effects = [c \in Commands |-> 0]
    /\ undone = {}
    /\ faults = 0

Fault ==
    /\ faults < MaxFaults
    /\ faults' = faults + 1

-----------------------------------------------------------------------------
(* The outbox table *)

\* A slip: the UPDATE without its condition on the status.
MovedAnyStatus(S, From, s) ==
    [c \in Commands |-> IF c \in S THEN s ELSE status[c]]

\* UPDATE outbox_commands SET status = s WHERE id IN S AND status IN From
Moved(S, From, s) ==
    [c \in Commands |->
        IF c \in S /\ status[c] \in From THEN s ELSE status[c]]

\* applyOutboxResponses writes the answer whatever the row's status is; an
\* UPDATE of a deleted row changes nothing.
Applied(S, ans) ==
    [c \in Commands |->
        IF c \in S /\ status[c] # "deleted" THEN ans[c] ELSE status[c]]

\* A local operation of the user inserts its command as 'pending'.
Enqueue(c) ==
    /\ status[c] = "none"
    /\ status' = [status EXCEPT ![c] = "pending"]
    /\ UNCHANGED <<aged, token, pc, batch, batchesLeft, cur, signingOut,
                   post, serverVars, faults>>

\* Five minutes pass without an answer to a command marked 'sending'.
Age(c) ==
    /\ status[c] = "sending"
    /\ c \notin aged
    /\ aged' = aged \cup {c}
    /\ UNCHANGED <<status, token, pc, batch, batchesLeft, cur, signingOut,
                   post, serverVars, faults>>

\* recoverStaleSendingOutboxCommands: at application start and at the head of
\* the background task, also while a run of the engine is under way.
RecoverStale ==
    /\ \E c \in aged : status[c] = "sending"
    /\ status' = Moved(aged, {"sending"}, "retryLater")
    /\ aged' = {}
    /\ UNCHANGED <<token, pc, batch, batchesLeft, cur, signingOut, post,
                   serverVars, faults>>

\* Reports the server is known to have accepted, read by GET /outbox/{id}.
\* A GET that fails counts as unknown, so any subset of these may be learnt;
\* an answer other than these is dropped by isAcceptedOutboxResponse.
Confirmable(S) == {c \in S : token /\ op[c] \in Acked}

Unconfirmed == {c \in Reports : status[c] \in Queued}

\* reconcileAcceptedCompleteReports, as a screen calls it.
ScreenReconcile ==
    /\ \E G \in SUBSET Confirmable(Unconfirmed) :
        /\ G # {}
        /\ status' = Applied(G, op)
    /\ UNCHANGED <<aged, token, pc, batch, batchesLeft, cur, signingOut,
                   post, serverVars, faults>>

-----------------------------------------------------------------------------
(* The sync engine *)

\* runForegroundSyncInternal returns or throws; its locals are gone.
EndRun ==
    /\ pc' = "idle"
    /\ batch' = {}
    /\ batchesLeft' = 0
    /\ cur' = None

Sendable == {c \in Commands : status[c] \in {"pending", "retryLater"}}

\* getPendingOutboxBatch: a report waits for the sendable commands of its
\* assignment; the first BatchLimit of the rest are sent.
Unblocked ==
    {c \in Sendable :
        c \in Reports =>
            \A d \in Sendable \ Reports : AssignmentOf[d] # AssignmentOf[c]}

NextBatch ==
    {c \in Unblocked :
        Cardinality({d \in Unblocked : Rank[d] < Rank[c]}) < BatchLimit}

\* No connection to the server, or no token: the run ends with the whole
\* queue moved to 'retryLater'.
StartSyncUnavailable ==
    /\ pc = "idle"
    /\ ~token \/ faults < MaxFaults
    /\ status' = Moved(Commands, Queued, "retryLater")
    /\ status' # status
    /\ aged' = {}
    /\ faults' = IF token THEN faults + 1 ELSE faults
    /\ UNCHANGED <<token, pc, batch, batchesLeft, cur, signingOut, post,
                   serverVars>>

\* runForegroundSyncInternal up to its loop: stale commands are released,
\* then reports whose answer was lost are reconciled.
StartSync ==
    /\ pc = "idle"
    /\ token
    /\ LET released == Moved(aged, {"sending"}, "retryLater") IN
       \E G \in SUBSET Confirmable(Unconfirmed) :
          status' = [c \in Commands |->
                        IF c \in G THEN op[c] ELSE released[c]]
    /\ aged' = {}
    /\ pc' = "loop"
    /\ batchesLeft' = MaxBatches
    /\ UNCHANGED <<token, batch, cur, signingOut, post, serverVars, faults>>

\* A slip: the loop without its limit on the batches of a run.
ListBatchForever ==
    /\ pc = "loop"
    /\ IF NextBatch = {}
          THEN EndRun
          ELSE /\ pc' = "listed"
               /\ batch' = NextBatch
               /\ batchesLeft' = batchesLeft - 1
               /\ UNCHANGED cur
    /\ UNCHANGED <<status, aged, token, signingOut, post, serverVars, faults>>

\* One turn of the loop reads the next batch, or ends the run.
ListBatch ==
    /\ pc = "loop"
    /\ IF batchesLeft = 0 \/ NextBatch = {}
          THEN EndRun
          ELSE /\ pc' = "listed"
               /\ batch' = NextBatch
               /\ batchesLeft' = batchesLeft - 1
               /\ UNCHANGED cur
    /\ UNCHANGED <<status, aged, token, signingOut, post, serverVars, faults>>

\* markOutboxCommandsSending, one await after the batch was read.
MarkSending ==
    /\ pc = "listed"
    /\ status' = Moved(batch, {"pending", "retryLater"}, "sending")
    /\ aged' = aged \ batch
    /\ pc' = "uploading"
    /\ UNCHANGED <<token, batch, batchesLeft, cur, signingOut, post,
                   serverVars, faults>>

\* A file of the batch cannot be uploaded: the run gives the batch back.
UploadFails ==
    /\ pc = "uploading"
    /\ Fault
    /\ status' = Moved(batch, {"sending"}, "retryLater")
    /\ EndRun
    /\ UNCHANGED <<aged, token, signingOut, post, serverVars>>

\* The files are on the server; the batch is posted.
Post(p) ==
    /\ pc = "uploading"
    /\ token
    /\ post[p].state = "free"
    /\ post' = [post EXCEPT ![p] = NewPost(batch)]
    /\ cur' = p
    /\ pc' = "posting"
    /\ UNCHANGED <<status, aged, token, batch, batchesLeft, signingOut,
                   serverVars, faults>>

\* The phone stops waiting for its POST.  The server may go on with it.
Abandon(p) ==
    IF post[p].state = "sent" THEN post ELSE [post EXCEPT ![p] = FreePost]

\* The answer arrives in time and is applied.
Receive ==
    /\ pc = "posting"
    /\ post[cur].state = "answered"
    /\ status' = Applied(post[cur].cmds, post[cur].ans)
    /\ post' = [post EXCEPT ![cur] = FreePost]
    /\ pc' = "loop"
    /\ batch' = {}
    /\ cur' = None
    /\ UNCHANGED <<aged, token, batchesLeft, signingOut, serverVars, faults>>

\* The POST fails for the phone: status 500, no connection, or the 10 second
\* timeout whatever the server does.  Each command is then looked up with a
\* GET; the run goes on only if all of them turn out to be accepted.
PostFails ==
    /\ pc = "posting"
    /\ IF post[cur].state = "failed" THEN UNCHANGED faults ELSE Fault
    /\ \E G \in SUBSET Confirmable(batch) :
        /\ status' = [c \in Commands |->
                        IF c \in G THEN Applied(G, op)[c]
                        ELSE Moved(batch, {"sending"}, "retryLater")[c]]
        /\ IF G = batch
              THEN /\ pc' = "loop"
                   /\ batch' = {}
                   /\ cur' = None
                   /\ UNCHANGED batchesLeft
              ELSE EndRun
    /\ post' = Abandon(cur)
    /\ UNCHANGED <<aged, token, signingOut, serverVars>>

\* sendMobileRequestWithFailover: the same POST goes to the next configured
\* address when the first one fails or times out.
Failover(p) ==
    /\ pc = "posting"
    /\ token
    /\ Fault
    /\ post[p].state = "free"
    /\ post' = [Abandon(cur) EXCEPT ![p] = NewPost(batch)]
    /\ cur' = p
    /\ UNCHANGED <<status, aged, token, pc, batch, batchesLeft, signingOut,
                   serverVars>>

\* There is no token to send any more, or the server knows no session for it
\* and the refresh fails: the tokens are cleared and the whole queue is kept
\* for the next sign-in.
SessionExpired ==
    /\ pc \in {"uploading", "posting"}
    /\ cur # None =>
        post[cur].state = "sent" /\ post[cur].todo = post[cur].cmds
    /\ IF token THEN Fault ELSE UNCHANGED faults
    /\ token' = FALSE
    /\ status' = Moved(Commands, Queued, "retryLater")
    /\ aged' = {}
    /\ post' = IF cur = None THEN post ELSE [post EXCEPT ![cur] = FreePost]
    /\ EndRun
    /\ UNCHANGED <<signingOut, serverVars>>

\* Another request of the app meets the same and clears the tokens.
TokensCleared ==
    /\ token
    /\ Fault
    /\ token' = FALSE
    /\ UNCHANGED <<status, aged, pc, batch, batchesLeft, cur, signingOut,
                   post, serverVars>>

\* The same user signs in again; the local tables stay (saveBootstrap).
SignIn ==
    /\ ~token
    /\ token' = TRUE
    /\ UNCHANGED <<status, aged, pc, batch, batchesLeft, cur, signingOut,
                   post, serverVars, faults>>

-----------------------------------------------------------------------------
(* Signing out and losing the process *)

\* countBlockingLocalUserData, as far as the outbox goes: queued commands,
\* and the sync_conflicts row every refused command leaves, which no code
\* ever resolves.
Blocking == {c \in Commands : status[c] \in Queued \cup {"refused"}}

\* signOut checks once ...
SignOutCheck ==
    /\ MaySignOut
    /\ token
    /\ ~signingOut
    /\ Blocking = {}
    /\ signingOut' = TRUE
    /\ UNCHANGED <<status, aged, token, pc, batch, batchesLeft, cur, post,
                   serverVars, faults>>

\* ... and clears every table after the round trip of logout().
SignOutClear ==
    /\ signingOut
    /\ signingOut' = FALSE
    /\ token' = FALSE
    /\ status' = [c \in Commands |->
                    IF status[c] = "none" THEN "none" ELSE "deleted"]
    /\ aged' = {}
    /\ UNCHANGED <<pc, batch, batchesLeft, cur, post, serverVars, faults>>

\* The app is killed: the run and the sign-out are gone, the tables stay.
Crash ==
    /\ Fault
    /\ pc # "idle" \/ signingOut
    /\ EndRun
    /\ signingOut' = FALSE
    /\ post' = IF cur = None THEN post ELSE Abandon(cur)
    /\ UNCHANGED <<status, aged, token, serverVars>>

-----------------------------------------------------------------------------
(* The server: SaveOutbox *)

\* The handler threw (a 500, and nothing of its change tracker is saved), or
\* the request never got there.
Failed(p) ==
    [post EXCEPT ![p] = IF cur = p THEN FailedPost ELSE FreePost]

\* The request is lost on its way.
LoseRequest(p) ==
    /\ post[p].state = "sent"
    /\ post[p].todo = post[p].cmds
    /\ Fault
    /\ post' = Failed(p)
    /\ UNCHANGED <<phoneVars, serverVars>>

\* The handler takes the commands of the batch in the order they were sent.
IsNext(c, p) ==
    /\ post[p].state = "sent"
    /\ c \in post[p].todo
    /\ \A d \in post[p].todo : Rank[c] <= Rank[d]

\* A slip: the operation row is not added for a new command.
HandledForgets(r, c, a, new) ==
    [r EXCEPT !.todo = @ \ {c}, !.ans[c] = a]

\* Answer c with a, and remember whether a row is to be inserted for it.
Handled(r, c, a, new) ==
    [r EXCEPT !.todo = @ \ {c}, !.ans[c] = a, !.added = @ \cup new]

\* A slip: a repetition is a duplicate whatever the stored verdict.
RepeatedAsDuplicate(v) == "duplicate"

\* BuildRepeatedOutboxResponse
Repeated(v) == IF v \in Acked THEN "duplicate" ELSE v

\* The operation is known: its stored verdict is repeated.
AnswerKnown(c, p) ==
    /\ IsNext(c, p)
    /\ op[c] # "none"
    /\ post' = [post EXCEPT ![p] = Handled(@, c, Repeated(op[c]), {})]
    /\ UNCHANGED <<phoneVars, serverVars, faults>>

\* A slip: the handler does not look the operation up first.
HandlePatrolBlindly(c, p) ==
    /\ IsNext(c, p)
    /\ c \notin WorkCommands
    /\ \E v \in Verdicts(c) :
        post' = [post EXCEPT ![p] = Handled(@, c, v, {c})]
    /\ UNCHANGED <<phoneVars, serverVars, faults>>

\* A patrol command: the handler decides and changes tracked entities;
\* nothing is in the database before SaveChanges.
HandlePatrol(c, p) ==
    /\ IsNext(c, p)
    /\ c \notin WorkCommands
    /\ op[c] = "none"
    /\ \E v \in Verdicts(c) :
        post' = [post EXCEPT ![p] = Handled(@, c, v, {c})]
    /\ UNCHANGED <<phoneVars, serverVars, faults>>

\* A slip: a refusal of the service is mapped to an acceptance.
RefuseWorkAsAccepted(c, p) ==
    /\ IsNext(c, p)
    /\ c \in WorkCommands
    /\ op[c] = "none"
    /\ post' = [post EXCEPT ![p] = Handled(@, c, "accepted", {c})]
    /\ UNCHANGED <<phoneVars, serverVars, faults>>

\* A work command the EMU service refuses, always when its effect is there
\* already: the work exists, is paused, is completed, has a newer RowVersion.
RefuseWork(c, p) ==
    /\ IsNext(c, p)
    /\ c \in WorkCommands
    /\ op[c] = "none"
    /\ post' = [post EXCEPT ![p] = Handled(@, c, "refused", {c})]
    /\ UNCHANGED <<phoneVars, serverVars, faults>>

\* A slip: the table without its unique key.
KeyNeverTaken(p) == FALSE

\* A row with the key (account, clientOperationId) exists by now.
KeyTaken(p) == \E d \in post[p].added : op[d] # "none"

\* A slip: the rows are not inserted.
SavedNothing(p) == op

\* SaveChanges inserts the rows of the batch with their verdicts; the effects
\* of the accepted patrol commands are in the same transaction.
Saved(p) ==
    [d \in Commands |->
        IF d \in post[p].added THEN post[p].ans[d] ELSE op[d]]

EffectsSaved(p) ==
    [d \in Commands |->
        IF /\ d \in post[p].added
           /\ d \notin WorkCommands
           /\ post[p].ans[d] = "accepted"
        THEN effects[d] + 1
        ELSE effects[d]]

\* SaveChanges has inserted the rows added so far.
Flushed(r) == [r EXCEPT !.added = {}]

\* A work command the EMU service carries out.  The service shares the
\* handler's DbContext and calls SaveChanges itself: the effect and the rows
\* of the commands before it are committed, its own row is not yet.
ApplyWork(c, p) ==
    /\ IsNext(c, p)
    /\ c \in WorkCommands
    /\ op[c] = "none"
    /\ effects[c] = 0 \/ c \in undone
    /\ ~KeyTaken(p)
    /\ op' = Saved(p)
    /\ effects' = [EffectsSaved(p) EXCEPT ![c] = @ + 1]
    /\ undone' = undone \ {c}
    /\ post' = [post EXCEPT
                  ![p] = Handled(Flushed(@), c, "accepted", {c})]
    /\ UNCHANGED <<phoneVars, faults>>

Answered(r) == [r EXCEPT !.state = "answered"]

\* The final SaveChanges of the batch, and the answer is on its way.
Commit(p) ==
    /\ post[p].state = "sent"
    /\ post[p].todo = {}
    /\ ~KeyTaken(p)
    /\ op' = Saved(p)
    /\ effects' = EffectsSaved(p)
    /\ post' = [post EXCEPT ![p] = IF cur = p THEN Answered(@) ELSE FreePost]
    /\ UNCHANGED <<phoneVars, undone, faults>>

\* SaveChanges violates the primary key: another copy of the request won.
CommitClashes(p) ==
    /\ post[p].state = "sent"
    /\ KeyTaken(p)
    /\ post' = Failed(p)
    /\ UNCHANGED <<phoneVars, serverVars, faults>>

\* The handler fails anywhere for another reason: the database is away, an
\* entity's LockVersion has moved on, the process is stopped.
ServerFails(p) ==
    /\ post[p].state = "sent"
    /\ post[p].todo # post[p].cmds
    /\ Fault
    /\ post' = Failed(p)
    /\ UNCHANGED <<phoneVars, serverVars>>

\* A dispatcher resumes on the web what the phone has paused, or pauses what
\* it has resumed; once per command is enough for this model.
DispatcherUndoes(c) ==
    /\ c \in Reversible \ undone
    /\ effects[c] = 1
    /\ Fault
    /\ undone' = undone \cup {c}
    /\ UNCHANGED <<phoneVars, post, op, effects>>

-----------------------------------------------------------------------------
Phone ==
    \/ \E c \in Commands : Enqueue(c) \/ Age(c)
    \/ RecoverStale \/ ScreenReconcile
    \/ StartSyncUnavailable \/ StartSync
    \/ ListBatch \/ MarkSending \/ UploadFails
    \/ \E p \in Slots : Post(p) \/ Failover(p)
    \/ Receive \/ PostFails \/ SessionExpired \/ TokensCleared \/ SignIn
    \/ SignOutCheck \/ SignOutClear \/ Crash

Server ==
    \E p \in Slots :
        \/ LoseRequest(p) \/ Commit(p) \/ CommitClashes(p) \/ ServerFails(p)
        \/ \E c \in Commands :
              \/ AnswerKnown(c, p) \/ HandlePatrol(c, p)
              \/ RefuseWork(c, p) \/ ApplyWork(c, p)

Dispatcher == \E c \in Commands : DispatcherUndoes(c)

Next == Phone \/ Server \/ Dispatcher

Spec == Init /\ [][Next]_vars

(***************************************************************************)
(* Fairness.  The engine is started again by the background task, by the   *)
(* network and foreground triggers and by every submit, and its awaits     *)
(* return; the server finishes the requests it has; clocks advance; and a  *)
(* user whose session has expired signs in again.  Faults need not happen. *)
(***************************************************************************)
Fairness ==
    /\ WF_vars(StartSync) /\ WF_vars(ListBatch) /\ WF_vars(MarkSending)
    /\ WF_vars(\E p \in Slots : Post(p))
    /\ WF_vars(Receive) /\ WF_vars(PostFails) /\ WF_vars(SessionExpired)
    /\ WF_vars(SignIn)
    /\ \A c \in Commands : WF_vars(Age(c))
    /\ WF_vars(RecoverStale)
    /\ \A p \in Slots :
        WF_vars(\/ Commit(p) \/ CommitClashes(p)
                \/ \E c \in Commands :
                      \/ AnswerKnown(c, p) \/ HandlePatrol(c, p)
                      \/ RefuseWork(c, p) \/ ApplyWork(c, p))

FairSpec == Spec /\ Fairness

-----------------------------------------------------------------------------
(* Properties *)

PatrolCommands == Commands \ WorkCommands

\* A first answer and the answer to a repetition agree.
Agree(a, b) == a = b \/ {a, b} \subseteq Acked

\* What the outbox says of an answered command (outbox_commands.status) is
\* what the server has stored for it, whichever copy of the request, timeout
\* or reconciliation the phone has learnt it from.
AnswerIsRecorded ==
    \A c \in Commands : status[c] \in Answers => Agree(status[c], op[c])

\* A patrol command has had its effect exactly when the server has stored it
\* as accepted, and never twice, however often the command was sent.
PatrolEffectExactlyOnce ==
    \A c \in PatrolCommands : effects[c] = IF op[c] = "accepted" THEN 1 ELSE 0

\* A work command is stored as accepted only after its effect was committed.
AcceptedWorkIsDone ==
    \A c \in WorkCommands : op[c] = "accepted" => effects[c] > 0

\* The phone is told each outcome once: a stored verdict never changes, and a
\* late answer or a reset of stale commands never reopens an answered command
\* or turns its answer round.
AnswersAreFinal ==
    [][\A c \in Commands :
        /\ op[c] # "none" => op'[c] = op[c]
        /\ status[c] \in Answers =>
              \/ status'[c] = "deleted"
              \/ Agree(status[c], status'[c])]_vars

\* Every command the user creates is answered in the end.
EveryCommandAnswered ==
    \A c \in Commands : status[c] = "pending" ~> status[c] \in Answers

\* Why these hold: what a request carries agrees with the database.  A command
\* in an answer is settled; one the handler has passed is settled or its row
\* is still to be inserted, a work command's effect being there already.
Settled(a, c) == a \in Answers /\ Agree(a, op[c])

RequestOK(p) ==
    LET r == post[p] IN
    /\ r.state = "answered" => \A c \in r.cmds : Settled(r.ans[c], c)
    /\ r.state = "sent" =>
        /\ r.added \cap r.todo = {}
        /\ \A c \in r.cmds \ (r.todo \cup r.added) : Settled(r.ans[c], c)
        /\ \A c \in r.added :
            /\ r.ans[c] \in Answers
            /\ c \in WorkCommands /\ r.ans[c] = "accepted" => effects[c] > 0

RequestsOK == \A p \in Slots : RequestOK(p)

Inductive ==
    /\ TypeOK
    /\ AnswerIsRecorded
    /\ PatrolEffectExactlyOnce
    /\ AcceptedWorkIsDone
    /\ RequestsOK

(***************************************************************************)
(* Statements of the documentation that the code does not keep.            *)
(***************************************************************************)

\* "A repetition of a clientOperationId returns the same result": a work
\* command the phone is told was refused has not been carried out.
RefusedWorkIsNotDone ==
    \A c \in WorkCommands : status[c] = "refused" => effects[c] = 0

\* "All commands must be idempotent": the effect of a work command is
\* applied at most once.
WorkEffectAtMostOnce == \A c \in WorkCommands : effects[c] <= 1

\* "Sign-out is blocked while there are queued commands": it never deletes a
\* command that is still waiting for an answer.
SignOutKeepsQueue ==
    [][\A c \in Commands : status'[c] = "deleted" => status[c] \notin Queued]_vars
=============================================================================
