---------------------------- MODULE MobilePatrol ----------------------------
(***************************************************************************)
(* One patrol request on one phone: the rows patrol_assignments and        *)
(* outbox_commands in its SQLite, what the screens let the employee do     *)
(* with them, the sync runs that send the queue and apply the answers, the *)
(* refreshes that overwrite the rows with the server's bootstrap, and the  *)
(* server's handlers, with a dispatcher at work on the web.                *)
(*                                                                         *)
(* A refresh and a sync run are not excluded from each other: a bootstrap  *)
(* fetched before a batch may be saved after the batch's answers.  The     *)
(* process may be killed at any time; what was 'sending' stays so until a  *)
(* later run takes it for stale.  OutboxSync has the transport in detail:  *)
(* here 'pending' stands for 'retryLater' too.                             *)
(***************************************************************************)
EXTENDS Naturals, Sequences, FiniteSets, SequencesExt

CONSTANTS
    Ids,            \* assignment ids, drawn by the server or by the phone
    MaxCommands,    \* bound: commands the employee ever queues
    MaxMoves        \* bound: what the dispatcher does meanwhile

ASSUME ConstantsAssumption ==
    /\ IsFiniteSet(Ids)
    /\ MaxCommands \in Nat
    /\ MaxMoves \in Nat

VARIABLES
    row,            \* patrol_assignments on the phone
    offered,        \* does the phone's board offer the request?
    outbox,         \* outbox_commands, in the order of created_at_local
    submitting,     \* the assignments whose SubmitReportScreen is open
    run,            \* the sync run
    boot,           \* the bootstrap a refresh has fetched, as a sequence
    asg,            \* assignments on the server
    reported,       \* those with patrol_results
    known,          \* mobile_outbox_operations: the answer to each command
    moves           \* how often the dispatcher has acted

phoneVars == <<row, offered, outbox, submitting>>
serverVars == <<asg, reported, known, moves>>
vars == <<row, offered, outbox, submitting, run, boot, asg, reported, known,
          moves>>

\* assignment.status on the phone; "decision" is needsDispatcherDecision.
Active == {"accepted", "inProgress", "paused", "completedLocal", "decision",
           "syncError", "authRequired"}
Terminal == {"completedServer", "cancelledServer"}

\* ... and on the server, where assigned and waiting are as good as accepted:
\* MapAssignmentStatus tells the phone "accepted".
Closed == {"completed", "cancelled"}
Live == {"accepted", "inProgress", "paused", "decision"} \cup Closed

Ops == {"accept", "release", "start", "pause", "resume", "handoff",
        "complete"}
Good == {"accepted", "duplicate"}
Bad == {"conflict", "rejected"}

Absent == [status |-> "none", rev |-> 0, started |-> FALSE]
NoAsg == [status |-> "none", lock |-> 0, started |-> FALSE]
NoAnswer == [status |-> "none", rev |-> 0, late |-> FALSE]
Idle == [phase |-> "idle", batch |-> <<>>, answers |-> <<>>]

Locks == 0 .. MaxCommands + MaxMoves

Answer == [status : Good \cup Bad, rev : Locks, late : BOOLEAN]

TypeOK ==
    /\ row \in [Ids -> [status : Active \cup Terminal \cup {"none"},
                        rev : Locks, started : BOOLEAN]]
    /\ offered \in BOOLEAN
    /\ outbox \in Seq([op : Ops, id : Ids, base : Locks,
                       status : {"pending", "sending"} \cup Good \cup Bad])
    /\ submitting \subseteq Ids
    /\ run \in [phase : {"idle", "ready", "posted", "answered"},
                batch : Seq(1 .. MaxCommands), answers : Seq(Answer)]
    /\ boot \in Seq([Ids -> [status : Live \cup {"none"}, lock : Locks,
                             started : BOOLEAN]])
    /\ asg \in [Ids -> [status : Live \cup {"none"}, lock : Locks,
                        started : BOOLEAN]]
    /\ reported \subseteq Ids
    /\ known \in Seq(Answer \cup {NoAnswer})
    /\ Len(known) = Len(outbox)
    /\ moves \in 0 .. MaxMoves

\* The request is offered to the phone, or a dispatcher has assigned it to
\* its employee and no refresh has fetched that yet.
Init ==
    /\ row = [i \in Ids |-> Absent]
    /\ \E given \in {{}} \cup {{i} : i \in Ids} :
          /\ asg = [i \in Ids |->
                      IF i \in given THEN [NoAsg EXCEPT !.status = "accepted"]
                                    ELSE NoAsg]
          /\ offered = (given = {})
    /\ outbox = <<>>
    /\ submitting = {}
    /\ run = Idle
    /\ boot = <<>>
    /\ reported = {}
    /\ known = <<>>
    /\ moves = 0

-----------------------------------------------------------------------------
(* The employee: patrolRepository.ts, behind the buttons of the screens *)

\* The row of i and a command are written in one SQLite transaction.
Queue(op, i, newRow) ==
    /\ Len(outbox) < MaxCommands
    /\ row' = [row EXCEPT ![i] = newRow]
    /\ outbox' = Append(outbox, [op |-> op, id |-> i, base |-> row[i].rev,
                                 status |-> "pending"])
    /\ known' = Append(known, NoAnswer)
    /\ UNCHANGED <<run, boot, asg, reported, moves>>

\* acceptRequestLocally draws an id for the assignment to be.
Accept(i) ==
    /\ offered
    /\ \A j \in Ids : row[j].status \notin Active
    /\ asg[i].status = "none"
    /\ \A n \in DOMAIN outbox : outbox[n].id # i
    /\ Queue("accept", i, [Absent EXCEPT !.status = "accepted"])
    /\ offered' = FALSE
    /\ UNCHANGED submitting

\* A slip: any patrol is returned.
ReleaseAnyStatus(i) ==
    /\ row[i].status # "none"
    /\ Queue("release", i, Absent)
    /\ offered' = TRUE
    /\ UNCHANGED submitting

Release(i) ==
    /\ row[i].status = "accepted"
    /\ ~row[i].started
    /\ Queue("release", i, Absent)
    /\ offered' = TRUE
    /\ UNCHANGED submitting

Lifecycle(op, i, from, to) ==
    /\ row[i].status \in from
    /\ Queue(op, i, [row[i] EXCEPT !.status = to,
                                   !.started = @ \/ op = "start"])
    /\ UNCHANGED <<offered, submitting>>

\* A second press of the button starts the patrol again.
Start(i) ==
    Lifecycle("start", i, {"accepted", "paused", "inProgress"}, "inProgress")
Pause(i) == Lifecycle("pause", i, {"inProgress"}, "paused")
Resume(i) == Lifecycle("resume", i, {"paused"}, "inProgress")
Handoff(i) == Lifecycle("handoff", i, {"inProgress"}, "decision")

\* The screen is reached from a patrol in progress, and may stay open
\* whatever becomes of the patrol then.
OpenSubmit(i) ==
    /\ row[i].status = "inProgress"
    /\ submitting' = submitting \cup {i}
    /\ UNCHANGED <<row, offered, outbox, run, boot, serverVars>>

\* A slip: a report that is being sent is not looked for.
QueuedReportsPending(i) ==
    {n \in DOMAIN outbox : /\ outbox[n].op = "complete"
                           /\ outbox[n].id = i
                           /\ outbox[n].status \in {"pending"} \cup Good}

\* getQueuedCompleteAssignmentCommand
QueuedReports(i) ==
    {n \in DOMAIN outbox : /\ outbox[n].op = "complete"
                           /\ outbox[n].id = i
                           /\ outbox[n].status \in {"pending", "sending"} \cup Good}

\* completeAssignmentLocally, of a patrol whose points are all filled.
Complete(i) ==
    /\ i \in submitting
    /\ row[i].status # "none"
    /\ IF QueuedReports(i) # {}
          THEN /\ row' = [row EXCEPT ![i].status = "completedLocal"]
               /\ UNCHANGED <<outbox, run, boot, serverVars>>
          ELSE Queue("complete", i, [row[i] EXCEPT !.status = "completedLocal"])
    /\ UNCHANGED <<offered, submitting>>

-----------------------------------------------------------------------------
(* Answers: outboxRepository.ts *)

StatusAfter(op) ==
    CASE op = "accept" -> "accepted"
      [] op = "pause" -> "paused"
      [] op = "handoff" -> "decision"
      [] OTHER -> "inProgress"

\* A slip: the phone counts the revisions itself.
RowAfterCounting(r, op, a) ==
    IF a.status \in Good /\ op \notin {"complete", "release"}
    THEN [r EXCEPT !.status = StatusAfter(op), !.rev = @ + 1]
    ELSE r

\* What answer a to command op makes of the row, whatever the employee has
\* done with it since.  An acceptance that is refused leaves it alone: its
\* command is one of the request.
RowAfter(r, op, a) ==
    IF a.status \in Good
    THEN CASE op = "complete" ->
                 [r EXCEPT !.status = IF a.late THEN "cancelledServer"
                                                ELSE "completedServer"]
           [] op = "release" -> r
           [] OTHER -> [r EXCEPT !.status = StatusAfter(op), !.rev = a.rev]
    ELSE IF op = "accept" THEN r
    ELSE [r EXCEPT !.status = IF a.status = "conflict" THEN "decision"
                                                       ELSE "syncError"]

\* An UPDATE of a row that has been deleted does nothing.
Updated(rows, c, a) ==
    IF rows[c.id].status = "none" THEN rows
    ELSE [rows EXCEPT ![c.id] = RowAfter(rows[c.id], c.op, a)]

\* applyOutboxResponses: the answers a to the commands numbered by s, in
\* that order.
Applied(s, a) ==
    LET rows[k \in 0 .. Len(s)] ==
            IF k = 0 THEN row ELSE Updated(rows[k - 1], outbox[s[k]], a[k])
    IN  rows[Len(s)]

StatusesWith(s, a) ==
    [n \in DOMAIN outbox |->
        IF n \in Range(s)
        THEN [outbox[n] EXCEPT
                 !.status = a[CHOOSE k \in DOMAIN s : s[k] = n].status]
        ELSE outbox[n]]

-----------------------------------------------------------------------------
(* The sync run: syncEngine.ts, outboxProcessor.ts *)

\* A slip: reports whose answer was recorded without their row stay open.
FinalizedNothing == row

\* finalizeAcceptedCompleteReportCommands
Finalized ==
    [i \in Ids |->
        IF /\ row[i].status = "completedLocal"
           /\ \E n \in QueuedReports(i) : outbox[n].status \in Good
        THEN [row[i] EXCEPT !.status = "completedServer"]
        ELSE row[i]]

\* A run begins; without a network it ends here.
StartRun(online) ==
    /\ run.phase = "idle"
    /\ row' = Finalized
    /\ run' = IF online THEN [run EXCEPT !.phase = "ready"] ELSE run
    /\ UNCHANGED <<offered, outbox, submitting, boot, serverVars>>

\* resetStaleSendingOutboxCommands, five minutes after a kill.
Recover ==
    /\ run.phase = "ready"
    /\ outbox' = [n \in DOMAIN outbox |->
                     IF outbox[n].status = "sending"
                     THEN [outbox[n] EXCEPT !.status = "pending"]
                     ELSE outbox[n]]
    /\ UNCHANGED <<row, offered, submitting, run, boot, serverVars>>

\* The numbers in S, sorted by time: the one sequence in this set.
InOrder(S) ==
    {s \in SetToSeqs(S) : \A j, k \in DOMAIN s : j < k => s[j] < s[k]}

\* The commands in S to which the server has good answers: those for which
\* getAcceptedOutboxResults has results, its GETs succeeding.
Confirmed(S) == {n \in S : known[n].status \in Good}

Learn(s) ==
    LET a == [k \in DOMAIN s |-> known[s[k]]]
    IN  row' = Applied(s, a) /\ outbox' = StatusesWith(s, a)

\* reconcileAcceptedCompleteReports, by a run or by a screen.
Reconcile ==
    /\ LET S == Confirmed({n \in DOMAIN outbox :
                              /\ outbox[n].op = "complete"
                              /\ outbox[n].status \in {"pending", "sending"}})
       IN  S # {} /\ \E s \in InOrder(S) : Learn(s)
    /\ UNCHANGED <<offered, submitting, run, boot, serverVars>>

\* getCommandPriority
Priority(op) ==
    CASE op = "start" -> 0 [] op = "complete" -> 4 [] OTHER -> 3

Precedes(n, m) ==
    LET p == Priority(outbox[n].op)
        q == Priority(outbox[m].op)
    IN  p < q \/ (p = q /\ n < m)

\* A report waits while another command of its patrol is pending.
Ready ==
    LET pending == {n \in DOMAIN outbox : outbox[n].status = "pending"}
    IN  {n \in pending :
            outbox[n].op = "complete" =>
               \A m \in pending :
                  outbox[m].id = outbox[n].id => outbox[m].op = "complete"}

\* getPendingOutboxBatch: sorted by priority, then by time; the one sequence
\* in this set.
Batch ==
    {s \in SetToSeqs(Ready) :
        \A j, k \in DOMAIN s : j < k => Precedes(s[j], s[k])}

Send ==
    /\ run.phase = "ready"
    /\ Ready # {}
    /\ outbox' = [n \in DOMAIN outbox |->
                     IF n \in Ready
                     THEN [outbox[n] EXCEPT !.status = "sending"]
                     ELSE outbox[n]]
    /\ \E s \in Batch :
          run' = [phase |-> "posted", batch |-> s, answers |-> <<>>]
    /\ UNCHANGED <<row, offered, submitting, boot, serverVars>>

EndRun ==
    /\ run.phase = "ready"
    /\ run' = Idle
    /\ UNCHANGED <<phoneVars, boot, serverVars>>

Receive ==
    /\ run.phase = "answered"
    /\ row' = Applied(run.batch, run.answers)
    /\ outbox' = StatusesWith(run.batch, run.answers)
    /\ run' = [Idle EXCEPT !.phase = "ready"]
    /\ UNCHANGED <<offered, submitting, boot, serverVars>>

\* postOutbox fails: the commands are to be sent again, but for those of
\* which the server, if it can be asked, has good answers.
Fail(asked) ==
    /\ run.phase \in {"posted", "answered"}
    /\ LET good == IF asked THEN Confirmed(Range(run.batch)) ELSE {}
       IN  \E s \in InOrder(good) :
              LET a == [k \in DOMAIN s |-> known[s[k]]]
              IN  /\ row' = Applied(s, a)
                  /\ outbox' = [n \in DOMAIN outbox |->
                        IF n \in Range(run.batch) \ good
                        THEN [outbox[n] EXCEPT !.status = "pending"]
                        ELSE StatusesWith(s, a)[n]]
    /\ run' = Idle
    /\ UNCHANGED <<offered, submitting, boot, serverVars>>

\* The patrols markPendingOutboxCommandsAuthRequired looks at.
Unfinished == {"accepted", "inProgress", "paused", "completedLocal", "syncError"}

\* There is no session, or the server refuses it: everything is to be sent again,
\* and a patrol that has something unsent - a command, or one of the points of those
\* in unsent - is shown as one to log in for.
SessionEnds(unsent) ==
    /\ run.phase \in {"ready", "posted"}
    /\ outbox' = [n \in DOMAIN outbox |->
                     IF outbox[n].status = "sending"
                     THEN [outbox[n] EXCEPT !.status = "pending"]
                     ELSE outbox[n]]
    /\ LET waiting == {outbox[n].id : n \in {m \in DOMAIN outbox :
                                                outbox'[m].status = "pending"}}
       IN  row' = [i \in Ids |->
                     IF i \in waiting \cup unsent /\ row[i].status \in Unfinished
                     THEN [row[i] EXCEPT !.status = "authRequired"]
                     ELSE row[i]]
    /\ run' = Idle
    /\ UNCHANGED <<offered, submitting, boot, serverVars>>

\* The system kills the process, or its user does.
Kill ==
    /\ run' = Idle
    /\ boot' = <<>>
    /\ submitting' = {}
    /\ UNCHANGED <<row, offered, outbox, serverVars>>

-----------------------------------------------------------------------------
(* The refresh: mobileDataRefreshService.ts, bootstrapRepository.ts *)

FetchBootstrap ==
    /\ boot = <<>>
    /\ boot' = <<asg>>
    /\ UNCHANGED <<phoneVars, run, serverVars>>

\* The server sends no closed assignments; what the phone keeps as active or
\* cancelled keeps its status, but its revision is the server's.
Merged(r, s) ==
    IF s.status \in Closed \cup {"none"} THEN r
    ELSE [status |-> IF r.status \in Active \cup {"cancelledServer"}
                     THEN r.status ELSE s.status,
          rev |-> s.lock,
          started |-> r.started \/ s.started]

\* Beside a cancelled patrol of the request nothing else goes on, unless the answer
\* to another command has changed what the board says of the request.
CancelledToo(r) ==
    IF r.status \in {"accepted", "inProgress", "paused"}
    THEN [r EXCEPT !.status = "cancelledServer"] ELSE r

BoardSaysCancelled ==
    {FALSE} \cup {\E i \in Ids : row[i].status = "cancelledServer"}

SaveBootstrap ==
    /\ boot # <<>>
    /\ \E cancelled \in BoardSaysCancelled :
          row' = [i \in Ids |->
                    Merged(IF cancelled THEN CancelledToo(row[i]) ELSE row[i],
                           boot[1][i])]
    /\ offered' = /\ offered
                  /\ \A i \in Ids : /\ boot[1][i].status \notin Closed
                                    /\ row'[i].status = "none"
    /\ boot' = <<>>
    /\ UNCHANGED <<outbox, submitting, run, serverVars>>

-----------------------------------------------------------------------------
(* The server: the handlers of a batch, in one transaction *)

\* A handler's answer and the row it leaves.  [asg, gone, rep, ops] is what
\* the transaction has so far; gone are the rows it has marked Deleted.
Yes(rev) == [status |-> "accepted", rev |-> rev, late |-> FALSE]
No(s) == [NoAnswer EXCEPT !.status = s]

Refused(w, n, s) == [w EXCEPT !.ops[n] = No(s)]

Changed(w, n, i, to) ==
    LET s == w.asg[i]
    IN  [w EXCEPT
            !.asg[i] = [status |-> to, lock |-> s.lock + 1,
                        started |-> s.started \/ to = "inProgress"],
            !.ops[n] = Yes(s.lock + 1)]

\* The assignment patrolRequest.Assignment is, if it has one.
Current(w) == {i \in Ids : w.asg[i].status # "none"}

HandleAccept(w, n, i) ==
    IF Current(w) = {}
    THEN [w EXCEPT !.asg[i] = [status |-> "accepted", lock |-> 1,
                               started |-> FALSE],
                   !.ops[n] = Yes(1)]
    ELSE LET j == CHOOSE k \in Current(w) : TRUE
         IN  IF w.asg[j].status \in Closed THEN Refused(w, n, "conflict")
             ELSE Changed(w, n, j, "accepted")

HandleRelease(w, n, i) ==
    IF w.asg[i].status # "accepted" THEN Refused(w, n, "rejected")
    ELSE IF w.asg[i].started \/ i \in w.rep THEN Refused(w, n, "conflict")
    ELSE [w EXCEPT !.gone = @ \cup {i}, !.ops[n] = Yes(w.asg[i].lock)]

\* A slip: the base revision is not compared.
BaseIgnored(w, c) == TRUE

BaseIsCurrent(w, c) == c.base = w.asg[c.id].lock

HandleComplete(w, n, c) ==
    LET i == c.id
        s == w.asg[i].status
    IN  IF s = "decision" THEN Refused(w, n, "conflict")
        ELSE IF i \in w.rep
        THEN IF \E m \in DOMAIN outbox : /\ outbox[m].op = "complete"
                                         /\ outbox[m].id = i
                                         /\ known[m].status \in Good
             THEN [w EXCEPT !.ops[n] = [Yes(w.asg[i].lock)
                                           EXCEPT !.status = "duplicate"]]
             ELSE Refused(w, n, "conflict")
        ELSE IF s = "cancelled"
        THEN LET x == Changed(w, n, i, "cancelled")
             IN  [x EXCEPT !.rep = @ \cup {i}, !.ops[n].late = TRUE]
        ELSE IF ~BaseIsCurrent(w, c) THEN Refused(w, n, "conflict")
        ELSE [Changed(w, n, i, "completed") EXCEPT !.rep = @ \cup {i}]

\* A slip: a command that is sent again is handled again.
NeverAnswered(w, n) == FALSE

Answered(w, n) == w.ops[n] # NoAnswer

\* Handled(w, n): the transaction once it has handled command n.
Handled(w, n) ==
    LET c == outbox[n]
        i == c.id
        s == w.asg[i].status
    IN  IF Answered(w, n) THEN w
        ELSE IF c.op = "accept" THEN HandleAccept(w, n, i)
        ELSE IF asg[i].status = "none" THEN Refused(w, n, "conflict")
        ELSE
        CASE c.op = "release" -> HandleRelease(w, n, i)
          [] c.op = "complete" -> HandleComplete(w, n, c)
          [] c.op \in {"start", "handoff"} ->
                IF s \in Closed THEN Refused(w, n, "conflict")
                ELSE Changed(w, n, i, IF c.op = "start" THEN "inProgress"
                                                        ELSE "decision")
          [] c.op = "pause" ->
                IF s # "inProgress" THEN Refused(w, n, "rejected")
                ELSE Changed(w, n, i, "paused")
          [] c.op = "resume" ->
                IF s # "paused" THEN Refused(w, n, "rejected")
                ELSE Changed(w, n, i, "inProgress")

\* BuildRepeatedOutboxResponse: a good answer comes back as a duplicate, and
\* without its message.
Repeated(a) ==
    IF a.status \in Good THEN [a EXCEPT !.status = "duplicate", !.late = FALSE]
    ELSE a

\* The transaction, once it has handled the commands numbered by s.
Transaction(s) ==
    LET w[k \in 0 .. Len(s)] ==
            IF k = 0
            THEN [asg |-> asg, gone |-> {}, rep |-> reported, ops |-> known]
            ELSE Handled(w[k - 1], s[k])
    IN  w[Len(s)]

Handle ==
    /\ run.phase = "posted"
    /\ LET after == Transaction(run.batch)
       IN  /\ asg' = [i \in Ids |->
                         IF i \in after.gone THEN NoAsg ELSE after.asg[i]]
           /\ reported' = after.rep
           /\ known' = after.ops
           /\ run' = [run EXCEPT
                         !.phase = "answered",
                         !.answers = [k \in DOMAIN run.batch |->
                            LET n == run.batch[k]
                            IN  IF known[n] = NoAnswer THEN after.ops[n]
                                ELSE Repeated(known[n])]]
    /\ UNCHANGED <<phoneVars, boot, moves>>

\* EfPatrolStore: Start, Cancel and Complete of the dispatcher.
Dispatch(i, to) ==
    /\ moves < MaxMoves
    /\ moves' = moves + 1
    /\ asg[i].status \in Live \ (Closed \cup {to})
    /\ asg' = [asg EXCEPT ![i].status = to, ![i].lock = @ + 1,
                          ![i].started = @ \/ to # "cancelled"]
    /\ reported' = IF to = "completed" THEN reported \cup {i} ELSE reported
    /\ UNCHANGED <<phoneVars, run, boot, known>>

-----------------------------------------------------------------------------

Employee ==
    \E i \in Ids :
        \/ Accept(i) \/ Release(i) \/ Start(i) \/ Pause(i) \/ Resume(i)
        \/ Handoff(i) \/ OpenSubmit(i) \/ Complete(i)

Sync ==
    \/ \E online \in BOOLEAN : StartRun(online)
    \/ Recover \/ Reconcile \/ Send \/ EndRun \/ Receive
    \/ \E asked \in BOOLEAN : Fail(asked)
    \/ \E unsent \in SUBSET {i \in Ids : row[i].started} : SessionEnds(unsent)

Refresh == FetchBootstrap \/ SaveBootstrap

Dispatcher ==
    \E i \in Ids, to \in {"inProgress", "cancelled", "completed"} :
        Dispatch(i, to)

Next == Employee \/ Sync \/ Refresh \/ Kill \/ Handle \/ Dispatcher

Spec == Init /\ [][Next]_vars

\* The triggers start runs again and again, and a step of a run that is tried
\* again and again succeeds once: the network and the system relent.
Fairness ==
    /\ WF_vars(StartRun(TRUE))
    /\ SF_vars(Recover /\ outbox' # outbox)
    /\ SF_vars(Send)
    /\ WF_vars(EndRun)
    /\ SF_vars(Handle)
    /\ SF_vars(Receive)

FairSpec == Spec /\ Fairness

-----------------------------------------------------------------------------
(* Properties *)

\* The phone never bases a report on a revision the server has not reached:
\* answers, bootstraps, kills and repetitions only ever tell it less.
RevisionNeverAhead ==
    /\ \A i \in Ids : asg[i].status # "none" => row[i].rev <= asg[i].lock
    /\ \A n \in DOMAIN outbox :
          LET i == outbox[n].id
          IN  asg[i].status # "none" => outbox[n].base <= asg[i].lock

\* docs/mobile-offline-recovery.md: pressing the button again makes no second
\* report, whatever became of the first one in the meantime.
OneReportUnderWay ==
    \A i \in Ids :
        Cardinality({n \in DOMAIN outbox :
                        /\ outbox[n].op = "complete"
                        /\ outbox[n].id = i
                        /\ outbox[n].status \in {"pending", "sending"} \cup Good})
            <= 1

\* docs/patrol-status-lifecycle.md: a report is not deleted from the phone
\* before the server has answered it; nor is the patrol it belongs to.
ReportKeepsItsPatrol ==
    \A n \in DOMAIN outbox :
        outbox[n].op = "complete" => row[outbox[n].id].status # "none"

\* A report is accepted only on top of what the phone has been told: if the
\* dispatcher has changed the patrol since, it is not completed silently.
CompletedAsPlanned ==
    \A n \in DOMAIN outbox :
        /\ outbox[n].op = "complete"
        /\ known[n].status = "accepted"
        /\ ~known[n].late
        => outbox[n].base + 1 = asg[outbox[n].id].lock

\* A patrol completed on the phone does not wait for ever: it is closed, or
\* shown as one that needs somebody's attention.
LocalReportEnds ==
    \A i \in Ids : row[i].status = "completedLocal"
                      ~> row[i].status # "completedLocal"

\* docs/mobile-app-technical-requirements.md:3223: a patrol walked without a
\* network is accepted once the network is back, if nobody interferes.
OfflineReportAccepted ==
    \A n \in DOMAIN outbox :
        outbox[n].op = "complete" => outbox[n].status \notin Bad

\* docs/patrol-status-lifecycle.md, "accepted -> release": what has been
\* returned is no longer among the phone's patrols.
ReturnedIsGone ==
    \A n \in DOMAIN outbox :
        /\ outbox[n].op = "release"
        /\ outbox[n].status \in Good
        => row[outbox[n].id].status = "none"

\* ... completedServer and cancelledServer end the work on the phone.
ClosedStaysClosed ==
    [][\A i \in Ids : row[i].status \in Terminal
                         => row'[i].status \in Terminal]_vars
=============================================================================
