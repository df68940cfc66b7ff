--------------------------- MODULE PatrolLifecycle ---------------------------
(***************************************************************************)
(* The life of a patrol on the server: the tables patrol_requests,         *)
(* assignments and patrol_results, the handlers of the phone's patrol      *)
(* commands and those of the dispatcher's web API.                         *)
(*                                                                         *)
(* Every HTTP request is an optimistic transaction: it reads rows into the *)
(* change tracker of its DbContext, changes them there, and SaveChanges    *)
(* writes what has changed, all or nothing, refusing an assignment whose   *)
(* lock_version has moved on.  A batch of phone commands is ONE such       *)
(* transaction: its commands share the tracker, while their queries        *)
(* see the tables only.                                                    *)
(***************************************************************************)
EXTENDS Naturals, FiniteSets

CONSTANTS
    Assignments,    \* every assignment id a phone or the server may draw
    Requests,       \* every request id
    Employees,
    Accounts,       \* mobile accounts
    Txs,            \* HTTP requests under way at one time
    RequestOf,      \* RequestOf[i]: the request assignment i would be for
    EmployeeOf,     \* EmployeeOf[i]: the employee it would be for
    ShiftOf,        \* ShiftOf[i]: the day and shift it is planned for
    HolderOf,       \* HolderOf[r]: PatrolRequest.EmployeeId, which every
                    \* request created on the web has
    Bound,          \* Bound[a]: GetBoundEmployeeIds of account a
    BatchLimit,     \* bound: commands in a batch
    MaxLock         \* bound: lock versions

ASSUME ConstantsAssumption ==
    /\ RequestOf \in [Assignments -> Requests]
    /\ EmployeeOf \in [Assignments -> Employees]
    /\ HolderOf \in [Requests -> Employees]
    /\ Bound \in [Accounts -> SUBSET Employees]
    /\ BatchLimit \in Nat \ {0}
    /\ MaxLock \in Nat \ {0}

VARIABLES
    asg,        \* the table assignments
    req,        \* patrol_requests.status, "none" before the insert
    reports,    \* how many reports patrol_results holds of an assignment
    tx,         \* the transactions under way
    again       \* for the properties only: the requests of which a batch has
                \* named an assignment after returning it

vars == <<asg, req, reports, tx, again>>

\* AssignmentStatusValues; "waiting" is Ожидает, "decision" is
\* NeedsDispatcherDecision.
NotBegun == {"waiting", "assigned"}
Open == NotBegun \cup {"accepted", "inProgress", "paused", "decision"}
Closed == {"completed", "cancelled"}
Persisted == Open \cup Closed

\* A row of assignments.  "unused" and "removed" rows are not in the table;
\* in a tracker, "untracked" is a row that has not been loaded, "unused" the
\* original of one that is Added, and "removed" one that is Deleted.
Row == [status : Persisted \cup {"unused", "removed"},
        lock : 0 .. MaxLock, started : BOOLEAN]
NoRow(s) == [status |-> s, lock |-> 0, started |-> FALSE]
Live(row) == row.status \in Persisted

ReqStatus == {"none"} \cup Persisted

FreeTx ==
    [phase |-> "free", bound |-> {}, known |-> {}, left |-> 0,
     base |-> [i \in Assignments |-> NoRow("untracked")],
     mine |-> [i \in Assignments |-> NoRow("untracked")],
     baseReq |-> [r \in Requests |-> "untracked"],
     mineReq |-> [r \in Requests |-> "untracked"],
     reported |-> {}]

TxType ==
    [phase : {"free", "batch", "web"},
     bound : SUBSET Employees, known : SUBSET Assignments,
     left : 0 .. BatchLimit,
     base : [Assignments -> Row \cup {NoRow("untracked")}],
     mine : [Assignments -> Row \cup {NoRow("untracked")}],
     baseReq : [Requests -> ReqStatus \cup {"untracked"}],
     mineReq : [Requests -> ReqStatus \cup {"untracked"}],
     reported : SUBSET Assignments]

TypeOK ==
    /\ asg \in [Assignments -> Row]
    /\ req \in [Requests -> ReqStatus]
    /\ reports \in [Assignments -> Nat]
    /\ tx \in [Txs -> TxType]
    /\ again \subseteq Requests

Init ==
    /\ asg = [i \in Assignments |-> NoRow("unused")]
    /\ req = [r \in Requests |-> "none"]
    /\ reports = [i \in Assignments |-> 0]
    /\ tx = [t \in Txs |-> FreeTx]
    /\ again = {}

-----------------------------------------------------------------------------
(* The change tracker *)

\* A query returns the rows I and the requests R: what is not yet tracked is
\* tracked as the table has it now; a tracked row keeps its values.
Fetched(x, I, R) ==
    LET new == {i \in I : x.base[i].status = "untracked"}
        newReq == {r \in R : x.baseReq[r] = "untracked"}
    IN  [x EXCEPT
            !.base = [i \in Assignments |->
                         IF i \in new THEN asg[i] ELSE x.base[i]],
            !.mine = [i \in Assignments |->
                         IF i \in new THEN asg[i] ELSE x.mine[i]],
            !.baseReq = [r \in Requests |->
                            IF r \in newReq THEN req[r] ELSE x.baseReq[r]],
            !.mineReq = [r \in Requests |->
                            IF r \in newReq THEN req[r] ELSE x.mineReq[r]]]

\* The values a handler of x sees once it has queried them.
RowSeen(x, i) == IF x.base[i].status = "untracked" THEN asg[i] ELSE x.mine[i]
ReqSeen(x, r) ==
    IF x.baseReq[r] = "untracked" THEN req[r] ELSE x.mineReq[r]

Of(r) == {i \in Assignments : RequestOf[i] = r}

\* patrolRequest.Assignment after Include: a query fills an empty navigation
\* but does not replace a tracked entity, Added and Deleted ones included.
Tracked(x, r) == {i \in Of(r) : x.base[i].status # "untracked"}
Navigation(x, r) ==
    IF Tracked(x, r) # {} THEN Tracked(x, r) ELSE {i \in Of(r) : Live(asg[i])}

\* Assignment i and its request get the values row and s in the tracker.
Changed(x, i, row, s) ==
    LET f == Fetched(x, {i}, {RequestOf[i]})
    IN  [f EXCEPT !.mine[i] = row, !.mineReq[RequestOf[i]] = s]

\* Assignment i is Added.
Added(x, i, row, s) ==
    [Changed(x, i, row, s) EXCEPT !.base[i] = NoRow("unused")]

\* ... with { Status = s, LockVersion += 1 }
Moved(row, s) == [row EXCEPT !.status = s, !.lock = @ + 1]
Started(row, s) == [Moved(row, s) EXCEPT !.started = TRUE]
MayMove(row) == row.lock < MaxLock

-----------------------------------------------------------------------------
(* The phone's batches: SaveOutbox *)

\* The ids a batch names are those the phone had been told of, or had been
\* answered for, when it composed it.
OpenBatch(t, a) ==
    /\ tx[t].phase = "free"
    /\ Bound[a] # {}
    /\ tx' = [tx EXCEPT ![t].phase = "batch", ![t].bound = Bound[a],
                        ![t].known = {i \in Assignments : Live(asg[i])},
                        ![t].left = BatchLimit]
    /\ UNCHANGED <<asg, req, reports, again>>

\* Transaction t handles one more command and has the tracker x after it.
Handled(t, x) ==
    /\ tx[t].phase = "batch"
    /\ tx[t].left > 0
    /\ tx' = [tx EXCEPT ![t] = [x EXCEPT !.left = @ - 1]]
    /\ UNCHANGED <<asg, req, reports, again>>

\* FindMobileAssignment: the row must be in the table, even if it is tracked
\* (of one that is Deleted in the tracker, see AfterReturn).
Found(t, i) ==
    /\ i \in tx[t].known
    /\ Live(asg[i])
    /\ EmployeeOf[i] \in tx[t].bound
    /\ Live(RowSeen(tx[t], i))

\* A command that changes nothing: a scan or a mark of a point, whose query
\* leaves the request out, or one that is refused or answered as duplicate.
LookAt(t, i, withRequest) ==
    /\ i \in tx[t].known
    /\ Live(asg[i])
    /\ Handled(t, Fetched(tx[t], {i},
                          IF withRequest THEN {RequestOf[i]} ELSE {}))

\* A take or an acceptance that is refused.
LookAtRequest(t, r) ==
    /\ req[r] # "none"
    /\ Handled(t, Fetched(tx[t], Navigation(tx[t], r), {r}))

\* What take and accept demand of the request before they add assignment i.
MayAdd(t, i) ==
    /\ req[RequestOf[i]] # "none"
    /\ HolderOf[RequestOf[i]] \in tx[t].bound
    /\ EmployeeOf[i] = HolderOf[RequestOf[i]]
    /\ Navigation(tx[t], RequestOf[i]) = {}
    /\ asg[i].status = "unused"

\* takePatrolRequest, of the old application: accept and start in one.
Take(t, i) ==
    /\ MayAdd(t, i)
    /\ Handled(t, Added(tx[t], i,
                        [status |-> "inProgress", lock |-> 1, started |-> TRUE],
                        "inProgress"))

AcceptNew(t, i) ==
    /\ MayAdd(t, i)
    /\ Handled(t, Added(tx[t], i,
                        [status |-> "accepted", lock |-> 1, started |-> FALSE],
                        "accepted"))

\* acceptPatrolRequest of a request that has an assignment: whatever its
\* status is, unless it is closed, it becomes accepted again.
AcceptExisting(t, i) ==
    LET x == tx[t]
        row == RowSeen(x, i)
    IN  /\ req[RequestOf[i]] # "none"
        /\ HolderOf[RequestOf[i]] \in x.bound
        /\ i \in Navigation(x, RequestOf[i])
        /\ EmployeeOf[i] \in x.bound
        /\ row.status \in Open
        /\ MayMove(row)
        /\ Handled(t, Changed(x, i, Moved(row, "accepted"), "accepted"))

Release(t, i) ==
    LET row == RowSeen(tx[t], i)
    IN  /\ Found(t, i)
        /\ row.status \in NotBegun \cup {"accepted"}
        /\ reports[i] = 0
        /\ ~row.started
        /\ Handled(t, Changed(tx[t], i, NoRow("removed"), "assigned"))

\* dbContext.Assignments.Any(... Status == InProgress): the table only.
Busy(i) ==
    \E j \in Assignments \ {i} :
        EmployeeOf[j] = EmployeeOf[i] /\ asg[j].status = "inProgress"

Start(t, i) ==
    LET row == RowSeen(tx[t], i)
    IN  /\ Found(t, i)
        /\ row.status \notin Closed
        /\ ~Busy(i)
        /\ MayMove(row)
        /\ Handled(t, Changed(tx[t], i, Started(row, "inProgress"),
                              "inProgress"))

Pause(t, i) ==
    LET row == RowSeen(tx[t], i)
    IN  /\ Found(t, i)
        /\ row.status = "inProgress"
        /\ MayMove(row)
        /\ Handled(t, Changed(tx[t], i, Moved(row, "paused"), "paused"))

Resume(t, i) ==
    LET row == RowSeen(tx[t], i)
    IN  /\ Found(t, i)
        /\ row.status = "paused"
        /\ ~Busy(i)
        /\ MayMove(row)
        /\ Handled(t, Changed(tx[t], i, Moved(row, "inProgress"),
                              "inProgress"))

Handoff(t, i) ==
    LET row == RowSeen(tx[t], i)
    IN  /\ Found(t, i)
        /\ row.status \notin Closed
        /\ MayMove(row)
        /\ Handled(t, Changed(tx[t], i, Moved(row, "decision"), "decision"))

\* completePatrolAssignment with an acceptable payload and the base revision
\* the tracked row has.  The phone queues one report per assignment.
MayReport(t, i) ==
    /\ Found(t, i)
    /\ i \notin tx[t].reported
    /\ reports[i] = 0
    /\ MayMove(RowSeen(tx[t], i))

CancelledByDispatcher(t, i) ==
    \/ RowSeen(tx[t], i).status = "cancelled"
    \/ ReqSeen(tx[t], RequestOf[i]) = "cancelled"

Reported(x, i, s) ==
    [Changed(x, i, Started(RowSeen(x, i), s), s)
        EXCEPT !.reported = @ \cup {i}]

Complete(t, i) ==
    /\ MayReport(t, i)
    /\ ~CancelledByDispatcher(t, i)
    /\ RowSeen(tx[t], i).status # "decision"
    /\ ReqSeen(tx[t], RequestOf[i]) # "decision"
    /\ Handled(t, Reported(tx[t], i, "completed"))

\* The report of a patrol that was cancelled meanwhile is kept.
CompleteLate(t, i) ==
    /\ MayReport(t, i)
    /\ CancelledByDispatcher(t, i)
    /\ Handled(t, Reported(tx[t], i, "cancelled"))

\* A command of an assignment that the same batch has returned.  The query
\* and the request's navigation still give the tracked entity, Deleted as it
\* is, with the values the tracker has: the command passes its checks and is
\* answered accepted.  The entity's new values go nowhere, only the status s
\* of the request is written.  (A report would add a result of a row that
\* goes: such a commit fails.  That the entity was begun in between, and so
\* cannot be returned once more, is not told apart.)
AfterReturn(t, i, s) ==
    LET x == tx[t]
        r == RequestOf[i]
    IN  /\ x.phase = "batch"
        /\ x.left > 0
        /\ x.mine[i].status = "removed"
        /\ EmployeeOf[i] \in x.bound
        /\ IF s = "accepted" THEN HolderOf[r] \in x.bound ELSE Live(asg[i])
        /\ s = "inProgress" => ~Busy(i)
        /\ s = "paused" => x.mineReq[r] = "inProgress"
        /\ s = "assigned" => x.mineReq[r] \in {"assigned", "accepted"}
        /\ tx' = [tx EXCEPT ![t] = [Changed(x, i, x.mine[i], s)
                                       EXCEPT !.left = @ - 1]]
        /\ again' = again \cup {r}
        /\ UNCHANGED <<asg, req, reports>>

-----------------------------------------------------------------------------
(* The dispatcher's requests: EfPatrolStore *)

\* Transaction t is a web request that has done its work up to SaveChanges.
Web(t, x) ==
    /\ tx[t].phase = "free"
    /\ tx' = [tx EXCEPT ![t] = [x EXCEPT !.phase = "web"]]
    /\ UNCHANGED <<asg, req, reports, again>>

\* Guid.NewGuid(): an id nobody else has drawn.
Fresh(i) ==
    /\ asg[i].status = "unused"
    /\ \A u \in Txs : tx[u].base[i].status = "untracked"

\* AddEmployeeAssignmentConflictError finds nothing.
ShiftFree(i) ==
    \A j \in Assignments :
        ~ /\ EmployeeOf[j] = EmployeeOf[i]
          /\ ShiftOf[j] = ShiftOf[i]
          /\ asg[j].status \in Open

\* IPatrolRequestService.Create: the request and its assignment together;
\* s tells whether the employee is to be notified.
CreateRequest(t, i, s) ==
    LET r == RequestOf[i]
    IN  /\ Fresh(i)
        /\ req[r] = "none"
        /\ \A u \in Txs : tx[u].baseReq[r] = "untracked"
        /\ HolderOf[r] = EmployeeOf[i]
        /\ ShiftFree(i)
        /\ Web(t, Added(FreeTx, i,
                        [status |-> s, lock |-> 0, started |-> FALSE],
                        "assigned"))

\* Create an assignment for a request that has none.
Assign(t, i, s) ==
    LET r == RequestOf[i]
    IN  /\ Fresh(i)
        /\ req[r] \notin Closed \cup {"none"}
        /\ \A j \in Of(r) : ~Live(asg[j])
        /\ ShiftFree(i)
        /\ Web(t, Added(FreeTx, i,
                        [status |-> s, lock |-> 0, started |-> FALSE],
                        "assigned"))

\* A slip: LockVersion++ is forgotten.
WebStartUnlocked(t, i) ==
    /\ asg[i].status \in Open \ {"inProgress"}
    /\ MayMove(asg[i])
    /\ Web(t, Changed(FreeTx, i,
                      [asg[i] EXCEPT !.status = "inProgress",
                                     !.started = TRUE],
                      "inProgress"))

\* Start: here nobody asks whether the employee is busy.
WebStart(t, i) ==
    /\ asg[i].status \in Open \ {"inProgress"}
    /\ MayMove(asg[i])
    /\ Web(t, Changed(FreeTx, i, Started(asg[i], "inProgress"), "inProgress"))

\* A slip: the request is left alone.
WebCancelAssignmentOnly(t, i) ==
    /\ asg[i].status \in Open
    /\ MayMove(asg[i])
    /\ Web(t, Changed(FreeTx, i, Moved(asg[i], "cancelled"),
                      req[RequestOf[i]]))

WebCancel(t, i) ==
    /\ asg[i].status \in Open
    /\ MayMove(asg[i])
    /\ Web(t, Changed(FreeTx, i, Moved(asg[i], "cancelled"), "cancelled"))

\* UpsertPatrolResult replaces the results the assignment has.
WebComplete(t, i) ==
    /\ asg[i].status \in Open
    /\ MayMove(asg[i])
    /\ Web(t, [Changed(FreeTx, i, Started(asg[i], "completed"), "completed")
                  EXCEPT !.reported = IF reports[i] = 0 THEN {i} ELSE {}])

-----------------------------------------------------------------------------
(* SaveChanges *)

Dirty(x) == {i \in Assignments : x.mine[i] # x.base[i]}

\* What the tables become if everything in x is written.
Written(x) == [i \in Assignments |-> IF i \in Dirty(x) THEN x.mine[i] ELSE asg[i]]

\* A slip: there is no unique index on patrol_request_id.
KeyTakenById(x) ==
    \E i \in Dirty(x) : x.base[i].status = "unused" /\ asg[i].status # "unused"

\* The request of an inserted assignment has another one by then
\* (patrol_request_id is unique), or its id has been used: only a copy of the
\* same command draws the same id, so its operation's key clashes as well.
KeyTaken(x) ==
    \E i \in Dirty(x) :
        /\ x.base[i].status = "unused"
        /\ \/ asg[i].status # "unused"
           \/ \E j \in Of(RequestOf[i]) \ {i} : Live(Written(x)[j])

\* A slip: LockVersion is no concurrency token.
NeverMovedOn(x) ==
    \E i \in Dirty(x) : Live(x.base[i]) /\ ~Live(asg[i])

\* DbUpdateConcurrencyException: a row to be changed is gone, or its
\* lock_version is not the one that was read.
MovedOn(x) ==
    \E i \in Dirty(x) :
        /\ Live(x.base[i])
        /\ ~Live(asg[i]) \/ asg[i].lock # x.base[i].lock

Save(t) ==
    LET x == tx[t]
    IN  /\ x.phase # "free"
        /\ ~KeyTaken(x)
        /\ ~MovedOn(x)
        /\ asg' = Written(x)
        /\ req' = [r \in Requests |->
                      IF x.mineReq[r] # x.baseReq[r]
                      THEN x.mineReq[r] ELSE req[r]]
        /\ reports' = [i \in Assignments |->
                          IF i \in x.reported THEN reports[i] + 1
                          ELSE reports[i]]
        /\ tx' = [tx EXCEPT ![t] = FreeTx]
        /\ UNCHANGED again

\* The commit clashes, or fails for another reason: nothing is written.
Abort(t) ==
    /\ tx[t].phase # "free"
    /\ tx' = [tx EXCEPT ![t] = FreeTx]
    /\ UNCHANGED <<asg, req, reports, again>>

-----------------------------------------------------------------------------

Phone(t) ==
    \/ \E a \in Accounts : OpenBatch(t, a)
    \/ \E r \in Requests : LookAtRequest(t, r)
    \/ \E i \in Assignments :
          \/ \E withRequest \in BOOLEAN : LookAt(t, i, withRequest)
          \/ Take(t, i)
          \/ AcceptNew(t, i)
          \/ AcceptExisting(t, i)
          \/ \E s \in Open \ {"waiting"} : AfterReturn(t, i, s)
          \/ Release(t, i)
          \/ Start(t, i)
          \/ Pause(t, i)
          \/ Resume(t, i)
          \/ Handoff(t, i)
          \/ Complete(t, i)
          \/ CompleteLate(t, i)

Dispatcher(t) ==
    \E i \in Assignments :
        \/ \E s \in NotBegun : CreateRequest(t, i, s) \/ Assign(t, i, s)
        \/ WebStart(t, i)
        \/ WebCancel(t, i)
        \/ WebComplete(t, i)

Next == \E t \in Txs : Phone(t) \/ Dispatcher(t) \/ Save(t) \/ Abort(t)

Spec == Init /\ [][Next]_vars

-----------------------------------------------------------------------------
(* Properties *)

LiveOf(r) == {i \in Of(r) : Live(asg[i])}

\* The board and the assignment tell the same: the two status columns, which
\* different handlers write and only one of which has a concurrency token,
\* never drift apart (a request says "assigned" for a waiting assignment).
\* Left out are the requests of which a batch has named an assignment after
\* returning it, and only those: see ReleasedIsAvailable.
RequestMirrors ==
    \A i \in Assignments :
        Live(asg[i]) /\ RequestOf[i] \notin again =>
            \/ asg[i].status \in NotBegun /\ req[RequestOf[i]] = "assigned"
            \/ asg[i].status \notin NotBegun /\ req[RequestOf[i]] = asg[i].status

\* Returning a patrol makes its request available again
\* (docs/patrol-status-lifecycle.md, "accepted -> release -> assigned").  A
\* batch that goes on to name the assignment it has returned leaves a request
\* nobody has, with the status of the last command: of such requests this
\* says nothing.
ReleasedIsAvailable ==
    \A r \in Requests \ again :
        req[r] # "none" /\ LiveOf(r) = {} => req[r] = "assigned"

\* The same of every request, as the document has it: AfterReturn breaks it.
EveryReleasedIsAvailable ==
    \A r \in Requests :
        req[r] # "none" /\ LiveOf(r) = {} => req[r] = "assigned"

\* A change committed to an assignment shows in its lock_version: else the
\* base revision of a queued report, or the token of another transaction,
\* would pass over a change it has not seen.
EveryChangeMovesLock ==
    [][\A i \in Assignments :
          Live(asg[i]) /\ Live(asg'[i]) /\ asg'[i] # asg[i]
             => asg'[i].lock > asg[i].lock]_vars

\* docs/patrol-status-lifecycle.md:109: an employee has only one patrol in
\* progress.
OneInProgressPerEmployee ==
    \A i, j \in Assignments :
        /\ asg[i].status = "inProgress"
        /\ asg[j].status = "inProgress"
        /\ EmployeeOf[i] = EmployeeOf[j]
        => i = j

\* docs/patrol-status-lifecycle.md:21: accepted means not begun yet.
AcceptedIsNotStarted ==
    \A i \in Assignments : asg[i].status = "accepted" => ~asg[i].started

-----------------------------------------------------------------------------
(* The inductive invariant of the proofs in PatrolLifecycleProofs *)

RowsOK ==
    \A i \in Assignments :
        Live(asg[i]) \/ asg[i] \in {NoRow("unused"), NoRow("removed")}

\* The unique index on patrol_request_id.
OneAssignmentPerRequest ==
    \A i, j \in Assignments :
        RequestOf[i] = RequestOf[j] /\ Live(asg[i]) /\ Live(asg[j]) => i = j

\* A report is there exactly when its assignment is completed; of a cancelled
\* one it may be.
ReportsMatch ==
    \A i \in Assignments :
        /\ asg[i].status = "completed" => reports[i] = 1
        /\ asg[i].status = "cancelled" => reports[i] \in {0, 1}
        /\ asg[i].status \notin Closed => reports[i] = 0

CancelledIn(r) == \E i \in Of(r) : asg[i].status = "cancelled"

CancelledRequests == \A r \in Requests : req[r] = "cancelled" => CancelledIn(r)

\* What may have become of a row since it was read: what another transaction
\* has changed shows in its lock_version, and a closed row keeps its status.
Since(old, now) ==
    \/ now = old
    \/ now = NoRow("removed") /\ old.status \in Open
    \/ /\ Live(now)
       /\ now.lock > old.lock
       /\ old.status \in Closed => now.status = old.status

\* What transaction x is about to do to a row that was in the table.
Intended(x, i) ==
    LET old == x.base[i]
        new == x.mine[i]
    IN  \/ i \notin x.reported /\ new = old
        \/ /\ i \notin x.reported
           /\ new = NoRow("removed")
           /\ old.status \in Open
           /\ ~old.started
        \/ /\ Live(new)
           /\ new.lock > old.lock
           /\ old.started => new.started
           /\ IF i \in x.reported
              THEN /\ new.started
                   /\ asg[i] = old => reports[i] = 0
                   /\ \/ old.status \in Open /\ new.status = "completed"
                      \/ /\ new.status = "cancelled"
                         /\ old.status = "cancelled" \/ CancelledIn(RequestOf[i])
              ELSE /\ old.status \in Open
                   /\ \/ new.status \in Open
                      \/ x.phase = "web" /\ new.status = "cancelled"

TrackedRowOK(x, i) ==
    \/ /\ x.base[i] = NoRow("untracked")
       /\ x.mine[i] = NoRow("untracked")
       /\ i \notin x.reported
    \/ /\ x.base[i] = NoRow("unused")
       /\ x.mine[i].status \in Open
       /\ i \notin x.reported \cup x.known
    \/ Live(x.base[i]) /\ Since(x.base[i], asg[i]) /\ Intended(x, i)

\* A request is about to be cancelled only together with its assignment.
TrackedRequestOK(x, r) ==
    /\ x.mineReq[r] = "untracked" => x.baseReq[r] = "untracked"
    /\ x.mineReq[r] = "cancelled" =>
          \/ CancelledIn(r)
          \/ /\ x.phase = "web"
             /\ \E i \in Of(r) : x.mine[i].status = "cancelled"

TrackerOK(x) ==
    /\ \A i \in Assignments : TrackedRowOK(x, i)
    /\ \A i \in x.known : asg[i].status # "unused"
    /\ \A r \in Requests : TrackedRequestOK(x, r)

FreeSlots == \A t \in Txs : tx[t].phase = "free" => tx[t] = FreeTx

\* What is in a change tracker agrees with the tables, or the commit fails.
Inductive ==
    /\ TypeOK
    /\ RowsOK
    /\ OneAssignmentPerRequest
    /\ ReportsMatch
    /\ CancelledRequests
    /\ FreeSlots
    /\ \A t \in Txs : TrackerOK(tx[t])
=============================================================================
