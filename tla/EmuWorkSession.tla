--------------------------- MODULE EmuWorkSession ---------------------------
(***************************************************************************)
(* Work sessions of the EMU service: who works on what, who waits, and     *)
(* whose time is being counted.                                            *)
(*                                                                         *)
(* A request reads the session with its participants and open pauses,      *)
(* decides on what it has read, and then commits several times, with no    *)
(* transaction around it: SaveChanges writes what it has changed, a bulk   *)
(* update closes the open participation intervals, and one INSERT each     *)
(* opens a new one.  The process may die between any two of them.          *)
(* RowVersion is compared with the page's when the session is read; it is  *)
(* no concurrency token, and nothing tells a request that another one has  *)
(* committed since it read.  The model remembers where that has happened.  *)
(*                                                                         *)
(* Dates, minutes, reasons, plan tasks and the audit are left out, and     *)
(* "on another work" is a kind of waiting.                                 *)
(***************************************************************************)
EXTENDS Naturals, Sequences, FiniteSets, SequencesExt

CONSTANTS
    Sessions,
    Employees,
    Slots,          \* requests that may be under way at once
    MaxVersion,     \* bound: changes of a session
    MaxChanges,     \* bound: changes of all sessions when a request begins
    MaxRows         \* bound: participants ever added

ASSUME ConstantsAssumption ==
    /\ IsFiniteSet(Employees)
    /\ MaxVersion \in Nat /\ MaxChanges \in Nat /\ MaxRows \in Nat

VARIABLES
    sess,           \* emu_work_sessions
    rows,           \* emu_work_session_employees, in the order of insertion
    pauses,         \* emu_work_pauses with their employees
    timed,          \* per row, how many of its intervals are open
    req,            \* the request of each slot
    raced           \* sessions somebody has committed to whom another had overtaken

db == <<sess, rows, pauses, timed>>
vars == <<sess, rows, pauses, timed, req, raced>>

NoSession == [state |-> "none", waits |-> FALSE, ver |-> 0]
Finished == {"done", "mistaken"}
RowIds == 1 .. MaxRows
PauseIds == Nat \ {0}

\* What a request is going to write: the version, the session's state and
\* status where they change, the status to for the rows set, the pauses that
\* end, a pause of employees, participants to add and rows to drop; then whose
\* intervals it closes, and the rows that get a new one.
Write ==
    [s : Sessions, ver : 1 .. MaxVersion,
     state : {"new", "same", "completed", "deleted"},
     waits : {{}, {TRUE}, {FALSE}}, to : {"working", "waiting"} \cup Finished,
     set : SUBSET RowIds, ends : SUBSET PauseIds, pause : SUBSET Employees,
     adds : SUBSET Employees, drops : SUBSET RowIds,
     close : SUBSET Employees, insert : SUBSET RowIds]

\* A slip: an operation and a helper it calls both touch the session.
TouchedTwice(s) == sess[s].ver + 2

NextVersion(s) == sess[s].ver + 1

NoWrite(s) ==
    [s |-> s, ver |-> NextVersion(s), state |-> "same", waits |-> {},
     to |-> "working", set |-> {}, ends |-> {}, pause |-> {}, adds |-> {},
     drops |-> {}, close |-> {}, insert |-> {}]

Free == [step |-> "free"]

TypeOK ==
    /\ sess \in [Sessions -> [state : {"none", "open", "completed", "deleted"},
                              waits : BOOLEAN, ver : 0 .. MaxVersion]]
    /\ rows \in Seq([s : Sessions, e : Employees,
                     status : {"working", "waiting", "removed"} \cup Finished])
    /\ pauses \in Seq([s : Sessions, emps : SUBSET Employees, open : BOOLEAN])
    /\ timed \in Seq(Nat) /\ Len(timed) = Len(rows)
    /\ \A r \in Slots :
          \/ req[r] = Free
          \/ /\ req[r].step \in {"save", "close", "insert"} /\ req[r].late \in BOOLEAN
             /\ req[r].w \in Write
             /\ UNION {req[r].w.set, req[r].w.drops, req[r].w.insert, req[r].todo} \subseteq DOMAIN rows
             /\ req[r].w.ends \subseteq DOMAIN pauses
    /\ raced \subseteq Sessions

Init ==
    /\ sess = [s \in Sessions |-> NoSession]
    /\ rows = <<>> /\ pauses = <<>> /\ timed = <<>>
    /\ req = [r \in Slots |-> Free]
    /\ raced = {}

-----------------------------------------------------------------------------
(* What a request reads *)

RowsOf(s) == {i \in DOMAIN rows : rows[i].s = s /\ rows[i].status # "removed"}
ActiveRows(s) == {i \in RowsOf(s) : rows[i].status \notin Finished}
RowsOfAny(s, E) == {i \in ActiveRows(s) : rows[i].e \in E}
Names(R) == {rows[i].e : i \in R}

OpenPauses(s, E) ==
    {p \in DOMAIN pauses : /\ pauses[p].s = s /\ pauses[p].open
                           /\ pauses[p].emps \cap E # {}}

\* A slip: somebody who works elsewhere is no conflict.
NoConflict(E, s) == FALSE

\* FindWorkingConflicts
WorksElsewhere(E, s) ==
    \E i \in DOMAIN rows :
        /\ rows[i].e \in E /\ rows[i].status = "working"
        /\ rows[i].s # s /\ sess[rows[i].s].state = "open"

\* The status of a session in which R stay as they are: In work if one works.
WaitsWith(R) == {\A i \in R : rows[i].status # "working"}

\* EF writes the column only if the value differs from what was read.
IfChanged(s, waits) == waits \ {sess[s].waits}

Load(r, w) ==
    /\ req[r] = Free
    /\ sess[w.s].ver < MaxVersion /\ SumFunction([s \in Sessions |-> sess[s].ver]) < MaxChanges
    /\ Len(rows) + Cardinality(w.adds) <= MaxRows
    /\ req' = [req EXCEPT ![r] = [step |-> "save", w |-> w, todo |-> {}, late |-> FALSE]]
    /\ UNCHANGED <<db, raced>>

-----------------------------------------------------------------------------
(* The operations: guards, and what is to be written *)

CreateWorkSession(r, s, E) ==
    /\ sess[s].state = "none"
    /\ ~WorksElsewhere(E, s)
    /\ Load(r, [NoWrite(s) EXCEPT !.state = "new", !.adds = E])

\* Dates, place and task (UpdateWorkSession, CarryOverWorkSession and the
\* worker's CarryOverForgottenWork): only the version moves.
Touch(r, s) ==
    /\ sess[s].state = "open"
    /\ Load(r, NoWrite(s))

UpdateWorkSession(r, s, E) ==
    /\ sess[s].state = "open"
    /\ RowsOf(s) = ActiveRows(s)
    /\ ~WorksElsewhere(E, s)
    /\ Load(r, [NoWrite(s) EXCEPT
                   !.adds = E \ Names(RowsOf(s)),
                   !.drops = RowsOf(s) \ RowsOfAny(s, E)])

PauseWorkSession(r, s, E) ==
    /\ sess[s].state = "open"
    /\ RowsOfAny(s, E) # {}
    /\ \A i \in RowsOfAny(s, E) : rows[i].status = "working"
    /\ LET E2 == Names(RowsOfAny(s, E))
       IN  Load(r, [NoWrite(s) EXCEPT
                      !.waits = IfChanged(s, WaitsWith(ActiveRows(s) \ RowsOfAny(s, E))),
                      !.to = "waiting", !.set = RowsOfAny(s, E),
                      !.pause = E2, !.close = E2, !.insert = RowsOfAny(s, E)])

\* A slip: the interval of the pause is left open.
ClosedOnResume(E) == {}

ResumeCloses(E) == E

\* A pause that several share is ended for all of them.
ResumeWorkSession(r, s, E) ==
    /\ sess[s].state = "open"
    /\ ~WorksElsewhere(E, s)
    /\ RowsOfAny(s, E) # {}
    /\ E \subseteq UNION {pauses[p].emps : p \in OpenPauses(s, E)}
    /\ Load(r, [NoWrite(s) EXCEPT
                   !.waits = IfChanged(s, {FALSE}),
                   !.set = {i \in RowsOfAny(s, E) : rows[i].status # "working"},
                   !.ends = OpenPauses(s, E),
                   !.close = ResumeCloses(E), !.insert = RowsOfAny(s, E)])

\* A slip: open pauses are not looked for.
NobodyPaused(s, E) == TRUE

NonePaused(s, E) == OpenPauses(s, E) = {}

CompleteWorkSession(r, s, E) ==
    /\ sess[s].state = "open"
    /\ RowsOfAny(s, E) # {}
    /\ NonePaused(s, E)
    /\ Load(r, [NoWrite(s) EXCEPT
                   !.state = IF ActiveRows(s) \subseteq RowsOfAny(s, E)
                             THEN "completed" ELSE "same",
                   !.to = "done", !.set = RowsOfAny(s, E), !.close = E])

AddWorkSessionEmployee(r, s, e) ==
    /\ sess[s].state = "open"
    /\ RowsOfAny(s, {e}) = {}
    /\ ~WorksElsewhere({e}, s)
    /\ Load(r, [NoWrite(s) EXCEPT !.waits = IfChanged(s, {FALSE}), !.adds = {e}])

\* FinishWorkSessionEmployee, MarkWorkSessionEmployeeMistaken: the latter takes
\* any row of the employee, a finished one too.
Leave(r, s, i, to) ==
    /\ sess[s].state = "open"
    /\ i \in IF to = "done" THEN ActiveRows(s) ELSE RowsOf(s)
    /\ LET E == {rows[i].e}
       IN  Load(r, [NoWrite(s) EXCEPT
                      !.waits = IfChanged(s, WaitsWith(ActiveRows(s) \ {i})),
                      !.to = to, !.set = {i}, !.ends = OpenPauses(s, E),
                      !.close = E])

DeleteWorkSession(r, s) ==
    /\ sess[s].state \in {"open", "completed"}
    /\ Load(r, [NoWrite(s) EXCEPT !.state = "deleted"])

-----------------------------------------------------------------------------
(* The commits *)

Concerned(w) == w.adds \cup Names(w.set)

\* Two requests have to do with each other.
Overlap(v, w) == v.s = w.s \/ Concerned(v) \cap Concerned(w) # {}

\* Request r commits and is next; others it overlaps with have been overtaken.
Commits(r, next) ==
    /\ req' = [q \in Slots |->
                  IF q = r THEN next
                  ELSE IF req[q] # Free /\ Overlap(req[q].w, req[r].w)
                       THEN [req[q] EXCEPT !.late = TRUE]
                       ELSE req[q]]
    /\ raced' = IF req[r].late THEN raced \cup {req[r].w.s} ELSE raced

\* State, once the request has set CompletedAt, DeletedAt or neither of them.
StateAfter(old, w) ==
    CASE w.state = "new" -> "open"
      [] w.state = "same" \/ old = "deleted" -> old
      [] OTHER -> w.state

\* SaveChanges: columns that have not changed are not written, and a row that
\* is gone, or an id that is taken, makes it fail.  CreateWorkSession inserts
\* the intervals in the same transaction.
Save(r) ==
    /\ req[r].step = "save"
    /\ LET w == req[r].w
           new == SetToSeq(w.adds)
           created == w.state = "new"
       IN  /\ \A i \in w.set \cup w.drops : rows[i].status # "removed"
           /\ created => sess[w.s].state = "none"
           /\ Len(rows) + Len(new) <= MaxRows
           /\ sess' = [sess EXCEPT ![w.s] =
                 [state |-> StateAfter(@.state, w),
                  waits |-> IF w.waits = {} THEN @.waits ELSE w.waits = {TRUE},
                  ver |-> w.ver]]
           /\ rows' = [i \in DOMAIN rows |->
                          [rows[i] EXCEPT
                              !.status = IF i \in w.set THEN w.to
                                         ELSE IF i \in w.drops THEN "removed"
                                         ELSE @]]
                      \o [k \in DOMAIN new |->
                             [s |-> w.s, e |-> new[k], status |-> "working"]]
           /\ pauses' = [p \in DOMAIN pauses |->
                            [pauses[p] EXCEPT !.open = @ /\ p \notin w.ends]]
                        \o IF w.pause = {} THEN <<>>
                           ELSE <<[s |-> w.s, emps |-> w.pause, open |-> TRUE]>>
           /\ timed' = [i \in DOMAIN timed |->
                           IF i \in w.drops THEN 0 ELSE timed[i]]
                       \o [k \in DOMAIN new |-> IF created THEN 1 ELSE 0]
           /\ Commits(r, IF created THEN Free
                         ELSE [req[r] EXCEPT
                                  !.step = "close",
                                  !.todo = w.insert \cup
                                     {Len(rows) + k : k \in DOMAIN new}])

\* CloseOpenParticipationIntervals
Close(r) ==
    /\ req[r].step = "close"
    /\ timed' = [i \in DOMAIN timed |->
                    IF rows[i].s = req[r].w.s /\ rows[i].e \in req[r].w.close
                    THEN 0 ELSE timed[i]]
    /\ Commits(r, IF req[r].todo = {} THEN Free ELSE [req[r] EXCEPT !.step = "insert"])
    /\ UNCHANGED <<sess, rows, pauses>>

\* InsertParticipationInterval, for one row.
Insert(r, i) ==
    /\ req[r].step = "insert"
    /\ i \in req[r].todo
    /\ rows[i].status # "removed"
    /\ timed' = [timed EXCEPT ![i] = @ + 1]
    /\ Commits(r, IF req[r].todo = {i} THEN Free
                  ELSE [req[r] EXCEPT !.todo = req[r].todo \ {i}])
    /\ UNCHANGED <<sess, rows, pauses>>

\* The process dies, or a statement fails: what is committed stays.
Die(r) ==
    /\ req[r] # Free
    /\ req' = [req EXCEPT ![r] = Free]
    /\ UNCHANGED <<db, raced>>

-----------------------------------------------------------------------------

Begin(r) ==
    \E s \in Sessions :
        \/ \E E \in SUBSET Employees \ {{}} :
              \/ CreateWorkSession(r, s, E) \/ UpdateWorkSession(r, s, E)
              \/ PauseWorkSession(r, s, E) \/ ResumeWorkSession(r, s, E)
              \/ CompleteWorkSession(r, s, E)
        \/ Touch(r, s) \/ DeleteWorkSession(r, s)
        \/ \E e \in Employees : AddWorkSessionEmployee(r, s, e)
        \/ \E i \in DOMAIN rows, to \in Finished : Leave(r, s, i, to)

Next ==
    \E r \in Slots :
        \/ Begin(r) \/ Save(r) \/ Close(r) \/ Die(r)
        \/ \E i \in DOMAIN rows : Insert(r, i)

Spec == Init /\ [][Next]_vars
-----------------------------------------------------------------------------
(* Properties *)

WorksIn(i) == rows[i].status = "working" /\ sess[rows[i].s].state = "open"

\* docs/emu-work-accounting-spec.md, 4.3: nobody's time is counted as work in
\* two sessions at once.
NobodyWorksTwice ==
    \A i, j \in DOMAIN rows :
        WorksIn(i) /\ WorksIn(j) /\ rows[i].e = rows[j].e => rows[i].s = rows[j].s

\* By whatever operation he comes to work, whatever died half way and whatever
\* other requests ran at once, nobody works in two sessions, unless a request has
\* committed to one of them after another one it overlaps with had overtaken it:
\* FindWorkingConflicts is asked on every way, and only once.
OneWorkAtATime ==
    \A i, j \in DOMAIN rows :
        /\ WorksIn(i) /\ WorksIn(j) /\ rows[i].e = rows[j].e
        /\ {rows[i].s, rows[j].s} \cap raced = {}
        => rows[i].s = rows[j].s

\* A completed work is completed for everybody in it, and none of them is
\* still in a pause that could never be ended, unless it was raced for.
CompletedIsClosed ==
    \A s \in Sessions \ raced :
        sess[s].state = "completed" =>
            ActiveRows(s) = {} /\ OpenPauses(s, Names(RowsOf(s))) = {}

\* A participant's time is never counted twice in a session not raced for, although
\* the interval before is closed by a commit of its own and the process may die in
\* between.
OneOpenInterval ==
    \A i \in DOMAIN timed : rows[i].s \notin raced => timed[i] <= 1

\* docs/emu-work-accounting-spec.md:297: a resumption ends the waiting of the
\* employees chosen; the others wait on, in a pause that can be ended.
WaitingCanResume ==
    \A s \in Sessions : \A i \in ActiveRows(s) :
        rows[i].status = "waiting" => OpenPauses(s, {rows[i].e}) # {}

\* docs/emu-work-accounting-spec.md:1178: nobody's change of a card is
\* overwritten by somebody who has not seen it.
NothingOverwritten ==
    [][\A s \in Sessions : sess'[s] # sess[s] => sess'[s].ver > sess[s].ver]_vars
=============================================================================
