------------------------------- MODULE PercoSync -------------------------------
(***************************************************************************)
(* EfPercoIntegrationService: passes of the access control system are      *)
(* copied to perco_access_events, and the intervals of presence are        *)
(* computed anew from them after every copy.                               *)
(*                                                                         *)
(* The report of PERCo (the default endpoint) is asked for from the day    *)
(* before the last success.  The worker synchronises when it is time       *)
(* (RunAutomaticSyncIfDueAsync), a user whenever he asks for it, and       *)
(* nothing keeps the two apart.  Each SaveChanges and the bulk delete      *)
(* commit on their own: an action is the work up to the next commit or     *)
(* query.  One employee, his passes matched, no two of them alike.         *)
(***************************************************************************)
EXTENDS Naturals, FiniteSets

CONSTANTS
    Pass,        \* the passes in the order PERCo hears of them: direction, day, time
    Syncs,       \* who synchronises: "worker" and users
    PageSize,    \* rows=100
    MaxPages,    \* 50
    Reliable,    \* MaxReliablePresenceDuration
    MaxDay,      \* bound: the last day
    MaxFaults,   \* bound: failed calls and deaths
    MaxClicks,   \* bound: synchronisations a user asks for
    MaxClosings  \* bound: intervals closed by hand

Ids == DOMAIN Pass

ASSUME PassAssumption ==
    /\ IsFiniteSet(Ids) /\ Ids = 1..Cardinality(Ids)
    /\ \A p \in Ids : Pass[p] \in [dir : {"IN", "OUT"}, day : 0..MaxDay, at : Nat]
ASSUME SyncsAssumption == "worker" \in Syncs
ASSUME PagesAssumption == {PageSize, MaxPages, Reliable} \subseteq Nat \ {0}
ASSUME BoundsAssumption ==
    {MaxDay, MaxFaults, MaxClicks, MaxClosings} \subseteq Nat

VARIABLES
    today,
    recorded,    \* how many passes PERCo has
    events,      \* perco_access_events
    success,     \* the day of perco_sync_states.last_success_at
    intervals,   \* employee_presence_intervals
    at,          \* where each synchronisation stands
    mem,         \* what it has read so far
    missed,      \* history: passes nobody was to find: heard of too late, or cut off
    faults, clicks, closings

vars == <<today, recorded, events, success, intervals, at, mem, missed, faults, clicks, closings>>

Forgotten == [page |-> 0, seen |-> 0, from |-> 0, known |-> {}, got |-> {}, evs |-> {}, manual |-> {}]

Init ==
    /\ today = 0 /\ recorded = 0 /\ events = {} /\ success = 0 /\ intervals = {}
    /\ at = [s \in Syncs |-> "idle"]
    /\ mem = [s \in Syncs |-> Forgotten]
    /\ missed = {}
    /\ faults = 0 /\ clicks = 0 /\ closings = 0

-----------------------------------------------------------------------------
(* RebuildPresenceIntervalsForNewEventsAsync: what it computes *)

\* OrderBy EventAt, then entries before exits.
Before(p, q) ==
    \/ Pass[p].at < Pass[q].at
    \/ Pass[p].at = Pass[q].at /\ Pass[p].dir = "IN" /\ Pass[q].dir = "OUT"
    \/ Pass[p].at = Pass[q].at /\ Pass[p].dir = Pass[q].dir /\ p < q

Opened(s, p) == [opened |-> p, closed |-> 0, source |-> "PERCO", by |-> s]

Closed(i, q) ==
    [i EXCEPT !.closed = q,
              !.source = IF Pass[q].at - Pass[i.opened].at > Reliable THEN "PERCO_REVIEW" ELSE @]

\* acc.open is the entry that waits for its exit, 0 for none.  A second entry
\* within Reliable is ignored; an entry closed by hand ends what was open.
Entry(acc, p, manual, s) ==
    IF p \in manual THEN [acc EXCEPT !.open = 0]
    ELSE IF acc.open # 0 /\ Pass[p].at - Pass[acc.open].at <= Reliable THEN acc
    ELSE [open |-> p, rows |-> acc.rows \cup {Opened(s, p)}]

Exit(acc, q, s) ==
    IF acc.open = 0 THEN acc
    ELSE [open |-> 0,
          rows |-> (acc.rows \ {Opened(s, acc.open)}) \cup {Closed(Opened(s, acc.open), q)}]

InOrder == CHOOSE f \in [Ids -> Ids] : \A m, n \in Ids : m < n => Before(f[m], f[n])

Rebuilt(evs, manual, s) ==
    LET acc[n \in 0..Cardinality(Ids)] ==
            IF n = 0 THEN [open |-> 0, rows |-> {}]
            ELSE LET before == acc[n - 1]
                     p      == InOrder[n]
                 IN  IF p \notin evs THEN before
                     ELSE IF Pass[p].dir = "IN" THEN Entry(before, p, manual, s)
                     ELSE Exit(before, p, s)
    IN  acc[Cardinality(Ids)].rows

Automatic == {i \in intervals : i.source # "PERCO_MANUAL"}
ByHand    == {i.opened : i \in intervals \ Automatic}

-----------------------------------------------------------------------------
(* SyncEventsAsync *)

\* The window of a success on this day leaves the pass behind.
Passed(p, day) == Pass[p].day + 1 < day

\* PERCo hears of a pass, be it that its controller was cut off for days.
GoThrough ==
    /\ recorded < Cardinality(Ids) /\ Pass[recorded + 1].day <= today
    /\ recorded' = recorded + 1
    /\ missed' = missed \cup {p \in {recorded'} : Passed(p, success)}
    /\ UNCHANGED <<today, events, success, intervals, at, mem, faults, clicks, closings>>

Tomorrow ==
    /\ today < MaxDay
    /\ today' = today + 1
    /\ UNCHANGED <<recorded, events, success, intervals, at, mem, missed, faults, clicks, closings>>

\* A slip: no overlap with what was asked for before.
SameDay(d) == d

DayBefore(d) == IF d = 0 THEN 0 ELSE d - 1

Begin(s) ==
    /\ at[s] = "idle"
    /\ s # "worker" => clicks < MaxClicks
    /\ clicks' = IF s = "worker" THEN clicks ELSE clicks + 1
    /\ at' = [at EXCEPT ![s] = "paging"]
    /\ mem' = [mem EXCEPT ![s] = [Forgotten EXCEPT !.from = DayBefore(success), !.seen = recorded,
                                               !.known = events]]
    /\ UNCHANGED <<today, recorded, events, success, intervals, missed, faults, closings>>

\* BuildEventsEndpoint; the newest passes come first.
Window(from) == {p \in 1..recorded : Pass[p].day >= from}

PageRows(from, n) ==
    {p \in Window(from) :
        Cardinality({q \in Window(from) : q > p}) \in ((n - 1) * PageSize)..(n * PageSize - 1)}

\* A slip: pages are read until one is empty, however many there are.
LastPageEmpty(from, n) == n * PageSize > Cardinality(Window(from))

LastPage(from, n) == n * PageSize >= Cardinality(Window(from)) \/ n = MaxPages

\* The report goes on, but page fifty is the last one that is asked for.
CutOff(from, n) ==
    IF n < MaxPages THEN {}
    ELSE {p \in Window(from) : Cardinality({q \in Window(from) : q > p}) >= n * PageSize}

ReadPage(s) ==
    LET page == mem[s].page + 1
        from == mem[s].from
    IN  /\ at[s] = "paging"
        /\ mem' = [mem EXCEPT ![s].page = page,
                              ![s].got = @ \cup (PageRows(from, page) \ mem[s].known)]
        /\ at' = [at EXCEPT ![s] = IF LastPage(from, page) THEN "loaded" ELSE @]
        /\ missed' = missed \cup (CutOff(from, page) \ events)
        /\ UNCHANGED <<today, recorded, events, success, intervals, faults, clicks, closings>>

Forget(s) ==
    /\ at' = [at EXCEPT ![s] = "idle"]
    /\ mem' = [mem EXCEPT ![s] = Forgotten]

\* perco_event_id is unique: a row the other synchronisation has inserted makes
\* SaveChanges throw, and nothing catches it.
Inserted(s) == IF mem[s].got \cap events = {} THEN events \cup mem[s].got ELSE events

\* A slip: an error moves the window on.
SuccessOnError == today

SuccessAfterError == success

\* A call fails: the rows of the pages before it are saved with the error.
PageFails(s) ==
    /\ at[s] = "paging" /\ faults < MaxFaults
    /\ faults' = faults + 1
    /\ events' = Inserted(s)
    /\ success' = SuccessAfterError
    /\ Forget(s)
    /\ UNCHANGED <<today, recorded, intervals, missed, clicks, closings>>

Store(s) ==
    /\ at[s] = "loaded"
    /\ events' = Inserted(s)
    /\ IF mem[s].got \cap events = {}
       THEN /\ at' = [at EXCEPT ![s] = "stored"]
            /\ mem' = [mem EXCEPT ![s].known = {}, ![s].got = {},
                                      ![s].page = 0, ![s].from = 0]
       ELSE Forget(s)
    /\ UNCHANGED <<today, recorded, success, intervals, missed, faults, clicks, closings>>

ReadEvents(s) ==
    /\ at[s] = "stored"
    /\ mem' = [mem EXCEPT ![s].evs = events]
    /\ at' = [at EXCEPT ![s] = "read"]
    /\ UNCHANGED <<today, recorded, events, success, intervals, missed, faults, clicks, closings>>

\* manuallyClosedOpenedEventIds, a query of its own.
ReadClosings(s) ==
    /\ at[s] = "read"
    /\ mem' = [mem EXCEPT ![s].manual = ByHand]
    /\ at' = [at EXCEPT ![s] = "computing"]
    /\ UNCHANGED <<today, recorded, events, success, intervals, missed, faults, clicks, closings>>

\* A slip: intervals closed by hand are deleted too.
KeptNone == {}

\* A slip: only the intervals that are in order are computed anew.
KeptReviewed == {i \in intervals : i.source # "PERCO"}

Kept == intervals \ Automatic

\* ExecuteDelete commits at once.
DeleteOld(s) ==
    /\ at[s] = "computing"
    /\ intervals' = Kept
    /\ at' = [at EXCEPT ![s] = "deleted"]
    /\ UNCHANGED <<today, recorded, events, success, mem, missed, faults, clicks, closings>>

InsertNew(s) ==
    /\ at[s] = "deleted"
    /\ intervals' = intervals \cup Rebuilt(mem[s].evs, mem[s].manual, s)
    /\ at' = [at EXCEPT ![s] = "rebuilt"]
    /\ mem' = [mem EXCEPT ![s].evs = {}, ![s].manual = {}]
    /\ UNCHANGED <<today, recorded, events, success, missed, faults, clicks, closings>>

\* Heard of while the synchronisation ran that moves the window past them: they were
\* late by more than a day, or it lasted over midnight.
HeardMeanwhile(s) == {p \in 1..recorded : p > mem[s].seen /\ Passed(p, today)}

\* UpsertSyncState: finishedAt.
Finish(s) ==
    /\ at[s] = "rebuilt"
    /\ success' = today
    /\ missed' = missed \cup (HeardMeanwhile(s) \ events)
    /\ Forget(s)
    /\ UNCHANGED <<today, recorded, events, intervals, faults, clicks, closings>>

\* The process dies, or the user's request is broken off.
Die(s) ==
    /\ at[s] # "idle" /\ faults < MaxFaults
    /\ faults' = faults + 1
    /\ Forget(s)
    /\ UNCHANGED <<today, recorded, events, success, intervals, missed, clicks, closings>>

\* ClosePresenceIntervalAsync.  A row that a rebuild has deleted meanwhile is not
\* updated: the user gets an error.
CloseByHand(i) ==
    /\ i \in Automatic /\ i.closed = 0
    /\ closings < MaxClosings
    /\ closings' = closings + 1
    /\ intervals' = (intervals \ {i}) \cup {[i EXCEPT !.source = "PERCO_MANUAL"]}
    /\ UNCHANGED <<today, recorded, events, success, at, mem, missed, faults, clicks>>

-----------------------------------------------------------------------------

Step(s) ==
    \/ Begin(s) \/ ReadPage(s) \/ Store(s) \/ ReadEvents(s) \/ ReadClosings(s)
    \/ DeleteOld(s) \/ InsertNew(s) \/ Finish(s)

Next ==
    \/ GoThrough \/ Tomorrow
    \/ \E s \in Syncs : Step(s) \/ PageFails(s) \/ Die(s)
    \/ \E i \in intervals : CloseByHand(i)

\* The worker comes round, and a request that was begun goes on.
Fairness == \A s \in Syncs : WF_vars(Step(s))

Spec     == Init /\ [][Next]_vars
FairSpec == Spec /\ Fairness

-----------------------------------------------------------------------------
(* Properties *)

Rows == [opened : Ids, closed : Ids \cup {0},
         source : {"PERCO", "PERCO_REVIEW", "PERCO_MANUAL"}, by : Syncs]

\* Types; what is stored has been recorded, and an interval is made of stored passes.
TypeOK ==
    /\ recorded \in 0..Cardinality(Ids)
    /\ events \cup missed \subseteq 1..recorded /\ success \in 0..today /\ today \in 0..MaxDay
    /\ intervals \subseteq Rows
    /\ \A i \in intervals : {i.opened, i.closed} \subseteq events \cup {0}
    /\ at \in [Syncs -> {"idle", "paging", "loaded", "stored", "read", "computing", "deleted", "rebuilt"}]
    /\ \A s \in Syncs : mem[s].page \in 0..MaxPages /\ mem[s].seen \in 0..recorded

\* A pass that no later synchronisation will ask PERCo for is stored, whichever
\* calls failed, whichever process died and however two synchronisations interleave.
\* Three kinds of passes are lost: one heard of when the window had passed it, one
\* heard of while the synchronisation ran that moved the window past it (the day of
\* overlap makes up for neither), and one beyond the last page that is asked for.
BehindWindowStored == \A p \in 1..recorded : Passed(p, success) => p \in events \cup missed

\* What a person has closed no rebuild undoes, not even one that read the table
\* before he did.
ByHandStays == [][intervals \ Automatic \subseteq intervals' \ Automatic']_vars

\* Every other pass gets into the table, though PERCo heard of it a day late, a call
\* failed, or the other synchronisation had inserted half of what this one read.
PassesAreStored == \A p \in Ids : p <= recorded ~> p \in events \cup missed

\* The table of intervals recovers: the copies two rebuilds leave, the gap of one
\* that died after its delete, the interval that comes back beside the one closed
\* by hand are all gone after a later synchronisation.
Settled == 
    /\ {<<i.opened, i.closed, i.source>> : i \in Automatic} =
           {<<i.opened, i.closed, i.source>> : i \in Rebuilt(events, ByHand, "worker")}
    /\ \A i, j \in Automatic : i.opened = j.opened => i = j

IntervalsSettle == []<>Settled
=============================================================================
