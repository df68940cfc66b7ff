------------------------------ MODULE SyncTriggers ------------------------------
(***************************************************************************)
(* What makes the phone exchange data with the server, and when:           *)
(* sync/syncTriggers.ts, sync/backgroundSyncTask.ts,                       *)
(* services/mobileDataRefreshService.ts and app/_layout.tsx.  SyncRun      *)
(* extends this module with the steps of a run and the whole Next.         *)
(*                                                                         *)
(* Two exchanges share the phone: a run sends the queue, a refresh fetches *)
(* the board.  Each has one promise that latecomers join or are turned     *)
(* away from, and timers that bring back what failed or came too soon.     *)
(* JavaScript runs one callback at a time: an action is a stretch between  *)
(* two awaits.  Timers stand still while the application is in background. *)
(***************************************************************************)
EXTENDS Naturals

CONSTANTS
    Orders,        \* patrol requests a dispatcher creates
    Commands,      \* outbox commands the employee queues
    Prompt,        \* those whose screen triggers a run: reports, work commands
    MaxBreaks      \* bound: how often the network, the server or the process fails

ASSUME PromptAssumption == Prompt \subseteq Commands
ASSUME BreaksAssumption == MaxBreaks \in Nat

VARIABLES
    app,         \* the process: active, background or closed
    online,      \* hasUsableNetwork()
    serverUp,    \* the server answers
    breaks,
    command,     \* outbox_commands: none, queued (pending, retryLater), sending, sent
    run,         \* foregroundSyncPromise: how far the run is, and who waits for it
    waiting,     \* a trigger waits for the active refresh to end
    retry,       \* retryTimeout
    fetch,       \* mobileDataRefreshService.refreshPromise: how far, and what it read
    active,      \* syncTriggers.activeRefreshPromise
    scheduled,   \* scheduledRefreshTimeout
    cool,        \* is the last requested refresh younger than refreshCooldownMs?
    orders,      \* the board on the server
    seen,        \* the board on the phone
    owed,        \* orders whose push was handled and which no read or attempt has followed
    swallowed    \* those of them whose push joined a fetch that had read without them

timers  == <<active, scheduled, cool>>
sending == <<command, run, waiting, retry>>
pushes  == <<owed, swallowed>>
data    == <<fetch, timers, seen, pushes>>
world   == <<app, online, serverUp, breaks>>

Up      == online /\ serverUp
NoRun   == [at |-> "none", by |-> "none"]
NoFetch == [at |-> "none", got |-> {}]
Queued  == {c \in Commands : command[c] = "queued"}
Asking  == [at |-> "asking", got |-> {}]

TriggersInit ==
    /\ app = "active" /\ online = TRUE /\ serverUp = TRUE /\ breaks = 0
    /\ command = [c \in Commands |-> "none"]
    /\ run = NoRun /\ waiting = FALSE /\ retry = FALSE
    /\ fetch = NoFetch /\ active = FALSE /\ scheduled = FALSE /\ cool = FALSE
    /\ orders = {} /\ seen = {} /\ owed = {} /\ swallowed = {}

-----------------------------------------------------------------------------
(* triggerForegroundSyncWithRetry *)

\* runForegroundSync: a run under way turns the others away ("busy").
Started(r, by) == IF r.at = "none" THEN [at |-> "checking", by |-> by] ELSE r

\* A slip: the trigger does not remember to run after the refresh it waits for.
TriggerSyncForgets(refreshing) ==
    /\ retry' = FALSE
    /\ waiting' = waiting
    /\ run' = IF refreshing THEN run ELSE Started(run, "trigger")

\* The timer is cleared first; a refresh in progress is waited for.
TriggerSync(refreshing) ==
    /\ retry' = FALSE
    /\ waiting' = (waiting \/ refreshing)
    /\ run' = IF refreshing THEN run ELSE Started(run, "trigger")

-----------------------------------------------------------------------------
(* requestMobileDataRefresh *)

\* A slip: a request that finds a refresh in progress is dropped.
RequestRefreshDropped(force) ==
    \/ /\ active \/ (~force /\ cool)
       /\ UNCHANGED <<scheduled, active, cool, fetch>>
    \/ /\ ~active /\ (force \/ ~cool)
       /\ active' = TRUE /\ cool' = TRUE
       /\ fetch' = IF fetch.at = "none" THEN Asking ELSE fetch
       /\ UNCHANGED scheduled

\* Refused by the cooldown or by its own promise it is scheduled; otherwise it
\* starts a fetch or joins the one a screen has started.
RequestRefresh(force) ==
    \/ /\ active \/ (~force /\ cool)
       /\ scheduled' = TRUE
       /\ UNCHANGED <<active, cool, fetch>>
    \/ /\ ~active /\ (force \/ ~cool)
       /\ active' = TRUE /\ cool' = TRUE
       /\ fetch' = IF fetch.at = "none" THEN Asking ELSE fetch
       /\ UNCHANGED scheduled

-----------------------------------------------------------------------------
(* What the employee and the dispatcher do *)

\* A command is written to the outbox.  The screens of a report and of the work
\* accounting then trigger a run; to accept, return, start, pause, resume or hand
\* over a patrol, to scan and to mark a point triggers nothing.
Enqueue(c) ==
    /\ app = "active" /\ command[c] = "none"
    /\ command' = [command EXCEPT ![c] = "queued"]
    /\ IF c \in Prompt THEN TriggerSync(active) ELSE UNCHANGED <<run, waiting, retry>>
    /\ UNCHANGED <<world, data, orders>>

Order(o) ==
    /\ o \notin orders
    /\ orders' = orders \cup {o}
    /\ UNCHANGED <<world, sending, data>>

\* onNotification, onNotificationResponse.  The refresh joins the fetch of a
\* screen, also one that has read the board already: if that was before the order
\* was in it, the push is swallowed.
Push(o) ==
    /\ app = "active" /\ online /\ o \in orders
    /\ RequestRefresh(TRUE)
    /\ TriggerSync(active')
    /\ IF fetch.at = "saving" /\ o \in fetch.got
       THEN UNCHANGED pushes
       ELSE /\ owed' = owed \cup {o}
            /\ swallowed' = IF fetch.at = "saving" /\ ~active
                            THEN swallowed \cup {o} ELSE swallowed \ {o}
    /\ UNCHANGED <<world, command, orders, seen>>

\* The queue's two buttons (SyncQueueScreen).
ManualSync ==
    /\ app = "active"
    /\ \/ UNCHANGED <<fetch, timers>>
       \/ RequestRefresh(TRUE)
    /\ TriggerSync(active')
    /\ UNCHANGED <<world, command, orders, seen, pushes>>

\* A pull on the board calls refreshMobileData itself (RequestBoardScreen).
PullDown ==
    /\ app = "active" /\ fetch.at = "none"
    /\ fetch' = Asking
    /\ UNCHANGED <<world, sending, timers, orders, seen, pushes>>

-----------------------------------------------------------------------------
(* Timers *)

\* A slip: the interval is never set.
FallbackNever == UNCHANGED <<fetch, timers>>

FallbackRefresh == RequestRefresh(FALSE)

\* The interval of subscribeToNetworkSync.
Fallback ==
    /\ app = "active"
    /\ FallbackRefresh
    /\ UNCHANGED <<world, sending, orders, seen, pushes>>

\* Fired too early it schedules itself again.
ScheduledRefresh ==
    /\ app = "active" /\ scheduled /\ ~active /\ ~cool
    /\ scheduled' = FALSE /\ active' = TRUE /\ cool' = TRUE
    /\ fetch' = IF fetch.at = "none" THEN Asking ELSE fetch
    /\ UNCHANGED <<world, sending, orders, seen, pushes>>

CooldownEnds ==
    /\ cool
    /\ cool' = FALSE
    /\ UNCHANGED <<world, sending, fetch, active, scheduled, orders, seen, pushes>>

RetryFires ==
    /\ app = "active" /\ retry
    /\ TriggerSync(active)
    /\ UNCHANGED <<world, command, data, orders>>

-----------------------------------------------------------------------------
(* refreshMobileDataInternal *)

\* A slip: only the fetch itself is told that it is over.
FetchEndsAlone ==
    /\ fetch' = NoFetch /\ active' = FALSE
    /\ UNCHANGED <<waiting, run>>

\* The promises settle and the triggers that waited for them run.
FetchEnds ==
    /\ fetch' = NoFetch /\ active' = FALSE
    /\ waiting' = FALSE
    /\ run' = IF waiting THEN Started(run, "trigger") ELSE run

\* No network, no answer or an error: false, and nobody tries again.
FetchFails ==
    /\ fetch.at = "asking" /\ ~Up
    /\ FetchEnds
    /\ owed' = {} /\ swallowed' = {}
    /\ UNCHANGED <<world, command, retry, scheduled, cool, orders, seen>>

FetchReads ==
    /\ fetch.at = "asking" /\ Up
    /\ fetch' = [at |-> "saving", got |-> orders]
    /\ owed' = {} /\ swallowed' = {}
    /\ UNCHANGED <<world, sending, timers, orders, seen>>

FetchSaves ==
    /\ fetch.at = "saving"
    /\ seen' = fetch.got
    /\ FetchEnds
    /\ UNCHANGED <<world, command, retry, scheduled, cool, orders, pushes>>

-----------------------------------------------------------------------------
(* The process, the network and the server *)

\* The state of the application and of the network call the same two functions.
Woken ==
    /\ RequestRefresh(FALSE)
    /\ TriggerSync(active')

Leave ==
    /\ app = "active"
    /\ app' = "background"
    /\ UNCHANGED <<online, serverUp, breaks, sending, data, orders>>

Return ==
    /\ app = "background"
    /\ app' = "active"
    /\ Woken
    /\ UNCHANGED <<online, serverUp, breaks, command, orders, seen, pushes>>

\* What is not in SQLite is gone.
Kill ==
    /\ app # "closed" \/ run # NoRun
    /\ breaks < MaxBreaks
    /\ breaks' = breaks + 1
    /\ app' = "closed"
    /\ run' = NoRun /\ waiting' = FALSE /\ retry' = FALSE
    /\ fetch' = NoFetch /\ active' = FALSE /\ scheduled' = FALSE /\ cool' = FALSE
    /\ owed' = {} /\ swallowed' = {}
    /\ UNCHANGED <<online, serverUp, command, orders, seen>>

\* NetInfo tells a new listener the present state: the first refresh begins, and
\* the first run waits for it.
Open ==
    /\ app = "closed"
    /\ app' = "active"
    /\ active' = online /\ cool' = online /\ waiting' = online
    /\ fetch' = IF online THEN Asking ELSE NoFetch
    /\ UNCHANGED <<online, serverUp, breaks, command, run, retry, scheduled, orders, seen, pushes>>

\* The push token is registered, some time after the start.
Registered ==
    /\ app = "active"
    /\ RequestRefresh(TRUE)
    /\ UNCHANGED <<world, sending, orders, seen, pushes>>

NetworkBack ==
    /\ ~online
    /\ online' = TRUE
    /\ IF app = "active" THEN Woken ELSE UNCHANGED <<run, waiting, retry, fetch, timers>>
    /\ UNCHANGED <<app, serverUp, breaks, command, orders, seen, pushes>>

\* The phone is told nothing when the server goes and comes.
Change ==
    /\ \/ online /\ online' = FALSE /\ UNCHANGED serverUp /\ breaks' = breaks + 1
       \/ serverUp /\ serverUp' = FALSE /\ UNCHANGED online /\ breaks' = breaks + 1
       \/ ~serverUp /\ serverUp' = TRUE /\ UNCHANGED <<online, breaks>>
    /\ breaks' <= MaxBreaks
    /\ UNCHANGED <<app, sending, data, orders>>

\* The operating system runs the task, the application open or not.
BackgroundTask ==
    /\ run = NoRun
    /\ run' = Started(run, "task")
    /\ UNCHANGED <<world, command, waiting, retry, data, orders>>

-----------------------------------------------------------------------------
(* A run ends *)

\* The trigger that started it schedules a retry or clears the backoff; the task
\* does neither.
RunEnds(failed) ==
    /\ run' = NoRun
    /\ retry' = IF run.by = "trigger" THEN failed ELSE retry
=============================================================================
