----------------------------- MODULE SyncRunProofs -----------------------------
(***************************************************************************)
(* Theorems about SyncTriggers and SyncRun: types, that a handled push is  *)
(* followed up or swallowed, that no trigger waits for a refresh           *)
(* which is over, and that photos come before their reports, for any       *)
(* orders, commands, photos and failures.                                  *)
(***************************************************************************)
EXTENDS SyncRun, TLAPS

-----------------------------------------------------------------------------
(* The inductive invariant *)

RunType   == [at : {"none", "checking", "listing", "uploading"}, by : {"none", "trigger", "task"}]
FetchType == [at : {"none", "asking", "saving"}, got : SUBSET Orders]
Known     == {"none", "queued", "sending", "sent", "rejected"}

\* What TypeOK says of the variables of SyncTriggers, and of those of SyncRun.
TriggerTypes ==
    /\ app \in {"active", "background", "closed"}
    /\ online \in BOOLEAN /\ serverUp \in BOOLEAN /\ breaks \in 0..MaxBreaks
    /\ waiting \in BOOLEAN /\ retry \in BOOLEAN
    /\ active \in BOOLEAN /\ scheduled \in BOOLEAN /\ cool \in BOOLEAN
    /\ run \in RunType /\ fetch \in FetchType
    /\ orders \in SUBSET Orders /\ seen \in SUBSET Orders
    /\ owed \in SUBSET Orders /\ swallowed \in SUBSET Orders

RunTypes ==
    /\ command \in [Commands -> Known]
    /\ batch \in SUBSET Commands /\ batches \in 0..MaxBatches
    /\ file \in [WithPhoto -> {"retryLater", "uploading", "uploaded"}]
    /\ stored \in SUBSET WithPhoto /\ withdrawn \in SUBSET WithPhoto

\* A promise of the triggers lasts no longer than the fetch it stands for.
PromisesHold == active => fetch.at # "none"

WaitersHold == waiting => active

\* A push that was handled while a fetch was being saved has been scheduled by the
\* promise it met, or was swallowed by the fetch of a screen.
OwedIsComing ==
    /\ swallowed \subseteq owed
    /\ owed # swallowed => /\ scheduled \/ fetch.at = "asking"
                           /\ fetch.at = "saving" => active

\* The process takes its promises with it.
ClosedIsEmpty == app = "closed" => fetch = NoFetch /\ ~active /\ ~waiting /\ owed = {}

Promises == PromisesHold /\ WaitersHold /\ OwedIsComing /\ ClosedIsEmpty

\* A run has room for the batch it has in hand; without one it has none.
BatchInHand ==
    /\ run.at = "uploading" => batches < MaxBatches
    /\ run.at # "uploading" => batch = {}

\* The phone does not believe in an upload the server knows nothing of.
UploadedIsStored == \A c \in WithPhoto : file[c] = "uploaded" => c \in stored

Inductive ==
    /\ TriggerTypes /\ RunTypes
    /\ Promises
    /\ BatchInHand /\ UploadedIsStored /\ PhotosComeFirst

-----------------------------------------------------------------------------
(* The helpers of the triggers *)

LEMMA Asks == Asking \in FetchType /\ NoFetch \in FetchType /\ NoRun \in RunType
BY DEF Asking, NoFetch, NoRun, FetchType, RunType

\* A run that was started is on its way, one under way goes on.
LEMMA StartedRun ==
    ASSUME NEW r \in RunType, NEW by \in {"trigger", "task"}
    PROVE  /\ Started(r, by) \in RunType
           /\ Started(r, by).at = "uploading" <=> r.at = "uploading"
BY DEF Started, RunType

LEMMA TriggerSyncEffect ==
    ASSUME TriggerTypes, NEW refreshing \in BOOLEAN, TriggerSync(refreshing)
    PROVE  /\ retry' \in BOOLEAN /\ waiting' \in BOOLEAN /\ run' \in RunType
           /\ waiting' <=> waiting \/ refreshing
           /\ run'.at = "uploading" <=> run.at = "uploading"
BY StartedRun DEF TriggerSync, TriggerTypes

\* A refresh that was requested is scheduled, or its promise is there.
LEMMA RequestRefreshEffect ==
    ASSUME TriggerTypes, PromisesHold, NEW force \in BOOLEAN, RequestRefresh(force)
    PROVE  /\ scheduled' \in BOOLEAN /\ active' \in BOOLEAN /\ cool' \in BOOLEAN
           /\ fetch' \in FetchType
           /\ PromisesHold'
           /\ active => active'
           /\ scheduled => scheduled'
           /\ fetch' = IF active' /\ fetch.at = "none" THEN Asking ELSE fetch
           /\ active \/ (~force /\ cool) => scheduled' /\ fetch' = fetch
           /\ ~active /\ (force \/ ~cool) => active'
<1>1. CASE active \/ (~force /\ cool)
  <2>1. scheduled' = TRUE /\ active' = active /\ cool' = cool /\ fetch' = fetch
    BY <1>1 DEF RequestRefresh
  <2> QED
    BY <1>1, <2>1 DEF TriggerTypes, PromisesHold
<1>2. CASE ~active /\ (force \/ ~cool)
  <2>1. /\ active' = TRUE /\ cool' = TRUE /\ scheduled' = scheduled
        /\ fetch' = IF fetch.at = "none" THEN Asking ELSE fetch
    BY <1>2 DEF RequestRefresh
  <2>2. Asking.at # "none"
    BY DEF Asking
  <2> QED
    BY <1>2, <2>1, <2>2, Asks DEF TriggerTypes, PromisesHold
<1> QED
  BY <1>1, <1>2 DEF RequestRefresh

LEMMA FetchEndsEffect ==
    ASSUME TriggerTypes, FetchEnds
    PROVE  /\ fetch' = NoFetch /\ active' = FALSE /\ waiting' = FALSE
           /\ fetch' \in FetchType /\ run' \in RunType
           /\ run'.at = "uploading" <=> run.at = "uploading"
BY StartedRun, Asks DEF FetchEnds, TriggerTypes

LEMMA RunEndsEffect ==
    ASSUME TriggerTypes, NEW failed \in BOOLEAN, RunEnds(failed)
    PROVE  run' = NoRun /\ run' \in RunType /\ run'.at = "none" /\ retry' \in BOOLEAN
BY Asks DEF RunEnds, TriggerTypes, NoRun

LEMMA BackToQueueEffect ==
    ASSUME RunTypes, NEW S \in SUBSET Commands, BackToQueue(S)
    PROVE  /\ command' \in [Commands -> Known]
           /\ PhotosComeFirst => PhotosComeFirst'
BY DEF BackToQueue, RunTypes, Known, PhotosComeFirst

-----------------------------------------------------------------------------
(* The triggers *)

\* Woken is what Return and NetworkBack do alike.
LEMMA WokenEffect ==
    ASSUME TriggerTypes, Promises, app \in {"active", "background"}, Woken,
           UNCHANGED pushes
    PROVE  /\ scheduled' \in BOOLEAN /\ active' \in BOOLEAN /\ cool' \in BOOLEAN
           /\ fetch' \in FetchType /\ retry' \in BOOLEAN /\ waiting' \in BOOLEAN
           /\ run' \in RunType /\ (run'.at = "uploading" <=> run.at = "uploading")
           /\ PromisesHold' /\ WaitersHold' /\ OwedIsComing'
<1>1. RequestRefresh(FALSE) /\ TriggerSync(active')
  BY DEF Woken
<1>2. /\ scheduled' \in BOOLEAN /\ active' \in BOOLEAN /\ cool' \in BOOLEAN
      /\ fetch' \in FetchType /\ PromisesHold' /\ (active => active')
      /\ scheduled => scheduled'
      /\ fetch' = IF active' /\ fetch.at = "none" THEN Asking ELSE fetch
  BY <1>1, RequestRefreshEffect DEF Promises
<1>3. /\ retry' \in BOOLEAN /\ waiting' \in BOOLEAN /\ run' \in RunType
      /\ waiting' <=> waiting \/ active'
      /\ run'.at = "uploading" <=> run.at = "uploading"
  BY <1>1, <1>2, TriggerSyncEffect
<1>4. WaitersHold'
  BY <1>2, <1>3 DEF Promises, WaitersHold
<1>5. OwedIsComing'
  BY <1>2 DEF Promises, OwedIsComing, Asking, pushes
<1> QED
  BY <1>2, <1>3, <1>4, <1>5

\* What a trigger leaves: the run it may start is not uploading yet.
TriggersKeep ==
    /\ TriggerTypes' /\ Promises'
    /\ run'.at = "uploading" <=> run.at = "uploading"

LEMMA TriggersStep ==
    ASSUME TriggerTypes, Promises, Triggers
    PROVE  TriggersKeep
<1> USE DEF world, sending, timers, pushes, data, TriggersKeep
<1>1. ASSUME NEW c \in Commands, Enqueue(c) PROVE TriggersKeep
  <2>1. /\ retry' \in BOOLEAN /\ waiting' \in BOOLEAN /\ run' \in RunType
        /\ waiting' => waiting \/ active
        /\ run'.at = "uploading" <=> run.at = "uploading"
    <3>1. CASE c \in Prompt
      BY <1>1, <3>1, TriggerSyncEffect DEF Enqueue, TriggerTypes
    <3>2. CASE c \notin Prompt
      BY <1>1, <3>2 DEF Enqueue, TriggerTypes
    <3> QED
      BY <3>1, <3>2
  <2>2. TriggerTypes'
    BY <1>1, <2>1 DEF Enqueue, TriggerTypes
  <2> QED
    BY <1>1, <2>1, <2>2 DEF Enqueue, Promises, PromisesHold, WaitersHold, OwedIsComing, ClosedIsEmpty
<1>2. ASSUME NEW o \in Orders, Order(o) PROVE TriggersKeep
  BY <1>2 DEF Order, TriggerTypes, Promises, PromisesHold, WaitersHold, OwedIsComing, ClosedIsEmpty
<1>3. ASSUME NEW o \in Orders, Push(o) PROVE TriggersKeep
  <2>1. /\ scheduled' \in BOOLEAN /\ active' \in BOOLEAN /\ cool' \in BOOLEAN
        /\ fetch' \in FetchType /\ PromisesHold' /\ (active => active')
        /\ scheduled => scheduled'
        /\ fetch' = IF active' /\ fetch.at = "none" THEN Asking ELSE fetch
        /\ (active => scheduled' /\ fetch' = fetch)
        /\ ~active => active'
    BY <1>3, RequestRefreshEffect DEF Push, Promises
  <2>2. /\ retry' \in BOOLEAN /\ waiting' \in BOOLEAN /\ run' \in RunType
        /\ waiting' <=> waiting \/ active'
        /\ run'.at = "uploading" <=> run.at = "uploading"
    BY <1>3, <2>1, TriggerSyncEffect DEF Push
  <2>3. TriggerTypes'
    BY <1>3, <2>1, <2>2 DEF Push, TriggerTypes
  <2>4. WaitersHold' /\ ClosedIsEmpty'
    BY <1>3, <2>1, <2>2 DEF Push, Promises, WaitersHold, ClosedIsEmpty
  <2>5. OwedIsComing'
    <3>1. CASE fetch.at = "saving" /\ o \in fetch.got
      BY <1>3, <2>1, <3>1 DEF Push, Promises, OwedIsComing, Asking
    <3>2. CASE ~(fetch.at = "saving" /\ o \in fetch.got)
      <4>1. /\ owed' = owed \cup {o}
            /\ swallowed' = IF fetch.at = "saving" /\ ~active
                            THEN swallowed \cup {o} ELSE swallowed \ {o}
        BY <1>3, <3>2 DEF Push
      <4>2. swallowed' \subseteq owed'
        BY <4>1 DEF Promises, OwedIsComing
      <4>3. CASE active
        BY <2>1, <4>2, <4>3 DEF OwedIsComing
      <4>4. CASE ~active /\ fetch.at = "saving"
        <5>1. owed = swallowed
          BY <4>4 DEF Promises, OwedIsComing
        <5> QED
          BY <4>1, <4>4, <5>1 DEF OwedIsComing
      <4>5. CASE ~active /\ fetch.at # "saving"
        <5>1. fetch'.at = "asking"
          BY <2>1, <4>5 DEF TriggerTypes, FetchType, Asking
        <5> QED
          BY <4>2, <5>1 DEF OwedIsComing
      <4> QED
        BY <4>3, <4>4, <4>5
    <3> QED
      BY <3>1, <3>2
  <2> QED
    BY <2>1, <2>2, <2>3, <2>4, <2>5 DEF Promises
<1>4. CASE ManualSync
  <2>1. /\ scheduled' \in BOOLEAN /\ active' \in BOOLEAN /\ cool' \in BOOLEAN
        /\ fetch' \in FetchType /\ PromisesHold' /\ (active => active')
        /\ scheduled => scheduled'
        /\ fetch' = IF active' /\ fetch.at = "none" THEN Asking ELSE fetch
    <3>1. CASE RequestRefresh(TRUE)
      BY <3>1, RequestRefreshEffect DEF Promises
    <3>2. CASE UNCHANGED <<fetch, timers>>
      BY <3>2 DEF TriggerTypes, Promises, PromisesHold
    <3> QED
      BY <1>4, <3>1, <3>2 DEF ManualSync
  <2>2. /\ retry' \in BOOLEAN /\ waiting' \in BOOLEAN /\ run' \in RunType
        /\ waiting' <=> waiting \/ active'
        /\ run'.at = "uploading" <=> run.at = "uploading"
    BY <1>4, <2>1, TriggerSyncEffect DEF ManualSync
  <2>3. TriggerTypes'
    BY <1>4, <2>1, <2>2 DEF ManualSync, TriggerTypes
  <2>4. WaitersHold' /\ ClosedIsEmpty' /\ OwedIsComing'
    BY <1>4, <2>1, <2>2 DEF ManualSync, Promises, WaitersHold, ClosedIsEmpty, OwedIsComing, Asking
  <2> QED
    BY <2>1, <2>2, <2>3, <2>4 DEF Promises
<1>5. CASE PullDown
  <2>1. TriggerTypes'
    BY <1>5, Asks DEF PullDown, TriggerTypes
  <2> QED
    BY <1>5, <2>1 DEF PullDown, Promises, PromisesHold, WaitersHold, OwedIsComing, ClosedIsEmpty, Asking
<1>6. CASE Registered \/ Fallback
  <2>1. PICK force \in BOOLEAN : RequestRefresh(force)
    BY <1>6 DEF Registered, Fallback, FallbackRefresh
  <2>2. /\ app = "active"
        /\ UNCHANGED <<world, sending, orders, seen, pushes>>
    BY <1>6 DEF Registered, Fallback
  <2>3. /\ scheduled' \in BOOLEAN /\ active' \in BOOLEAN /\ cool' \in BOOLEAN
        /\ fetch' \in FetchType /\ PromisesHold' /\ (active => active')
        /\ scheduled => scheduled'
        /\ fetch' = IF active' /\ fetch.at = "none" THEN Asking ELSE fetch
    BY <2>1, RequestRefreshEffect DEF Promises
  <2>4. TriggerTypes'
    BY <2>2, <2>3 DEF TriggerTypes
  <2> QED
    BY <2>2, <2>3, <2>4 DEF Promises, WaitersHold, OwedIsComing, ClosedIsEmpty, Asking
<1>7. CASE ScheduledRefresh
  <2>1. TriggerTypes'
    BY <1>7, Asks DEF ScheduledRefresh, TriggerTypes
  <2> QED
    BY <1>7, <2>1 DEF ScheduledRefresh, Promises, PromisesHold, WaitersHold, OwedIsComing,
                      ClosedIsEmpty, Asking, TriggerTypes, FetchType
<1>8. CASE CooldownEnds
  BY <1>8 DEF CooldownEnds, TriggerTypes, Promises, PromisesHold, WaitersHold, OwedIsComing, ClosedIsEmpty
<1>9. CASE RetryFires
  <2>1. /\ retry' \in BOOLEAN /\ waiting' \in BOOLEAN /\ run' \in RunType
        /\ waiting' <=> waiting \/ active
        /\ run'.at = "uploading" <=> run.at = "uploading"
    BY <1>9, TriggerSyncEffect DEF RetryFires, TriggerTypes
  <2>2. TriggerTypes'
    BY <1>9, <2>1 DEF RetryFires, TriggerTypes
  <2> QED
    BY <1>9, <2>1, <2>2 DEF RetryFires, Promises, PromisesHold, WaitersHold, OwedIsComing, ClosedIsEmpty
<1>10. CASE FetchFails \/ FetchSaves
  <2>1. FetchEnds
    BY <1>10 DEF FetchFails, FetchSaves
  <2>2. /\ fetch' = NoFetch /\ active' = FALSE /\ waiting' = FALSE
        /\ fetch' \in FetchType /\ run' \in RunType
        /\ run'.at = "uploading" <=> run.at = "uploading"
    BY <2>1, FetchEndsEffect
  <2>3. TriggerTypes'
    BY <1>10, <2>2 DEF FetchFails, FetchSaves, TriggerTypes, FetchType
  <2>4. OwedIsComing'
    BY <1>10, <2>2 DEF FetchFails, FetchSaves, Promises, OwedIsComing, NoFetch
  <2> QED
    BY <1>10, <2>2, <2>3, <2>4 DEF FetchFails, FetchSaves, Promises, PromisesHold, WaitersHold, ClosedIsEmpty
<1>11. CASE FetchReads
  <2>1. TriggerTypes'
    BY <1>11 DEF FetchReads, TriggerTypes, FetchType
  <2> QED
    BY <1>11, <2>1 DEF FetchReads, Promises, PromisesHold, WaitersHold, OwedIsComing, ClosedIsEmpty, NoFetch
<1>12. CASE Leave
  BY <1>12 DEF Leave, TriggerTypes, Promises, PromisesHold, WaitersHold, OwedIsComing, ClosedIsEmpty
<1>13. CASE Return
  <2>1. /\ scheduled' \in BOOLEAN /\ active' \in BOOLEAN /\ cool' \in BOOLEAN
        /\ fetch' \in FetchType /\ retry' \in BOOLEAN /\ waiting' \in BOOLEAN
        /\ run' \in RunType /\ (run'.at = "uploading" <=> run.at = "uploading")
        /\ PromisesHold' /\ WaitersHold' /\ OwedIsComing'
    BY <1>13, WokenEffect DEF Return
  <2>2. TriggerTypes'
    BY <1>13, <2>1 DEF Return, TriggerTypes
  <2> QED
    BY <1>13, <2>1, <2>2 DEF Return, Promises, ClosedIsEmpty
<1>14. CASE Open
  <2>1. TriggerTypes'
    BY <1>14, Asks DEF Open, TriggerTypes
  <2>2. owed' = {} /\ run' = run
    BY <1>14 DEF Open, Promises, ClosedIsEmpty
  <2> QED
    BY <1>14, <2>1, <2>2 DEF Open, Promises, PromisesHold, WaitersHold, OwedIsComing,
                             ClosedIsEmpty, Asking, TriggerTypes
<1>15. CASE NetworkBack
  <2>1. CASE app = "active"
    <3>1. /\ scheduled' \in BOOLEAN /\ active' \in BOOLEAN /\ cool' \in BOOLEAN
          /\ fetch' \in FetchType /\ retry' \in BOOLEAN /\ waiting' \in BOOLEAN
          /\ run' \in RunType /\ (run'.at = "uploading" <=> run.at = "uploading")
          /\ PromisesHold' /\ WaitersHold' /\ OwedIsComing'
      BY <1>15, <2>1, WokenEffect DEF NetworkBack
    <3>2. TriggerTypes'
      BY <1>15, <3>1 DEF NetworkBack, TriggerTypes
    <3> QED
      BY <1>15, <2>1, <3>1, <3>2 DEF NetworkBack, Promises, ClosedIsEmpty
  <2>2. CASE app # "active"
    BY <1>15, <2>2 DEF NetworkBack, TriggerTypes, Promises, PromisesHold, WaitersHold,
                       OwedIsComing, ClosedIsEmpty
  <2> QED
    BY <2>1, <2>2
<1>16. CASE Change
  <2>1. breaks' \in 0..MaxBreaks
    BY <1>16, BreaksAssumption DEF Change, TriggerTypes
  <2>2. online' \in BOOLEAN /\ serverUp' \in BOOLEAN
    BY <1>16 DEF Change, TriggerTypes
  <2>3. UNCHANGED <<app, sending, data, orders>>
    BY <1>16 DEF Change
  <2>4. TriggerTypes'
    BY <2>1, <2>2, <2>3 DEF TriggerTypes
  <2> QED
    BY <2>3, <2>4 DEF Promises, PromisesHold, WaitersHold, OwedIsComing, ClosedIsEmpty
<1>17. CASE BackgroundTask
  <2>1. run' \in RunType /\ (run'.at = "uploading" <=> run.at = "uploading")
    BY <1>17, StartedRun DEF BackgroundTask, TriggerTypes
  <2>2. TriggerTypes'
    BY <1>17, <2>1 DEF BackgroundTask, TriggerTypes
  <2> QED
    BY <1>17, <2>1, <2>2 DEF BackgroundTask, Promises, PromisesHold, WaitersHold, OwedIsComing, ClosedIsEmpty
<1> QED
  <2> HIDE DEF TriggersKeep, world, sending, timers, data
  <2>1. CASE \E c \in Commands : Enqueue(c)
    <3>1. PICK c \in Commands : Enqueue(c)
      BY <2>1
    <3> QED
      BY <3>1, <1>1
  <2>2. CASE \E o \in Orders : Order(o) \/ Push(o)
    <3>1. PICK o \in Orders : Order(o) \/ Push(o)
      BY <2>2
    <3> QED
      BY <3>1, <1>2, <1>3
  <2>3. CASE ManualSync \/ PullDown \/ Registered
    BY <2>3, <1>4, <1>5, <1>6
  <2>4. CASE Fallback \/ ScheduledRefresh \/ CooldownEnds \/ RetryFires
    BY <2>4, <1>6, <1>7, <1>8, <1>9
  <2>5. CASE Fetch
    BY <2>5, <1>10, <1>11 DEF Fetch
  <2>6. CASE Leave \/ Return \/ Open \/ NetworkBack \/ Change \/ BackgroundTask
    BY <2>6, <1>12, <1>13, <1>14, <1>15, <1>16, <1>17
  <2> QED
    BY <2>1, <2>2, <2>3, <2>4, <2>5, <2>6 DEF Triggers

\* Of the triggers only Enqueue touches a command.
LEMMA TriggersLeaveCommands ==
    ASSUME RunTypes, PhotosComeFirst, Triggers
    PROVE  command' \in [Commands -> Known] /\ PhotosComeFirst'
<1> USE DEF world, sending, timers, pushes, data
<1>1. CASE \E c \in Commands : Enqueue(c)
  <2>1. PICK c \in Commands : command' = [command EXCEPT ![c] = "queued"]
    BY <1>1 DEF Enqueue
  <2> QED
    BY <2>1 DEF RunTypes, Known, PhotosComeFirst
<1>2. CASE command' = command
  BY <1>2 DEF RunTypes, PhotosComeFirst
<1>3. CASE \E o \in Orders : Order(o) \/ Push(o)
  BY <1>2, <1>3 DEF Order, Push
<1>4. CASE ManualSync \/ PullDown \/ Registered \/ Fallback
  BY <1>2, <1>4 DEF ManualSync, PullDown, Registered, Fallback
<1>5. CASE ScheduledRefresh \/ CooldownEnds \/ RetryFires \/ Fetch
  BY <1>2, <1>5 DEF ScheduledRefresh, CooldownEnds, RetryFires, Fetch, FetchFails, FetchReads, FetchSaves
<1>6. CASE Leave \/ Return \/ Open \/ NetworkBack \/ Change \/ BackgroundTask
  BY <1>2, <1>6 DEF Leave, Return, Open, NetworkBack, Change, BackgroundTask
<1> QED
  BY <1>1, <1>3, <1>4, <1>5, <1>6 DEF Triggers

-----------------------------------------------------------------------------
(* The run *)

\* What a step of a run leaves alone keeps the promises.
LEMMA RunLeavesPromises ==
    ASSUME TriggerTypes, Promises, run' \in RunType, retry' \in BOOLEAN,
           UNCHANGED <<world, waiting, data, orders>>
    PROVE  TriggerTypes' /\ Promises'
<1> USE DEF world, data, timers, pushes
<1>1. TriggerTypes'
  BY DEF TriggerTypes
<1> QED
  BY <1>1 DEF Promises, PromisesHold, WaitersHold, OwedIsComing, ClosedIsEmpty

LEMMA CheckStep ==
    ASSUME Inductive, Check
    PROVE  Inductive'
<1>1. /\ run' \in RunType /\ run'.at # "uploading" /\ retry' \in BOOLEAN
      /\ command' \in [Commands -> Known] /\ PhotosComeFirst'
  <2>1. CASE ~online /\ RunEnds(FALSE) /\ UNCHANGED command
    <3>1. run' \in RunType /\ run'.at = "none" /\ retry' \in BOOLEAN
      BY <2>1, RunEndsEffect DEF Inductive
    <3> QED
      BY <2>1, <3>1 DEF Inductive, RunTypes, PhotosComeFirst
  <2>2. CASE online /\ ~serverUp /\ RunEnds(TRUE) /\ BackToQueue(Commands)
    <3>1. run' \in RunType /\ run'.at = "none" /\ retry' \in BOOLEAN
      BY <2>2, RunEndsEffect DEF Inductive
    <3>2. command' \in [Commands -> Known] /\ PhotosComeFirst'
      BY <2>2, BackToQueueEffect DEF Inductive
    <3> QED
      BY <3>1, <3>2
  <2>3. CASE /\ Up
             /\ run' = [run EXCEPT !.at = "listing"]
             /\ \E stale \in SUBSET Commands : BackToQueue(stale)
             /\ UNCHANGED retry
    <3>1. run' \in RunType /\ run'.at = "listing" /\ retry' \in BOOLEAN
      BY <2>3 DEF Inductive, TriggerTypes, RunType
    <3>2. command' \in [Commands -> Known] /\ PhotosComeFirst'
      BY <2>3, BackToQueueEffect DEF Inductive
    <3> QED
      BY <3>1, <3>2
  <2> QED
    BY <2>1, <2>2, <2>3 DEF Check
<1>2. run.at = "checking" /\ UNCHANGED <<world, waiting, data, orders, batch, batches, media>>
  BY DEF Check
<1>3. TriggerTypes' /\ Promises'
  BY <1>1, <1>2, RunLeavesPromises DEF Inductive
<1>4. RunTypes' /\ BatchInHand' /\ UploadedIsStored'
  BY <1>1, <1>2 DEF Inductive, RunTypes, BatchInHand, UploadedIsStored, media
<1> QED
  BY <1>1, <1>3, <1>4 DEF Inductive

LEMMA ListStep ==
    ASSUME Inductive, List
    PROVE  Inductive'
<1>1. run.at = "listing" /\ UNCHANGED <<world, waiting, data, orders, media>>
  BY DEF List
<1>2. /\ run' \in RunType /\ retry' \in BOOLEAN
      /\ command' \in [Commands -> Known] /\ PhotosComeFirst'
      /\ batch' \in SUBSET Commands /\ batches' \in 0..MaxBatches
      /\ BatchInHand'
  <2>1. CASE Queued = {} \/ batches = MaxBatches
    <3>1. RunEnds(FALSE) /\ batch' = {} /\ batches' = 0 /\ UNCHANGED command
      BY <2>1 DEF List
    <3>2. run' \in RunType /\ run'.at = "none" /\ retry' \in BOOLEAN
      BY <3>1, RunEndsEffect DEF Inductive
    <3> QED
      BY <3>1, <3>2, RunAssumption DEF Inductive, RunTypes, BatchInHand, PhotosComeFirst
  <2>2. CASE ~(Queued = {} \/ batches = MaxBatches)
    <3>1. /\ run' = [run EXCEPT !.at = "uploading"]
          /\ batch' = Queued
          /\ command' = [c \in Commands |-> IF c \in Queued THEN "sending" ELSE command[c]]
          /\ UNCHANGED <<retry, batches>>
      BY <2>2 DEF List
    <3>2. run' \in RunType /\ run'.at = "uploading" /\ retry' \in BOOLEAN
      BY <3>1 DEF Inductive, TriggerTypes, RunType
    <3>3. command' \in [Commands -> Known] /\ PhotosComeFirst'
      BY <3>1 DEF Inductive, RunTypes, Known, PhotosComeFirst
    <3>4. batches' \in 0..MaxBatches /\ batches' < MaxBatches
      BY <2>2, <3>1, RunAssumption DEF Inductive, RunTypes
    <3>5. batch' \in SUBSET Commands
      BY <3>1 DEF Queued
    <3> QED
      BY <3>2, <3>3, <3>4, <3>5, <3>1 DEF BatchInHand
  <2> QED
    BY <2>1, <2>2
<1>3. TriggerTypes' /\ Promises'
  BY <1>1, <1>2, RunLeavesPromises DEF Inductive
<1>4. RunTypes' /\ UploadedIsStored'
  BY <1>1, <1>2 DEF Inductive, RunTypes, UploadedIsStored, media
<1> QED
  BY <1>2, <1>3, <1>4 DEF Inductive

\* What may be stored of a photo whose upload was cut short.
LEMMA HalfSent ==
    ASSUME NEW c \in WithPhoto, stored \in SUBSET WithPhoto,
           stored' \in {stored} \cup {stored \cup {d} : d \in {c} \ withdrawn}
    PROVE  stored' \in SUBSET WithPhoto /\ stored \subseteq stored'
OBVIOUS

\* The last batch of a run that ends is no longer in hand.
LEMMA UploadStep ==
    ASSUME Inductive, NEW c \in WithPhoto, Upload(c)
    PROVE  Inductive'
<1>1. /\ run.at = "uploading" /\ c \in ToUpload /\ KeepsBatch
      /\ UNCHANGED <<world, waiting, data, orders, withdrawn>>
  BY DEF Upload
<1>2. TriggerTypes /\ RunTypes /\ Promises /\ BatchInHand /\ UploadedIsStored /\ PhotosComeFirst
  BY DEF Inductive
<1>3. /\ run' \in RunType /\ retry' \in BOOLEAN /\ run' \in {run, NoRun}
      /\ command' \in [Commands -> Known] /\ PhotosComeFirst'
      /\ file' \in [WithPhoto -> {"retryLater", "uploading", "uploaded"}]
      /\ stored' \in SUBSET WithPhoto /\ UploadedIsStored'
  <2>1. CASE /\ Up /\ Granted(c)
             /\ stored' = stored \cup {c}
             /\ file' = [file EXCEPT ![c] = "uploaded"]
             /\ UNCHANGED <<run, retry, command>>
    BY <1>2, <2>1 DEF TriggerTypes, RunTypes, UploadedIsStored, PhotosComeFirst
  <2>2. CASE /\ Up /\ ~Granted(c)
             /\ file' = [file EXCEPT ![c] = "retryLater"]
             /\ RunEnds(TRUE)
             /\ BackToQueue(Commands)
             /\ UNCHANGED stored
    <3>1. run' = NoRun /\ run' \in RunType /\ retry' \in BOOLEAN
      BY <1>2, <2>2, RunEndsEffect
    <3>2. command' \in [Commands -> Known] /\ PhotosComeFirst'
      BY <1>2, <2>2, BackToQueueEffect
    <3>3. /\ file' \in [WithPhoto -> {"retryLater", "uploading", "uploaded"}]
          /\ stored' \in SUBSET WithPhoto /\ UploadedIsStored'
      BY <1>2, <2>2 DEF RunTypes, UploadedIsStored
    <3> QED
      BY <3>1, <3>2, <3>3
  <2>3. CASE /\ ~Up
             /\ stored' \in {stored} \cup {stored \cup {d} : d \in {c} \ withdrawn}
             /\ file' = [file EXCEPT ![c] = "retryLater"]
             /\ RunEnds(TRUE)
             /\ BackToQueue(batch)
    <3>1. run' = NoRun /\ run' \in RunType /\ retry' \in BOOLEAN
      BY <1>2, <2>3, RunEndsEffect
    <3>2. command' \in [Commands -> Known] /\ PhotosComeFirst'
      BY <1>2, <2>3, BackToQueueEffect DEF RunTypes
    <3>3. stored' \in SUBSET WithPhoto /\ stored \subseteq stored'
      BY <1>2, <2>3, HalfSent DEF RunTypes
    <3>4. /\ file' \in [WithPhoto -> {"retryLater", "uploading", "uploaded"}]
          /\ UploadedIsStored'
      BY <1>2, <2>3, <3>3 DEF RunTypes, UploadedIsStored
    <3> QED
      BY <3>1, <3>2, <3>3, <3>4
  <2> QED
    BY <2>1, <2>2, <2>3 DEF Upload
<1>4. batch' \in SUBSET Commands /\ batches' \in 0..MaxBatches /\ BatchInHand'
  BY <1>1, <1>2, <1>3, RunAssumption DEF KeepsBatch, RunTypes, BatchInHand, NoRun
<1>5. TriggerTypes' /\ Promises'
  BY <1>1, <1>2, <1>3, RunLeavesPromises
<1>6. RunTypes'
  BY <1>1, <1>2, <1>3, <1>4 DEF RunTypes
<1> QED
  BY <1>3, <1>4, <1>5, <1>6 DEF Inductive

\* Every photo of the batch has been uploaded, so the server has them all.
LEMMA PostStep ==
    ASSUME Inductive, Post
    PROVE  Inductive'
<1>1. /\ run.at = "uploading" /\ ToUpload = {} /\ batch' = {}
      /\ UNCHANGED <<world, waiting, data, orders, media>>
  BY DEF Post
<1>2. TriggerTypes /\ RunTypes /\ Promises /\ BatchInHand /\ UploadedIsStored /\ PhotosComeFirst
  BY DEF Inductive
<1>3. /\ run' \in RunType /\ run'.at # "uploading" /\ retry' \in BOOLEAN
      /\ command' \in [Commands -> Known] /\ PhotosComeFirst'
      /\ batches' \in 0..MaxBatches
  <2>1. CASE /\ Up
             /\ command' = [c \in Commands |-> IF c \in batch THEN Verdict(c) ELSE command[c]]
             /\ run' = [run EXCEPT !.at = "listing"]
             /\ batches' = batches + 1
             /\ UNCHANGED retry
    <3>1. ASSUME NEW c \in batch PROVE Verdict(c) = "sent"
      BY <1>1, <1>2, <3>1 DEF ToUpload, UploadedIsStored, Verdict
    <3>2. command' \in [Commands -> Known] /\ PhotosComeFirst'
      <4>1. ASSUME NEW c \in Commands
            PROVE  command'[c] \in Known /\ command'[c] # "rejected"
        BY <1>2, <2>1, <3>1 DEF RunTypes, Known, PhotosComeFirst
      <4> QED
        BY <2>1, <4>1 DEF PhotosComeFirst
    <3>3. run' \in RunType /\ run'.at = "listing" /\ retry' \in BOOLEAN
      BY <1>2, <2>1 DEF TriggerTypes, RunType
    <3>4. batches' \in 0..MaxBatches
      BY <1>1, <1>2, <2>1, RunAssumption DEF RunTypes, BatchInHand
    <3> QED
      BY <3>2, <3>3, <3>4
  <2>2. CASE /\ ~Up
             /\ BackToQueue(batch)
             /\ RunEnds(TRUE)
             /\ batches' = 0
    <3>1. run' \in RunType /\ run'.at = "none" /\ retry' \in BOOLEAN
      BY <1>2, <2>2, RunEndsEffect
    <3>2. command' \in [Commands -> Known] /\ PhotosComeFirst'
      BY <1>2, <2>2, BackToQueueEffect DEF RunTypes
    <3> QED
      BY <2>2, <3>1, <3>2, RunAssumption
  <2> QED
    BY <2>1, <2>2 DEF Post
<1>4. TriggerTypes' /\ Promises'
  BY <1>1, <1>2, <1>3, RunLeavesPromises
<1>5. RunTypes' /\ BatchInHand' /\ UploadedIsStored'
  BY <1>1, <1>2, <1>3 DEF RunTypes, BatchInHand, UploadedIsStored, media
<1> QED
  BY <1>3, <1>4, <1>5 DEF Inductive

-----------------------------------------------------------------------------
(* The rest *)

LEMMA KillRunStep ==
    ASSUME Inductive, KillRun
    PROVE  Inductive'
<1>1. Kill /\ batch' = {} /\ batches' = 0 /\ UNCHANGED withdrawn
  BY DEF KillRun
<1>2. TriggerTypes /\ RunTypes /\ Promises /\ BatchInHand /\ UploadedIsStored /\ PhotosComeFirst
  BY DEF Inductive
<1>3. breaks' \in 0..MaxBreaks
  BY <1>1, <1>2, BreaksAssumption DEF Kill, TriggerTypes
<1>4. TriggerTypes'
  BY <1>1, <1>2, <1>3, Asks DEF Kill, TriggerTypes
<1>5. Promises'
  BY <1>1 DEF Kill, Promises, PromisesHold, WaitersHold, OwedIsComing, ClosedIsEmpty
<1>6. /\ file' \in [WithPhoto -> {"retryLater", "uploading", "uploaded"}]
      /\ stored' \in SUBSET WithPhoto /\ UploadedIsStored'
  <2>1. CASE UNCHANGED <<file, stored>>
    BY <1>2, <2>1 DEF RunTypes, UploadedIsStored
  <2>2. CASE \E c \in ToUpload :
                /\ file' = [file EXCEPT ![c] = "uploading"]
                /\ stored' \in {stored} \cup {stored \cup {d} : d \in {c} \ withdrawn}
    <3>1. PICK c \in WithPhoto :
              /\ file' = [file EXCEPT ![c] = "uploading"]
              /\ stored' \in {stored} \cup {stored \cup {d} : d \in {c} \ withdrawn}
      BY <2>2 DEF ToUpload
    <3>2. stored' \in SUBSET WithPhoto /\ stored \subseteq stored'
      BY <1>2, <3>1, HalfSent DEF RunTypes
    <3> QED
      BY <1>2, <3>1, <3>2 DEF RunTypes, UploadedIsStored
  <2> QED
    BY <2>1, <2>2 DEF KillRun
<1>7. RunTypes' /\ BatchInHand'
  BY <1>1, <1>2, <1>6, RunAssumption DEF Kill, RunTypes, BatchInHand, NoRun
<1>8. PhotosComeFirst'
  BY <1>1, <1>2 DEF Kill, PhotosComeFirst
<1> QED
  BY <1>4, <1>5, <1>6, <1>7, <1>8 DEF Inductive

LEMMA WithdrawStep ==
    ASSUME Inductive, NEW c \in WithPhoto, Withdraw(c)
    PROVE  Inductive'
<1>1. /\ withdrawn' \in SUBSET WithPhoto
      /\ UNCHANGED <<world, sending, data, orders, batch, batches, file, stored>>
  BY DEF Withdraw, Inductive, RunTypes
<1>2. TriggerTypes' /\ Promises'
  BY <1>1 DEF world, sending, data, timers, pushes, Inductive, TriggerTypes, Promises,
              PromisesHold, WaitersHold, OwedIsComing, ClosedIsEmpty
<1> QED
  BY <1>1, <1>2 DEF sending, Inductive, RunTypes, BatchInHand, UploadedIsStored, PhotosComeFirst

LEMMA StutterStep ==
    ASSUME Inductive, UNCHANGED vars
    PROVE  Inductive'
<1>1. TriggerTypes' /\ Promises'
  BY DEF vars, world, sending, data, timers, pushes, Inductive, TriggerTypes, Promises,
         PromisesHold, WaitersHold, OwedIsComing, ClosedIsEmpty
<1> QED
  BY <1>1 DEF vars, sending, media, Inductive, RunTypes, BatchInHand, UploadedIsStored, PhotosComeFirst

LEMMA InductiveInit == Init => Inductive
<1> SUFFICES ASSUME Init PROVE Inductive
  OBVIOUS
<1>1. TriggerTypes
  <2>1. breaks \in 0..MaxBreaks
    BY BreaksAssumption DEF Init, TriggersInit
  <2> QED
    BY <2>1, Asks DEF Init, TriggersInit, TriggerTypes
<1>2. RunTypes /\ BatchInHand /\ UploadedIsStored /\ PhotosComeFirst
  BY RunAssumption DEF Init, TriggersInit, RunTypes, Known, BatchInHand, UploadedIsStored,
                       PhotosComeFirst, NoRun
<1>3. Promises
  BY DEF Init, TriggersInit, Promises, PromisesHold, WaitersHold, OwedIsComing, ClosedIsEmpty
<1> QED
  BY <1>1, <1>2, <1>3 DEF Inductive

LEMMA InductiveStep == Inductive /\ [Next]_vars => Inductive'
<1> SUFFICES ASSUME Inductive, [Next]_vars PROVE Inductive'
  OBVIOUS
<1>1. CASE Triggers /\ UNCHANGED <<batch, batches, media>>
  <2>1. TriggersKeep
    BY <1>1, TriggersStep DEF Inductive
  <2>2. command' \in [Commands -> Known] /\ PhotosComeFirst'
    BY <1>1, TriggersLeaveCommands DEF Inductive
  <2>3. RunTypes' /\ BatchInHand' /\ UploadedIsStored'
    BY <1>1, <2>1, <2>2 DEF TriggersKeep, Inductive, RunTypes, BatchInHand, UploadedIsStored, media
  <2> QED
    BY <2>1, <2>2, <2>3 DEF TriggersKeep, Inductive
<1>2. CASE Check
  BY <1>2, CheckStep
<1>3. CASE List
  BY <1>3, ListStep
<1>4. CASE Post
  BY <1>4, PostStep
<1>5. CASE \E c \in WithPhoto : Upload(c)
  BY <1>5, UploadStep
<1>6. CASE KillRun
  BY <1>6, KillRunStep
<1>7. CASE \E c \in WithPhoto : Withdraw(c)
  BY <1>7, WithdrawStep
<1>8. CASE UNCHANGED vars
  BY <1>8, StutterStep
<1> QED
  BY <1>1, <1>2, <1>3, <1>4, <1>5, <1>6, <1>7, <1>8 DEF Next, Run

LEMMA InductiveAlways == Spec => []Inductive
BY InductiveInit, InductiveStep, PTL DEF Spec

-----------------------------------------------------------------------------
(* Theorems *)

\* Every variable of the triggers and of the run keeps its type, a run never posts
\* more than its batches, and a batch is in hand only while it is uploaded.
THEOREM TypeCorrect == Spec => []TypeOK
<1>1. Inductive => TypeOK
  BY DEF Inductive, TriggerTypes, RunTypes, BatchInHand, TypeOK, RunType, FetchType, Known
<1> QED
  BY <1>1, InductiveAlways, PTL

\* A push the phone has handled is followed up: its refresh is scheduled or is asking,
\* whatever the cooldown, the promise and the timers do, until a read of the board
\* has been tried after it; only a push that joined a screen's fetch which had read
\* the board without its order is not (requestMobileDataRefresh, onNotification).
THEOREM PushFollowedUp == Spec => []PushIsFollowedUp
<1>1. Inductive => PushIsFollowedUp
  BY DEF Inductive, Promises, OwedIsComing, PushIsFollowedUp
<1> QED
  BY <1>1, InductiveAlways, PTL

\* The server never rejects a report for want of a photo: the phone believes only in
\* uploads the server has stored (uploadPendingFiles, postSyncBatch).
THEOREM PhotosFirst == Spec => []PhotosComeFirst
<1>1. Inductive => PhotosComeFirst
  BY DEF Inductive
<1> QED
  BY <1>1, InductiveAlways, PTL

\* A trigger waits only for a refresh that is under way, so its end wakes it
\* (triggerForegroundSyncWithRetry, activeRefreshPromise).
THEOREM WaitingWokenUp == Spec => []WaitingIsWokenUp
<1>1. Inductive => WaitingIsWokenUp
  BY DEF Inductive, Promises, PromisesHold, WaitersHold, WaitingIsWokenUp
<1> QED
  BY <1>1, InductiveAlways, PTL
=============================================================================
