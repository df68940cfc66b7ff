------------------------------- MODULE EmuBoard -------------------------------
(***************************************************************************)
(* The boards of the EMU screen in the browser (useEmuWorkspace.ts and     *)
(* EmuWorkAccountingScreen.tsx): work sessions and plan tasks that several *)
(* people change.  A full load brings every row of both boards; after it   *)
(* each board polls for what has changed since the time it remembers       *)
(* (lastWorkSyncAtRef, lastPlanSyncAtRef).  Only a newer full load cancels *)
(* an older one: answers of polls are merged whenever they come.           *)
(*                                                                         *)
(* The server stamps a change (UpdatedAt) when its handler starts and      *)
(* commits it later.  A card is known by that stamp, which RowVersion      *)
(* moves with; 0 stands for a card that is not there.  The clocks of       *)
(* browser and server agree.  A full load asks for the work sessions page  *)
(* by page: here all at one instant, or on two pages at two of them.       *)
(***************************************************************************)
EXTENDS Naturals, FiniteSets, FiniteSetsExt

CONSTANTS
    Boards,       \* "work", and "plan" for those who may see it
    Cards,        \* rows of both tables
    BoardOf,      \* the board a row belongs to
    NoCard,       \* a dialogue that is about no card: a creation
    MaxTime,      \* bound: the server's clock, which stamps and commits move
    MaxPolls,     \* bound: polls in flight
    MaxFails      \* bound: requests that fail

ASSUME CardsAssumption  == Boards \subseteq {"work", "plan"} /\ BoardOf \in [Cards -> Boards] /\ NoCard \notin Cards
ASSUME BoundsAssumption == MaxTime \in Nat /\ MaxPolls \in Nat /\ MaxFails \in Nat

VARIABLES
    table,     \* the server's rows: their stamp, and whether they are live
    underway,  \* stamps of the changes that are not committed yet, or 0
    now,       \* the server's clock
    shown,     \* the rows of the browser: stamps, 0 where there is none
    since,     \* the time a board will ask from, or NoRef
    load,      \* the full load whose answer is still wanted
    polls,     \* the polls in flight
    modal,     \* the dialogue that is open
    fails,
    overtaken, \* history: changes underway that a reading has passed by
    missed     \* history: cards shown wrong for a reason the code allows

server == <<table, underway, now>>
board  == <<shown, since>>
vars   == <<server, board, load, polls, modal, fails, overtaken, missed>>

Stamps == 0..MaxTime
NoRef  == MaxTime + 1      \* null
PollIds == 1..MaxPolls

Absent == [stamp |-> 0, live |-> FALSE]
Shown(r) == IF r.live THEN r.stamp ELSE 0

\* An answer in flight: a poll's question, the rows the server read and when;
\* whether a later reading has been applied before it, and the cards it has not
\* got as they were at that time (both history).
Nothing(st, b, from) == [st |-> st, board |-> b, since |-> from, at |-> 0, old |-> FALSE,
                         torn |-> {}, rows |-> [c \in {} |-> Absent]]
NoAnswer == Nothing("none", CHOOSE b \in Boards : TRUE, 0)
AskAll   == [NoAnswer EXCEPT !.st = "asked"]
NoModal  == [st |-> "none", card |-> NoCard, base |-> 0]

Of(b) == {c \in Cards : BoardOf[c] = b}

Init ==
    /\ table \in [Cards -> {Absent}]
    /\ underway = [c \in Cards |-> 0]
    /\ now = 0
    /\ shown = [c \in Cards |-> 0]
    /\ since = [b \in Boards |-> NoRef]
    /\ load = AskAll
    /\ polls = [i \in PollIds |-> NoAnswer]
    /\ modal = NoModal
    /\ fails = 0
    /\ overtaken = {}
    /\ missed = {}

-----------------------------------------------------------------------------
(* Other people, and the jobs of the worker: EfEmuService *)

Begin(c) ==
    /\ now < MaxTime
    /\ underway[c] = 0
    /\ table[c].live \/ table[c].stamp = 0
    /\ now' = now + 1
    /\ underway' = [underway EXCEPT ![c] = now + 1]
    /\ UNCHANGED <<table, board, load, polls, modal, fails, overtaken, missed>>

\* A session may be deleted, softly; a task of the plan never is.  A change
\* that commits after a reading its stamp precedes has come too late.
Commit(c) ==
    /\ underway[c] # 0
    /\ now < MaxTime
    /\ now' = now + 1
    /\ \E live \in {TRUE} \cup {l \in {FALSE} : BoardOf[c] = "work" /\ table[c].live} :
          table' = [table EXCEPT ![c] = [stamp |-> underway[c], live |-> live]]
    /\ underway' = [underway EXCEPT ![c] = 0]
    /\ missed' = missed \cup ({c} \cap overtaken)
    /\ overtaken' = overtaken \ {c}
    /\ UNCHANGED <<board, load, polls, modal, fails>>

-----------------------------------------------------------------------------
(* The full load: the effect of useEmuWorkspace *)

\* A slip: the time is taken when the answer is sent, not when it is read.
ReadAhead(answer, cards) ==
    [answer EXCEPT !.st = "read", !.at = now + 1, !.rows = [c \in cards |-> table[c]]]

\* now = DateTimeOffset.UtcNow, then the query.
Read(answer, cards) ==
    [answer EXCEPT !.st = "read", !.at = now, !.rows = [c \in cards |-> table[c]]]

\* Changes underway bear a stamp the reader will not ask for again.
Overtake == overtaken' = {c \in Cards : underway[c] # 0}

\* mounted = false for the load before it: its answer is dropped.
ReadLoad ==
    /\ load.st = "asked"
    /\ load' = Read(load, Cards)
    /\ Overtake
    /\ UNCHANGED <<server, board, polls, modal, fails, missed>>

\* getAllApiWorkSessions: the first page is there, and does not hold all.  The
\* rows of both are kept, to tell whether the table has changed in between.
ReadPage ==
    /\ load.st = "asked"
    /\ \E second \in SUBSET Of("work") :
          /\ \E c \in second : table[c].live
          /\ \E c \in Of("work") \ second : table[c].live
          /\ load' = [Read(load, Cards) EXCEPT !.st = "paged", !.torn = second]
    /\ UNCHANGED <<server, board, polls, modal, fails, overtaken, missed>>

\* Pages are counted off in the order of CompletedAt ?? UpdatedAt: a row that is
\* changed, created or deleted in between may push others, or itself, from the
\* second page to the first, which is not read again.
ReadRest ==
    /\ load.st = "paged"
    /\ \E skipped \in SUBSET load.torn :
          /\ skipped # {} => load.rows # table
          /\ LET rows == [c \in Cards |-> IF c \in skipped THEN Absent
                                         ELSE IF c \in load.torn THEN table[c]
                                         ELSE load.rows[c]]
             IN  load' = [load EXCEPT !.st = "read", !.at = now, !.rows = rows,
                                      !.torn = {c \in Cards : rows[c] # table[c]}]
    /\ Overtake
    /\ UNCHANGED <<server, board, polls, modal, fails, missed>>

\* maxUpdatedAt(rows) ?? new Date()
Loaded(b) == {load.rows[c].stamp : c \in {d \in Of(b) : load.rows[d].live}}

\* A slip: the browser's clock is taken whether there are rows or not.
SinceClock(b) == now

SinceLoaded(b) == IF Loaded(b) = {} THEN now ELSE Max(Loaded(b))

\* A form is filled when its dialogue appears, and filled anew when it does
\* so again because its card has been gone in between.
Form(rows) ==
    IF modal.st = "none" \/ modal.card = NoCard THEN modal
    ELSE [modal EXCEPT !.base = IF rows[modal.card] = 0 THEN 0
                                ELSE IF @ = 0 THEN rows[modal.card] ELSE @]

\* mergeWorkSessions, mergePlanTasks; a full load has every row.
Merged(rows) ==
    [c \in Cards |-> IF c \in DOMAIN rows THEN Shown(rows[c]) ELSE shown[c]]

Overtaken(answer, at) == [answer EXCEPT !.old = @ \/ (answer.st = "read" /\ answer.at < at)]

\* What is missed: the cards the remembered time passes by or the pages lost,
\* and what an answer older than one applied before it has set back.
Display(answer, lost) ==
    /\ shown' = Merged(answer.rows)
    /\ modal' = Form(shown')
    /\ missed' = lost \cup {c \in missed : c \in DOMAIN answer.rows => answer.rows[c] # table[c]}
                     \cup {c \in Cards : answer.old /\ shown'[c] # Shown(table[c])}

ApplyLoad ==
    LET byClock == {c \in Cards : Loaded(BoardOf[c]) = {}}
    IN  /\ load.st = "read"
        /\ since' = [b \in Boards |-> SinceLoaded(b)]
        /\ Display(load, load.torn \cup {c \in byClock : table[c].stamp > load.at})
        /\ load' = NoAnswer
        /\ polls' = [i \in PollIds |-> Overtaken(polls[i], load.at)]
        /\ overtaken' = overtaken \cup {c \in byClock : underway[c] # 0}
        /\ UNCHANGED <<server, fails>>

\* The rows and the remembered times stay.
LoadFails ==
    /\ load.st # "none"
    /\ fails < MaxFails
    /\ fails' = fails + 1
    /\ load' = NoAnswer
    /\ UNCHANGED <<server, board, polls, modal, overtaken, missed>>

-----------------------------------------------------------------------------
(* Polls: the timers of EmuWorkAccountingScreen, refreshWorkBoard and
   refreshPlanBoard *)

Poll(b) ==
    \E i \in PollIds :
       /\ polls[i].st = "none" /\ \A j \in 1..(i - 1) : polls[j].st # "none"
       /\ polls' = [polls EXCEPT ![i] = Nothing("asked", b, since[b])]

\* A slip: a board without a time to ask from waits for somebody to reload.
RefreshLater(b) ==
    /\ modal.st = "none"
    /\ since[b] # NoRef
    /\ Poll(b)
    /\ UNCHANGED <<server, board, load, modal, fails, overtaken, missed>>

\* A timer, or the page becoming visible.  No dialogue is open then.
Refresh(b) ==
    /\ modal.st = "none"
    /\ \/ since[b] = NoRef /\ load' = AskAll /\ UNCHANGED polls
       \/ since[b] # NoRef /\ Poll(b) /\ UNCHANGED load
    /\ UNCHANGED <<server, board, modal, fails, overtaken, missed>>

\* GetWorkSessionChanges, GetPlanTaskChanges: row.UpdatedAt > since
Changes(b, from) == {c \in Of(b) : table[c].stamp > from}

ReadChanges(i) ==
    /\ polls[i].st = "asked"
    /\ polls' = [polls EXCEPT ![i] = Read(@, Changes(@.board, @.since))]
    /\ Overtake
    /\ UNCHANGED <<server, board, load, modal, fails, missed>>

ApplyChanges(i) ==
    /\ polls[i].st = "read"
    /\ since' = [since EXCEPT ![polls[i].board] = polls[i].at]
    /\ Display(polls[i], {})
    /\ load' = Overtaken(load, polls[i].at)
    /\ polls' = [j \in PollIds |-> IF j = i THEN NoAnswer ELSE Overtaken(polls[j], polls[i].at)]
    /\ UNCHANGED <<server, fails, overtaken>>

\* The time is forgotten, and everything is loaded again.
RefreshFails(i) ==
    /\ polls[i].st # "none"
    /\ fails < MaxFails
    /\ fails' = fails + 1
    /\ since' = [since EXCEPT ![polls[i].board] = NoRef]
    /\ load' = AskAll
    /\ polls' = [polls EXCEPT ![i] = NoAnswer]
    /\ UNCHANGED <<server, shown, modal, overtaken, missed>>

-----------------------------------------------------------------------------
(* Dialogues *)

\* The screen renders a dialogue only while its card is among the rows.
Visible == IF modal.card = NoCard THEN TRUE ELSE shown[modal.card] # 0

OpenModal(c) ==
    /\ modal.st = "none" \/ (modal.st = "open" /\ ~Visible)
    /\ c # NoCard => shown[c] # 0
    /\ modal' = [st |-> "open", card |-> c, base |-> IF c = NoCard THEN 0 ELSE shown[c]]
    /\ UNCHANGED <<server, board, load, polls, fails, overtaken, missed>>

CloseModal ==
    /\ modal.st = "open"
    /\ Visible
    /\ modal' = NoModal
    /\ UNCHANGED <<server, board, load, polls, fails, overtaken, missed>>

\* rowVersion: work.rowVersion, the card as it is among the rows now; the server
\* carries the request out if that is its version, and the form holds the new
\* one.  Otherwise it is refused, and nothing changes.
Save ==
    /\ modal.st = "open"
    /\ Visible
    /\ now < MaxTime
    /\ \E c \in Cards :
          /\ IF modal.card = NoCard THEN table[c] = Absent /\ underway[c] = 0
             ELSE c = modal.card /\ table[c].live /\ table[c].stamp = shown[c]
          /\ table' = [table EXCEPT ![c] = [stamp |-> now + 1, live |-> TRUE]]
    /\ now' = now + 1
    /\ modal' = [modal EXCEPT !.st = "saved", !.base = IF modal.card = NoCard THEN 0 ELSE now + 1]
    /\ UNCHANGED <<underway, board, load, polls, fails, overtaken, missed>>

\* await reload(), onClose()
Saved ==
    /\ modal.st = "saved"
    /\ load' = AskAll
    /\ modal' = NoModal
    /\ UNCHANGED <<server, board, polls, fails, overtaken, missed>>

\* The answer is lost: the dialogue stays open with what was typed.
SaveFails ==
    /\ modal.st = "saved"
    /\ fails < MaxFails
    /\ fails' = fails + 1
    /\ modal' = [modal EXCEPT !.st = "open"]
    /\ UNCHANGED <<server, board, load, polls, overtaken, missed>>

-----------------------------------------------------------------------------
Next ==
    \/ \E c \in Cards : Begin(c) \/ Commit(c)
    \/ ReadLoad \/ ReadPage \/ ReadRest \/ ApplyLoad \/ LoadFails
    \/ \E b \in Boards : Refresh(b)
    \/ \E i \in PollIds : ReadChanges(i) \/ ApplyChanges(i) \/ RefreshFails(i)
    \/ \E c \in Cards \cup {NoCard} : OpenModal(c)
    \/ CloseModal \/ Save \/ Saved \/ SaveFails

Spec == Init /\ [][Next]_vars

\* Handlers finish, answers or errors come, and the timers run while no dialogue
\* is open.  A full load is given up for another one only when a poll asks
\* for it, ten seconds apart: some load is faster.
Fairness ==
    /\ \A c \in Cards : WF_vars(Commit(c))
    /\ SF_vars(ReadLoad \/ ReadRest) /\ SF_vars(ApplyLoad)
    /\ \A b \in Boards : SF_vars(Refresh(b))
    /\ \A i \in PollIds : WF_vars(ReadChanges(i)) /\ WF_vars(ApplyChanges(i))

FairSpec == Spec /\ Fairness

-----------------------------------------------------------------------------
TypeOK ==
    /\ table \in [Cards -> [stamp : Stamps, live : BOOLEAN]]
    /\ underway \in [Cards -> Stamps] /\ now \in Stamps
    /\ shown \in [Cards -> Stamps] /\ since \in [Boards -> Stamps \cup {NoRef}]
    /\ \A a \in {load} \cup {polls[i] : i \in PollIds} :
          /\ a.st \in {"none", "asked", "paged", "read"} /\ a.at \in 0..now /\ a.since \in 0..now
          /\ DOMAIN a.rows \subseteq Cards /\ a.torn \subseteq Cards
    /\ modal.st \in {"none", "open", "saved"} /\ modal.card \in Cards \cup {NoCard}
    /\ fails \in 0..MaxFails /\ overtaken \subseteq Cards /\ missed \subseteq Cards

\* A card that is shown wrong will come with the next poll, or with the full
\* load a board without a time asks for.  The code allows four exceptions:
\* a change committed after a reading that its stamp precedes, an answer that is
\* older than one applied before, a change between the reading of an empty
\* board and its display, and one between the pages of a full load.
NothingMissed ==
    \A c \in Cards :
        shown[c] # Shown(table[c]) =>
            \/ c \in missed
            \/ since[BoardOf[c]] = NoRef
            \/ table[c].stamp > since[BoardOf[c]]

\* When the dialogues are closed the board comes to show what the server has,
\* except for the cards missed, whatever has failed on the way: a board that has
\* forgotten its time gets another.
ShownAtLast ==
    <>[](modal.st = "none") =>
        <>[](\A c \in Cards : shown[c] = Shown(table[c]) \/ c \in missed)

\* docs/emu-work-accounting-spec.md:1178: nobody's change of a card is
\* overwritten by a form that was filled before it.
NothingOverwritten ==
    [][modal.st = "open" /\ modal'.st = "saved" /\ modal.card # NoCard
          => table[modal.card].stamp = modal.base]_vars
=============================================================================
