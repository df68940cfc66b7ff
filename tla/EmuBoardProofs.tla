----------------------------- MODULE EmuBoardProofs -----------------------------
(***************************************************************************)
(* Theorems about EmuBoard: types, and that a card shown wrong comes with  *)
(* the next poll of its board but for four exceptions, for any number of   *)
(* cards, boards and polls.                                                *)
(***************************************************************************)
EXTENDS EmuBoard, FiniteSetTheorems, WellFoundedInduction, TLAPS

-----------------------------------------------------------------------------
(* The inductive invariant *)

Row        == [stamp : Stamps, live : BOOLEAN]
SomeRows   == UNION {[S -> Row] : S \in SUBSET Cards}
BoardNames == Boards \cup {NoAnswer.board}
AnswerType == [st : {"none", "asked", "paged", "read"}, board : BoardNames, since : Stamps,
               at : Stamps, old : BOOLEAN, torn : SUBSET Cards, rows : SomeRows]
ModalType  == [st : {"none", "open", "saved"}, card : Cards \cup {NoCard}, base : Stamps]

ServerTypes ==
    /\ table \in [Cards -> Row]
    /\ underway \in [Cards -> Stamps]
    /\ now \in Stamps
    /\ \A c \in Cards : table[c].stamp <= now /\ underway[c] <= now

BrowserTypes ==
    /\ shown \in [Cards -> Stamps]
    /\ since \in [Boards -> Stamps \cup {NoRef}]
    /\ modal \in ModalType
    /\ fails \in 0..MaxFails
    /\ overtaken \subseteq Cards /\ missed \subseteq Cards
    /\ \A b \in Boards : since[b] # NoRef => since[b] <= now

Answers == {load} \cup {polls[i] : i \in PollIds}

\* An answer was read before now, and shows nothing that came after.
AnswerOK(a) ==
    /\ a \in AnswerType
    /\ a.at <= now /\ a.since <= now
    /\ a.st \in {"asked", "paged"} => ~a.old
    /\ \A c \in DOMAIN a.rows : a.rows[c].stamp <= a.at

AnswerTypes ==
    /\ polls \in [PollIds -> AnswerType]
    /\ \A a \in Answers : AnswerOK(a)
    /\ load.st \in {"paged", "read"} => DOMAIN load.rows = Cards
    /\ load.st = "asked" => load.torn = {}
    /\ \A i \in PollIds : /\ polls[i].st # "none" => polls[i].board \in Boards
                          /\ polls[i].torn = {}

Types == ServerTypes /\ BrowserTypes /\ AnswerTypes

\* An answer that holds the card as it was when it was read, and that will be displayed as a recent one.
Holds(a, c)   == a.st = "read" /\ c \in DOMAIN a.rows \ a.torn
Pending(a, c) == Holds(a, c) /\ ~a.old

\* The browser has the card as it is, and no answer on its way will undo that;
\* or the card has been counted as missed.
Known(c) ==
    \/ c \in missed
    \/ /\ shown[c] = Shown(table[c])
       /\ \A a \in Answers : Pending(a, c) => a.rows[c] = table[c]

\* What the remembered time of a board, the question of a poll and the silence of
\* its answer stand for.
SinceKnown ==
    \A b \in Boards : since[b] # NoRef =>
        \A c \in Of(b) : table[c].stamp <= since[b] => Known(c)

AskedKnown ==
    \A i \in PollIds : polls[i].st = "asked" =>
        \A c \in Of(polls[i].board) : table[c].stamp <= polls[i].since => Known(c)

SilenceKnown ==
    \A i \in PollIds : polls[i].st = "read" =>
        \A c \in Of(polls[i].board) \ DOMAIN polls[i].rows :
            table[c].stamp <= polls[i].at => Known(c)

\* An answer is right about what was changed before it was read.
AnswersRight ==
    \A a \in Answers, c \in Cards :
        Pending(a, c) /\ table[c].stamp <= a.at => c \in missed \/ a.rows[c] = table[c]

\* Of two answers that hold a card the later one is right if the earlier one is.
LaterRight ==
    \A a1, a2 \in Answers, c \in Cards :
        /\ Holds(a1, c) /\ Holds(a2, c) /\ a1.at <= a2.at
        /\ a1.rows[c] = table[c]
        => a2.rows[c] = table[c]

\* Nothing has happened since an answer that was read at this very time.
ReadNow ==
    \A a \in Answers, c \in Cards : Holds(a, c) /\ a.at = now => a.rows[c] = table[c]

\* A change underway that a remembered time, a question or an answer has passed by
\* is known to have been overtaken.
Passed(c, at) == underway[c] # 0 /\ underway[c] <= at

OvertakenKnown ==
    /\ \A b \in Boards : since[b] # NoRef =>
           \A c \in Of(b) : Passed(c, since[b]) => c \in overtaken
    /\ \A i \in PollIds : polls[i].st = "asked" =>
           \A c \in Of(polls[i].board) : Passed(c, polls[i].since) => c \in overtaken
    /\ \A a \in Answers : a.st = "read" =>
           \A c \in Cards : Passed(c, a.at) => c \in overtaken

\* A change underway bears a stamp nobody has seen.
Unseen ==
    \A c \in Cards : underway[c] # 0 =>
        /\ table[c].stamp # underway[c]
        /\ \A a \in Answers : Holds(a, c) => a.rows[c].stamp # underway[c]

Inductive ==
    /\ Types
    /\ SinceKnown /\ AskedKnown /\ SilenceKnown
    /\ AnswersRight /\ LaterRight /\ ReadNow
    /\ OvertakenKnown /\ Unseen

-----------------------------------------------------------------------------
(* The operators of the model *)

\* A set of stamps has a latest one: it has the least set of stamps above it.
LEMMA LatestStamp ==
    ASSUME NEW S \in SUBSET Stamps, S # {}
    PROVE  Max(S) \in S
<1> DEFINE Above(n) == {m \in S : n <= m}
           T == {Above(n) : n \in S}
<1>0. MaxTime \in Nat /\ \A m \in S : m \in Nat /\ m <= MaxTime
  BY BoundsAssumption DEF Stamps
<1>1. T \subseteq FiniteSubsetsOf(Nat)
  <2> SUFFICES ASSUME NEW n \in S PROVE Above(n) \in FiniteSubsetsOf(Nat)
    OBVIOUS
  <2>1. Above(n) \in SUBSET Nat /\ \A m \in Above(n) : m <= MaxTime
    BY <1>0
  <2>2. IsFiniteSet(Above(n))
    <3> HIDE DEF Above
    <3> QED BY <1>0, <2>1, FS_BoundedSetOfNaturals
  <2> QED
    BY <2>1, <2>2 DEF FiniteSubsetsOf
<1>2. IsWellFoundedOn(StrictSubsetOrdering(Nat), FiniteSubsetsOf(Nat))
  BY FS_StrictSubsetOrderingWellFounded
<1>3. T # {}
  OBVIOUS
<1>4. \E U \in T : \A V \in T : <<V, U>> \notin StrictSubsetOrdering(Nat)
  <2> HIDE DEF T
  <2> QED BY <1>1, <1>2, <1>3, WFMin
<1>5. PICK n \in S : \A m \in S : <<Above(m), Above(n)>> \notin StrictSubsetOrdering(Nat)
  BY <1>4
<1>6. ASSUME NEW m \in S, n < m PROVE FALSE
  <2>0. S \subseteq Nat /\ m \in Nat /\ n \in Nat
    BY <1>0
  <2>1. Above(m) \subseteq Above(n) /\ n \in Above(n) /\ n \notin Above(m)
    <3>1. \A k \in S : m <= k => n <= k
      BY <1>6, <2>0
    <3>2. n <= n /\ ~(m <= n)
      BY <1>6, <2>0
    <3> QED
      BY <3>1, <3>2
  <2>2. Above(m) \in SUBSET Nat /\ Above(n) \in SUBSET Nat
    BY <2>0
  <2> HIDE DEF Above
  <2>3. <<Above(m), Above(n)>> \in StrictSubsetOrdering(Nat)
    BY <2>1, <2>2 DEF StrictSubsetOrdering
  <2> QED
    BY <1>5, <2>3
<1>7. \A m \in S : n >= m
  BY <1>0, <1>6
<1> QED
  BY <1>7 DEF Max

LEMMA RowOfTable ==
    ASSUME ServerTypes, NEW S \in SUBSET Cards
    PROVE  [c \in S |-> table[c]] \in SomeRows
BY DEF ServerTypes, SomeRows

LEMMA RowsAreRows ==
    ASSUME NEW rows \in SomeRows
    PROVE  /\ DOMAIN rows \subseteq Cards
           /\ \A c \in DOMAIN rows : rows[c] \in Row
BY DEF SomeRows

LEMMA NewAnswers ==
    ASSUME NEW b \in BoardNames, NEW from \in Stamps
    PROVE  /\ NoAnswer \in AnswerType /\ NoAnswer.st = "none" /\ ~NoAnswer.old
           /\ NoAnswer.torn = {} /\ AskAll.torn = {} /\ Nothing("asked", b, from).torn = {}
           /\ NoAnswer.at = 0 /\ NoAnswer.since = 0 /\ NoAnswer.rows = [c \in {} |-> Absent]
           /\ AskAll \in AnswerType /\ AskAll.st = "asked" /\ ~AskAll.old
           /\ AskAll.at = 0 /\ AskAll.since = 0 /\ AskAll.rows = [c \in {} |-> Absent]
           /\ Nothing("asked", b, from) \in AnswerType
           /\ Nothing("asked", b, from).st = "asked" /\ ~Nothing("asked", b, from).old
           /\ Nothing("asked", b, from).board = b /\ Nothing("asked", b, from).since = from
           /\ Nothing("asked", b, from).at = 0
           /\ Nothing("asked", b, from).rows = [c \in {} |-> Absent]
<1>1. [c \in {} |-> Absent] \in SomeRows
  BY DEF SomeRows
<1>2. 0 \in Stamps
  BY BoundsAssumption DEF Stamps
<1>3. NoAnswer \in AnswerType /\ NoAnswer.rows = [c \in {} |-> Absent]
  BY <1>1, <1>2 DEF NoAnswer, Nothing, AnswerType, BoardNames
<1>4. AskAll \in AnswerType /\ AskAll.rows = [c \in {} |-> Absent]
  BY <1>3 DEF AskAll, AnswerType
<1> QED
  BY <1>1, <1>2, <1>3, <1>4 DEF NoAnswer, AskAll, Nothing, AnswerType, BoardNames

LEMMA NewAnswersOK ==
    ASSUME now \in Stamps, NEW b \in BoardNames, NEW from \in Stamps, from <= now
    PROVE  AnswerOK(NoAnswer) /\ AnswerOK(AskAll) /\ AnswerOK(Nothing("asked", b, from))
<1>1. now \in Nat /\ 0 <= now
  BY BoundsAssumption DEF Stamps
<1> QED
  BY <1>1, NewAnswers DEF AnswerOK

LEMMA ReadAnswer ==
    ASSUME ServerTypes, NEW a, AnswerOK(a), a.st = "asked", NEW S \in SUBSET Cards
    PROVE  /\ AnswerOK(Read(a, S))
           /\ Read(a, S).st = "read" /\ Read(a, S).at = now /\ ~Read(a, S).old
           /\ Read(a, S).board = a.board /\ Read(a, S).since = a.since
           /\ Read(a, S).torn = a.torn
           /\ DOMAIN Read(a, S).rows = S
           /\ \A c \in S : Read(a, S).rows[c] = table[c]
<1>1. [c \in S |-> table[c]] \in SomeRows
  BY RowOfTable
<1>2. /\ Read(a, S).st = "read" /\ Read(a, S).at = now /\ Read(a, S).old = a.old
      /\ Read(a, S).board = a.board /\ Read(a, S).since = a.since
      /\ Read(a, S).torn = a.torn
      /\ Read(a, S).rows = [c \in S |-> table[c]]
  BY DEF Read, AnswerOK, AnswerType
<1>3. Read(a, S) \in AnswerType
  BY <1>1 DEF Read, AnswerOK, AnswerType, ServerTypes
<1>4. now <= now
  BY BoundsAssumption DEF ServerTypes, Stamps
<1> QED
  BY <1>2, <1>3, <1>4 DEF AnswerOK, ServerTypes

LEMMA OvertakenAnswer ==
    ASSUME now \in Stamps, NEW a, AnswerOK(a), NEW at \in Stamps
    PROVE  /\ AnswerOK(Overtaken(a, at))
           /\ Overtaken(a, at).st = a.st /\ Overtaken(a, at).at = a.at
           /\ Overtaken(a, at).board = a.board /\ Overtaken(a, at).since = a.since
           /\ Overtaken(a, at).rows = a.rows /\ Overtaken(a, at).torn = a.torn
           /\ a.st = "read" /\ ~Overtaken(a, at).old => ~a.old /\ at <= a.at
<1>1. /\ Overtaken(a, at) \in AnswerType
      /\ Overtaken(a, at).st = a.st /\ Overtaken(a, at).at = a.at
      /\ Overtaken(a, at).board = a.board /\ Overtaken(a, at).since = a.since
      /\ Overtaken(a, at).rows = a.rows /\ Overtaken(a, at).torn = a.torn
  BY DEF Overtaken, AnswerOK, AnswerType
<1>2. a.at \in Nat /\ at \in Nat
  BY BoundsAssumption DEF AnswerOK, AnswerType, Stamps
<1>3. Overtaken(a, at).old <=> a.old \/ (a.st = "read" /\ a.at < at)
  BY DEF Overtaken, AnswerOK, AnswerType
<1>4. AnswerOK(Overtaken(a, at))
  BY <1>1, <1>3 DEF AnswerOK
<1>5. a.st = "read" /\ ~Overtaken(a, at).old => ~a.old /\ at <= a.at
  BY <1>2, <1>3
<1> QED
  BY <1>1, <1>4, <1>5

-----------------------------------------------------------------------------
(* Steps that touch neither the rows nor what is shown *)

\* What Types says of the numbers, for the provers' arithmetic.
Ranges ==
    /\ MaxTime \in Nat /\ NoRef \in Nat /\ Stamps \subseteq Nat
    /\ \A n \in Stamps : n # NoRef
    /\ now \in Nat
    /\ \A c \in Cards : /\ table[c] \in Row /\ table[c].stamp \in Nat
                        /\ table[c].stamp <= now
                        /\ underway[c] \in Nat /\ underway[c] <= now
    /\ \A b \in Boards : since[b] \in Nat /\ (since[b] # NoRef => since[b] <= now)
    /\ \A a \in Answers : /\ a \in AnswerType /\ a.at \in Nat /\ a.at <= now
                          /\ a.since \in Nat /\ a.since <= now
                          /\ DOMAIN a.rows \subseteq Cards
                          /\ \A c \in DOMAIN a.rows :
                                a.rows[c] \in Row /\ a.rows[c].stamp \in Nat /\ a.rows[c].stamp <= a.at
    /\ \A i \in PollIds : polls[i] \in Answers

LEMMA Numbers ==
    ASSUME Types
    PROVE  Ranges
<1>1. MaxTime \in Nat /\ NoRef \in Nat /\ Stamps \subseteq Nat /\ \A n \in Stamps : n # NoRef
  BY BoundsAssumption DEF Stamps, NoRef
<1>2. \A c \in Cards : /\ table[c] \in Row /\ table[c].stamp \in Stamps /\ table[c].stamp <= now
                       /\ underway[c] \in Stamps /\ underway[c] <= now
  BY DEF Types, ServerTypes, Row
<1>3. \A b \in Boards : since[b] \in Nat /\ (since[b] # NoRef => since[b] <= now)
  BY <1>1 DEF Types, BrowserTypes
<1>4. ASSUME NEW a \in Answers
      PROVE  /\ a \in AnswerType /\ a.at \in Stamps /\ a.at <= now
             /\ a.since \in Stamps /\ a.since <= now
             /\ DOMAIN a.rows \subseteq Cards
             /\ \A c \in DOMAIN a.rows :
                   a.rows[c] \in Row /\ a.rows[c].stamp \in Stamps /\ a.rows[c].stamp <= a.at
  <2>1. AnswerOK(a)
    BY DEF Types, AnswerTypes
  <2>2. a.rows \in SomeRows /\ a.at \in Stamps /\ a.since \in Stamps
    BY <2>1 DEF AnswerOK, AnswerType
  <2> QED
    BY <2>1, <2>2, RowsAreRows DEF AnswerOK, Row
<1>5. now \in Stamps
  BY DEF Types, ServerTypes
<1> QED
  BY <1>1, <1>2, <1>3, <1>4, <1>5 DEF Answers, Ranges

\* Answers may be given up, and questions asked from a time that is remembered.
LEMMA QuietStep ==
    ASSUME Inductive, Types', UNCHANGED <<table, underway, now, shown, overtaken, missed>>,
           \A b \in Boards : since'[b] = since[b] \/ since'[b] = NoRef,
           \A a \in Answers' : a.st = "read" => a \in Answers,
           \A i \in PollIds : polls'[i].st = "read" => polls'[i] = polls[i],
           \A i \in PollIds : polls'[i].st = "asked" =>
               \/ polls'[i] = polls[i]
               \/ \E b \in Boards : /\ since[b] # NoRef
                                    /\ polls'[i].board = b /\ polls'[i].since = since[b]
    PROVE  Inductive'
<1> USE DEF Inductive
<1>1. ASSUME NEW c \in Cards, Known(c) PROVE Known(c)'
  BY <1>1 DEF Known, Pending, Holds, Shown
<1>2. ASSUME NEW b PROVE Of(b) \subseteq Cards
  BY DEF Of
<1>3. SinceKnown'
  BY <1>1, <1>2 DEF SinceKnown
<1>4. AskedKnown'
  BY <1>1, <1>2 DEF SinceKnown, AskedKnown
<1>5. SilenceKnown'
  BY <1>1, <1>2 DEF SilenceKnown
<1>6. AnswersRight' /\ LaterRight' /\ ReadNow'
  BY DEF AnswersRight, LaterRight, ReadNow, Pending, Holds
<1>7. OvertakenKnown'
  BY DEF OvertakenKnown, Passed
<1>8. Unseen'
  BY DEF Unseen, Holds
<1> QED
  BY <1>3, <1>4, <1>5, <1>6, <1>7, <1>8

LEMMA BeginStep ==
    ASSUME Inductive, NEW c \in Cards, Begin(c)
    PROVE  Inductive'
<1> USE DEF Inductive
<1>0. /\ now < MaxTime /\ underway[c] = 0
      /\ now' = now + 1 /\ underway' = [underway EXCEPT ![c] = now + 1]
      /\ UNCHANGED <<table, shown, since, load, polls, modal, fails, overtaken, missed>>
  BY DEF Begin, board
<1>n. Ranges
  BY Numbers
<1>1. ServerTypes'
  BY <1>0, <1>n DEF Types, ServerTypes, Stamps, Ranges
<1>2. BrowserTypes'
  BY <1>0, <1>n DEF Types, BrowserTypes, Ranges
<1>3. AnswerTypes'
  BY <1>0, <1>n DEF Types, AnswerTypes, AnswerOK, Answers, Ranges
<1>4. \A d \in Cards : Known(d) => Known(d)'
  BY <1>0 DEF Known, Pending, Holds, Shown, Answers
<1>5. \A b : Of(b) \subseteq Cards
  BY DEF Of
<1>6. SinceKnown' /\ AskedKnown' /\ SilenceKnown'
  BY <1>0, <1>4, <1>5 DEF SinceKnown, AskedKnown, SilenceKnown
<1>7. AnswersRight' /\ LaterRight'
  BY <1>0 DEF AnswersRight, LaterRight, Pending, Holds, Answers
<1>8. ReadNow'
  BY <1>0, <1>n DEF ReadNow, Holds, Answers, Ranges
<1>9. ASSUME NEW d \in Cards, NEW at \in Nat, at <= now, Passed(d, at)' PROVE Passed(d, at)
  BY <1>0, <1>9, <1>n DEF Passed, Types, ServerTypes, Ranges
<1>10. OvertakenKnown'
  BY <1>0, <1>5, <1>9, <1>n DEF OvertakenKnown, Answers, Ranges
<1>11. Unseen'
  <2> SUFFICES ASSUME NEW d \in Cards, underway'[d] # 0
               PROVE  /\ table[d].stamp # underway'[d]
                      /\ \A a \in Answers : Holds(a, d) => a.rows[d].stamp # underway'[d]
    BY <1>0 DEF Unseen, Answers, Holds
  <2>1. CASE d # c
    BY <1>0, <2>1 DEF Unseen, Types, ServerTypes
  <2>2. CASE d = c
    <3>1. underway'[d] = now + 1
      BY <1>0, <2>2 DEF Types, ServerTypes
    <3> QED
      BY <3>1, <1>n DEF Ranges, Holds
  <2> QED
    BY <2>1, <2>2
<1> QED
  BY <1>1, <1>2, <1>3, <1>6, <1>7, <1>8, <1>10, <1>11 DEF Types

-----------------------------------------------------------------------------
(* Steps that change a row *)

\* A row changes with a stamp nobody has seen, and which is later than every time
\* in use or belongs to a change that was overtaken.
LEMMA ChangeStep ==
    ASSUME Inductive, Types', NEW c \in Cards, NEW r \in Row,
           table' = [table EXCEPT ![c] = r], now' = now + 1,
           UNCHANGED <<shown, since, load, polls>>,
           \/ r.stamp = now + 1 /\ UNCHANGED <<underway, overtaken, missed>>
           \/ /\ underway[c] # 0 /\ r.stamp = underway[c]
              /\ underway' = [underway EXCEPT ![c] = 0]
              /\ missed' = missed \cup ({c} \cap overtaken)
              /\ overtaken' = overtaken \ {c}
    PROVE  Inductive'
<1> USE DEF Inductive
<1>n. Ranges
  BY Numbers
<1>1. /\ table'[c] = r /\ r.stamp \in Nat /\ table' \in [Cards -> Row]
      /\ \A d \in Cards \ {c} : table'[d] = table[d]
      /\ \A d \in Cards \ {c} : underway'[d] = underway[d]
      /\ missed \subseteq missed' /\ Answers' = Answers
  BY <1>n DEF Types, ServerTypes, Row, Answers, Stamps, Ranges
<1>2. \A b : Of(b) \subseteq Cards
  BY DEF Of
<1>3. ASSUME NEW at \in Nat, at <= now, Passed(c, at) => c \in overtaken, r.stamp <= at
      PROVE  c \in missed'
  <2>1. r.stamp # now + 1
    BY <1>3, <1>n DEF Ranges
  <2> QED
    BY <1>3, <2>1 DEF Passed
<1>4. ASSUME NEW d \in Cards \ {c}, Known(d) PROVE Known(d)'
  BY <1>1, <1>4 DEF Known, Pending, Holds, Shown
<1>5. SinceKnown'
  <2> SUFFICES ASSUME NEW b \in Boards, since[b] # NoRef, NEW d \in Of(b), table'[d].stamp <= since[b]
               PROVE  Known(d)'
    BY <1>1 DEF SinceKnown
  <2>1. CASE d = c
    BY <1>1, <1>3, <1>n, <2>1 DEF OvertakenKnown, Known, Ranges
  <2>2. CASE d # c
    BY <1>1, <1>2, <1>4, <2>2 DEF SinceKnown
  <2> QED
    BY <2>1, <2>2
<1>6. AskedKnown'
  <2> SUFFICES ASSUME NEW i \in PollIds, polls[i].st = "asked", NEW d \in Of(polls[i].board),
                      table'[d].stamp <= polls[i].since
               PROVE  Known(d)'
    BY DEF AskedKnown
  <2>0. polls[i].since \in Nat /\ polls[i].since <= now
    BY <1>n DEF Ranges
  <2>1. CASE d = c
    BY <1>1, <1>3, <2>0, <2>1 DEF OvertakenKnown, Known
  <2>2. CASE d # c
    BY <1>1, <1>2, <1>4, <2>2 DEF AskedKnown
  <2> QED
    BY <2>1, <2>2
<1>7. SilenceKnown'
  <2> SUFFICES ASSUME NEW i \in PollIds, polls[i].st = "read",
                      NEW d \in Of(polls[i].board) \ DOMAIN polls[i].rows,
                      table'[d].stamp <= polls[i].at
               PROVE  Known(d)'
    BY DEF SilenceKnown
  <2>0. polls[i] \in Answers /\ polls[i].at \in Nat /\ polls[i].at <= now
    BY <1>n DEF Ranges
  <2>1. CASE d = c
    BY <1>1, <1>3, <2>0, <2>1 DEF OvertakenKnown, Known
  <2>2. CASE d # c
    BY <1>1, <1>2, <1>4, <2>2 DEF SilenceKnown
  <2> QED
    BY <2>1, <2>2
<1>8. AnswersRight'
  <2> SUFFICES ASSUME NEW a \in Answers, NEW d \in Cards, Pending(a, d), table'[d].stamp <= a.at
               PROVE  d \in missed' \/ a.rows[d] = table'[d]
    BY <1>1 DEF AnswersRight, Pending, Holds
  <2>0. a.at \in Nat /\ a.at <= now
    BY <1>n DEF Ranges
  <2>1. CASE d = c
    BY <1>1, <1>3, <2>0, <2>1 DEF OvertakenKnown, Pending, Holds
  <2>2. CASE d # c
    BY <1>1, <2>2 DEF AnswersRight
  <2> QED
    BY <2>1, <2>2
<1>9. ASSUME NEW a \in Answers, Holds(a, c) PROVE a.rows[c] # r
  <2>1. a.rows[c].stamp # now + 1
    BY <1>9, <1>n DEF Holds, Ranges
  <2> QED
    BY <1>9, <2>1 DEF Unseen
<1>10. LaterRight'
  <2> SUFFICES ASSUME NEW a1 \in Answers, NEW a2 \in Answers, NEW d \in Cards,
                      Holds(a1, d), Holds(a2, d), a1.at <= a2.at, a1.rows[d] = table'[d]
               PROVE  a2.rows[d] = table'[d]
    BY <1>1 DEF LaterRight, Holds
  <2> QED
    BY <1>1, <1>9 DEF LaterRight
<1>11. ReadNow'
  BY <1>1, <1>n DEF ReadNow, Holds, Ranges
<1>12. ASSUME NEW d \in Cards, NEW at, Passed(d, at)'
       PROVE  Passed(d, at) /\ (d \in overtaken => d \in overtaken')
  BY <1>12 DEF Passed, Types, ServerTypes
<1>13. OvertakenKnown'
  BY <1>1, <1>2, <1>12 DEF OvertakenKnown
<1>14. Unseen'
  <2> SUFFICES ASSUME NEW d \in Cards, underway'[d] # 0
               PROVE  /\ table'[d].stamp # underway'[d]
                      /\ \A a \in Answers : Holds(a, d) => a.rows[d].stamp # underway'[d]
    BY <1>1 DEF Unseen, Holds
  <2>1. CASE d # c
    BY <1>1, <2>1 DEF Unseen
  <2>2. CASE d = c
    <3>1. r.stamp = now + 1 /\ UNCHANGED underway
      BY <2>2 DEF Types, ServerTypes
    <3> QED
      BY <1>1, <1>n, <2>2, <3>1 DEF Unseen, Ranges
  <2> QED
    BY <2>1, <2>2
<1> QED
  BY <1>5, <1>6, <1>7, <1>8, <1>10, <1>11, <1>13, <1>14

LEMMA CommitStep ==
    ASSUME Inductive, NEW c \in Cards, Commit(c)
    PROVE  Inductive'
<1> USE DEF Inductive
<1>n. Ranges
  BY Numbers
<1>1. PICK live \in BOOLEAN : table' = [table EXCEPT ![c] = [stamp |-> underway[c], live |-> live]]
  BY DEF Commit
<1>2. /\ underway[c] # 0 /\ now < MaxTime /\ now' = now + 1
      /\ underway' = [underway EXCEPT ![c] = 0]
      /\ missed' = missed \cup ({c} \cap overtaken) /\ overtaken' = overtaken \ {c}
      /\ UNCHANGED <<shown, since, load, polls, modal, fails>>
  BY DEF Commit, board
<1>3. [stamp |-> underway[c], live |-> live] \in Row
  BY DEF Row, Types, ServerTypes
<1>4. ServerTypes'
  BY <1>1, <1>2, <1>3, <1>n DEF Types, ServerTypes, Stamps, Ranges
<1>5. BrowserTypes'
  BY <1>2, <1>n DEF Types, BrowserTypes, Ranges
<1>6. AnswerTypes'
  BY <1>2, <1>n DEF Types, AnswerTypes, AnswerOK, Answers, Ranges
<1> QED
  BY <1>1, <1>2, <1>3, <1>4, <1>5, <1>6, ChangeStep DEF Types

LEMMA SaveStep ==
    ASSUME Inductive, Save
    PROVE  Inductive'
<1> USE DEF Inductive
<1>n. Ranges
  BY Numbers
<1>1. PICK c \in Cards : table' = [table EXCEPT ![c] = [stamp |-> now + 1, live |-> TRUE]]
  BY DEF Save
<1>2. /\ now < MaxTime /\ now' = now + 1
      /\ modal' = [modal EXCEPT !.st = "saved", !.base = IF modal.card = NoCard THEN 0 ELSE now + 1]
      /\ UNCHANGED <<underway, shown, since, load, polls, fails, overtaken, missed>>
  BY DEF Save, board
<1>3. [stamp |-> now + 1, live |-> TRUE] \in Row
  BY <1>2, <1>n DEF Row, Stamps, Ranges
<1>4. ServerTypes'
  BY <1>1, <1>2, <1>3, <1>n DEF Types, ServerTypes, Stamps, Ranges
<1>5. modal' \in ModalType
  <2>1. now + 1 \in Stamps /\ 0 \in Stamps
    BY <1>2, <1>n DEF Stamps, Ranges
  <2> QED
    BY <1>2, <2>1 DEF Types, BrowserTypes, ModalType
<1>6. BrowserTypes'
  BY <1>2, <1>5, <1>n DEF Types, BrowserTypes, Ranges
<1>7. AnswerTypes'
  BY <1>2, <1>n DEF Types, AnswerTypes, AnswerOK, Answers, Ranges
<1> QED
  BY <1>1, <1>2, <1>3, <1>4, <1>6, <1>7, ChangeStep DEF Types

-----------------------------------------------------------------------------
(* Readings *)

\* A reading holds the rows as they are; what it leaves out is older than the
\* question, and every change underway has been overtaken.
LEMMA ReadingStep ==
    ASSUME Inductive, AnswerTypes', NEW r,
           UNCHANGED <<table, underway, now, shown, since, modal, fails, missed>>,
           Overtake,
           r.st = "read" /\ r.at = now /\ DOMAIN r.rows \subseteq Cards,
           \A c \in DOMAIN r.rows \ r.torn : r.rows[c] = table[c],
           \A a \in Answers' : a = r \/ a \in Answers,
           \A i \in PollIds :
               \/ polls'[i] = polls[i]
               \/ /\ polls'[i] = r /\ polls[i].st = "asked" /\ r.board = polls[i].board
                  /\ r.board \in Boards
                  /\ \A c \in Of(r.board) \ DOMAIN r.rows : table[c].stamp <= polls[i].since
    PROVE  Inductive'
<1> USE DEF Inductive
<1>n. Ranges
  BY Numbers
<1>1. overtaken' = {c \in Cards : underway[c] # 0}
  BY DEF Overtake
<1>2. Types'
  BY <1>1 DEF Types, ServerTypes, BrowserTypes
<1>3. \A b : Of(b) \subseteq Cards
  BY DEF Of
<1>4. ASSUME NEW c \in Cards, Known(c) PROVE Known(c)'
  BY <1>4 DEF Known, Pending, Holds, Shown
<1>5. SinceKnown'
  BY <1>3, <1>4 DEF SinceKnown
<1>6. AskedKnown'
  BY <1>3, <1>4 DEF AskedKnown
<1>7. SilenceKnown'
  <2> SUFFICES ASSUME NEW i \in PollIds, polls'[i].st = "read",
                      NEW c \in Of(polls'[i].board) \ DOMAIN polls'[i].rows,
                      table[c].stamp <= polls'[i].at
               PROVE  Known(c)'
    BY DEF SilenceKnown
  <2>1. CASE polls'[i] = polls[i]
    BY <1>3, <1>4, <2>1 DEF SilenceKnown
  <2>2. CASE polls'[i] # polls[i]
    BY <1>3, <1>4, <2>2 DEF AskedKnown
  <2> QED
    BY <2>1, <2>2
<1>8. AnswersRight' /\ ReadNow'
  BY DEF AnswersRight, ReadNow, Pending, Holds
<1>9. LaterRight'
  <2> SUFFICES ASSUME NEW a1 \in Answers', NEW a2 \in Answers', NEW c \in Cards,
                      Holds(a1, c), Holds(a2, c), a1.at <= a2.at, a1.rows[c] = table[c]
               PROVE  a2.rows[c] = table[c]
    BY DEF LaterRight, Holds
  <2>1. CASE a2 = r
    BY <2>1 DEF Holds
  <2>2. CASE a1 \in Answers /\ a2 \in Answers
    BY <2>2 DEF LaterRight
  <2>3. CASE a1 = r /\ a2 \in Answers
    BY <1>n, <2>3 DEF ReadNow, Ranges
  <2> QED
    BY <2>1, <2>2, <2>3
<1>10. OvertakenKnown'
  BY <1>1, <1>3 DEF OvertakenKnown, Passed
<1>11. Unseen'
  BY DEF Unseen, Holds
<1> QED
  BY <1>2, <1>5, <1>6, <1>7, <1>8, <1>9, <1>10, <1>11

LEMMA ReadLoadStep ==
    ASSUME Inductive, ReadLoad
    PROVE  Inductive'
<1>1. /\ load.st = "asked" /\ load' = Read(load, Cards) /\ Overtake
      /\ UNCHANGED <<table, underway, now, shown, since, polls, modal, fails, missed>>
  BY DEF ReadLoad, server, board
<1>2. ServerTypes /\ AnswerTypes /\ AnswerOK(load) /\ load.torn = {}
  BY <1>1 DEF Inductive, Types, AnswerTypes, Answers
<1> DEFINE r == Read(load, Cards)
<1>3. /\ AnswerOK(r) /\ r.st = "read" /\ r.at = now /\ r.torn = {}
      /\ DOMAIN r.rows = Cards /\ \A c \in Cards : r.rows[c] = table[c]
  BY <1>1, <1>2, ReadAnswer
<1> HIDE DEF r
<1>4. load' = r
  BY <1>1 DEF r
<1>5. \A a \in Answers' : a = r \/ a \in Answers
  BY <1>1, <1>4 DEF Answers
<1>6. AnswerTypes'
  BY <1>1, <1>2, <1>3, <1>4 DEF AnswerTypes, AnswerOK, Answers
<1> QED
  BY <1>1, <1>3, <1>5, <1>6, ReadingStep

\* The first page is not displayed, and what it has got was there.
LEMMA ReadPageStep ==
    ASSUME Inductive, ReadPage
    PROVE  Inductive'
<1>1. PICK second \in SUBSET Of("work") :
         load' = [Read(load, Cards) EXCEPT !.st = "paged", !.torn = second]
  BY DEF ReadPage
<1>2. load.st = "asked" /\ UNCHANGED <<table, underway, now, shown, since, polls, modal, fails,
                                      overtaken, missed>>
  BY DEF ReadPage, server, board
<1>3. Types /\ ServerTypes /\ BrowserTypes /\ AnswerTypes /\ AnswerOK(load)
  BY DEF Inductive, Types, AnswerTypes, Answers
<1> DEFINE r == Read(load, Cards)
<1>4. /\ AnswerOK(r) /\ r.st = "read" /\ ~r.old /\ DOMAIN r.rows = Cards
  BY <1>2, <1>3, ReadAnswer
<1> HIDE DEF r
<1>5. load' = [r EXCEPT !.st = "paged", !.torn = second] /\ second \in SUBSET Cards
  BY <1>1 DEF r, Of
<1>6. /\ AnswerOK(load') /\ load'.st = "paged" /\ DOMAIN load'.rows = Cards
  BY <1>4, <1>5 DEF AnswerOK, AnswerType
<1>7. AnswerTypes'
  BY <1>2, <1>3, <1>6 DEF AnswerTypes, AnswerOK, Answers
<1>8. Types'
  BY <1>2, <1>3, <1>7 DEF Types, ServerTypes, BrowserTypes
<1>9. \A a \in Answers' : a.st = "read" => a \in Answers
  BY <1>2, <1>6 DEF Answers
<1> QED
  BY <1>2, <1>8, <1>9, QuietStep

\* What the second page leaves in doubt is known to be torn.
LEMMA ReadRestStep ==
    ASSUME Inductive, ReadRest
    PROVE  Inductive'
<1>1. PICK skipped \in SUBSET load.torn :
         LET rows == [c \in Cards |-> IF c \in skipped THEN Absent
                                     ELSE IF c \in load.torn THEN table[c]
                                     ELSE load.rows[c]]
         IN  load' = [load EXCEPT !.st = "read", !.at = now, !.rows = rows,
                                  !.torn = {c \in Cards : rows[c] # table[c]}]
  BY DEF ReadRest
<1> DEFINE rows == [c \in Cards |-> IF c \in skipped THEN Absent
                                   ELSE IF c \in load.torn THEN table[c]
                                   ELSE load.rows[c]]
           torn == {c \in Cards : rows[c] # table[c]}
<1>2. /\ load.st = "paged" /\ Overtake
      /\ UNCHANGED <<table, underway, now, shown, since, polls, modal, fails, missed>>
  BY DEF ReadRest, server, board
<1>3. ServerTypes /\ AnswerTypes /\ AnswerOK(load) /\ DOMAIN load.rows = Cards
  BY <1>2 DEF Inductive, Types, AnswerTypes, Answers
<1>n. Ranges
  BY Numbers DEF Inductive
<1>4. ASSUME NEW c \in Cards PROVE rows[c] \in Row /\ rows[c].stamp <= now
  <2>1. Absent \in Row /\ Absent.stamp <= now
    BY <1>n, BoundsAssumption DEF Absent, Row, Stamps, Ranges
  <2>2. table[c] \in Row /\ table[c].stamp <= now
    BY <1>n DEF Ranges
  <2>3. load.rows[c] \in Row /\ load.rows[c].stamp <= now
    BY <1>3, <1>n DEF Ranges, Answers
  <2> QED
    BY <2>1, <2>2, <2>3
<1>5. rows \in SomeRows /\ DOMAIN rows = Cards /\ torn \subseteq Cards
  <2>1. rows \in [Cards -> Row]
    BY <1>4
  <2> QED
    BY <2>1 DEF SomeRows
<1>6. load' = [load EXCEPT !.st = "read", !.at = now, !.rows = rows, !.torn = torn]
  BY <1>1
<1>7. \A c \in Cards \ torn : rows[c] = table[c]
  OBVIOUS
<1> HIDE DEF rows, torn
<1>8. /\ load'.st = "read" /\ load'.at = now /\ load'.rows = rows /\ load'.torn = torn
      /\ load' \in AnswerType /\ load'.since = load.since
  BY <1>3, <1>5, <1>6 DEF AnswerOK, AnswerType, ServerTypes
<1>9. AnswerOK(load')
  BY <1>3, <1>4, <1>5, <1>8, <1>n DEF AnswerOK, Ranges
<1>10. AnswerTypes'
  BY <1>2, <1>3, <1>5, <1>8, <1>9 DEF AnswerTypes, AnswerOK, Answers
<1>11. PICK r : r = load'
  OBVIOUS
<1>12. \A a \in Answers' : a = r \/ a \in Answers
  BY <1>2, <1>11 DEF Answers
<1> QED
  BY <1>2, <1>5, <1>7, <1>8, <1>10, <1>11, <1>12, ReadingStep

LEMMA ReadChangesStep ==
    ASSUME Inductive, NEW i \in PollIds, ReadChanges(i)
    PROVE  Inductive'
<1> DEFINE a == polls[i]
           S == Changes(a.board, a.since)
           r == Read(a, S)
<1>1. /\ a.st = "asked" /\ polls' = [polls EXCEPT ![i] = r] /\ Overtake
      /\ UNCHANGED <<table, underway, now, shown, since, load, modal, fails, missed>>
  BY DEF ReadChanges, server, board
<1>2. ServerTypes /\ AnswerTypes /\ AnswerOK(a) /\ a.board \in Boards
  BY <1>1 DEF Inductive, Types, AnswerTypes, Answers
<1>3. S \subseteq Cards /\ \A c \in Of(a.board) \ S : ~(table[c].stamp > a.since)
  BY DEF Changes, Of
<1>4. /\ AnswerOK(r) /\ r.st = "read" /\ r.at = now /\ r.board = a.board /\ r.torn = a.torn
      /\ DOMAIN r.rows = S /\ \A c \in S : r.rows[c] = table[c]
  BY <1>1, <1>2, <1>3, ReadAnswer
<1>5. Ranges
  BY Numbers DEF Inductive
<1>6. \A c \in Of(a.board) \ S : table[c].stamp <= a.since
  <2> SUFFICES ASSUME NEW c \in Of(a.board) \ S PROVE table[c].stamp <= a.since
    OBVIOUS
  <2>1. table[c].stamp \in Nat /\ a.since \in Nat
    BY <1>5 DEF Ranges, Of
  <2> QED
    BY <1>3, <2>1
<1> HIDE DEF r, S
<1>7. polls \in [PollIds -> AnswerType] /\ r \in AnswerType
  BY <1>2, <1>4 DEF AnswerTypes, AnswerOK
<1>8. /\ polls' \in [PollIds -> AnswerType]
      /\ polls'[i] = r /\ \A j \in PollIds \ {i} : polls'[j] = polls[j]
  BY <1>1, <1>7
<1>9. \A b \in Answers' : b = r \/ b \in Answers
  BY <1>1, <1>8 DEF Answers
<1>10. AnswerTypes'
  <2>1. \A j \in PollIds : /\ polls'[j].st # "none" => polls'[j].board \in Boards
                           /\ polls'[j].torn = {}
    BY <1>2, <1>4, <1>8 DEF AnswerTypes
  <2>2. ASSUME NEW b \in Answers' PROVE AnswerOK(b)
    BY <1>2, <1>4, <1>9 DEF AnswerTypes
  <2>3. ASSUME NEW b, AnswerOK(b) PROVE AnswerOK(b)'
    BY <1>1, <2>3 DEF AnswerOK
  <2>4. \A b \in Answers' : AnswerOK(b)'
    BY <2>2, <2>3
  <2> QED
    BY <1>1, <1>2, <1>8, <2>1, <2>4 DEF AnswerTypes
<1> QED
  BY <1>1, <1>2, <1>3, <1>4, <1>6, <1>8, <1>9, <1>10, ReadingStep

-----------------------------------------------------------------------------
(* Displays *)

\* What a display makes of a card, and of what was missed.
LEMMA Displayed ==
    ASSUME Types, NEW r \in Answers, NEW lost, Display(r, lost), NEW c \in Cards
    PROVE  /\ c \in DOMAIN r.rows => shown'[c] = Shown(r.rows[c])
           /\ c \notin DOMAIN r.rows => shown'[c] = shown[c]
           /\ c \in lost => c \in missed'
           /\ c \in missed /\ ~(c \in DOMAIN r.rows /\ r.rows[c] = table[c]) => c \in missed'
           /\ r.old /\ shown'[c] # Shown(table[c]) => c \in missed'
BY DEF Display, Merged

\* The answers that are left, the older ones marked.
Marked(r) ==
    \A a \in Answers' : a.st = "none" \/ \E b \in Answers : a = Overtaken(b, r.at)

\* A display undoes nothing that is known.
LEMMA DisplayKeepsKnown ==
    ASSUME Inductive, UNCHANGED table, NEW r \in Answers, r.st = "read",
           NEW lost, Display(r, lost), r.torn \subseteq lost, Marked(r), NEW c \in Cards
    PROVE  /\ Known(c) => Known(c)'
           /\ c \in DOMAIN r.rows /\ table[c].stamp <= r.at => Known(c)'
<1> USE DEF Inductive
<1>n. Ranges
  BY Numbers
<1>d. /\ c \in DOMAIN r.rows => shown'[c] = Shown(r.rows[c])
      /\ c \notin DOMAIN r.rows => shown'[c] = shown[c]
      /\ c \in missed /\ ~(c \in DOMAIN r.rows /\ r.rows[c] = table[c]) => c \in missed'
      /\ r.old /\ shown'[c] # Shown(table[c]) => c \in missed'
  BY Displayed
\* What is pending afterwards was pending before, and is no older than r.
<1>1. ASSUME NEW a \in Answers', Pending(a, c)
      PROVE  \E b \in Answers : Pending(b, c) /\ r.at <= b.at /\ a.rows = b.rows
  <2>1. PICK b \in Answers : a = Overtaken(b, r.at)
    BY <1>1 DEF Marked, Pending, Holds
  <2>2. AnswerOK(b) /\ r.at \in Stamps /\ now \in Stamps
    BY <1>n DEF Types, AnswerTypes, ServerTypes, Ranges, AnswerType
  <2> QED
    BY <1>1, <2>1, <2>2, OvertakenAnswer DEF Pending, Holds
<1>t. CASE c \in r.torn
  <2>1. c \in missed'
    BY <1>t, Displayed
  <2> QED
    BY <2>1 DEF Known
<1>2. CASE Holds(r, c) /\ r.rows[c] = table[c]
  <2>1. ASSUME NEW a \in Answers', Pending(a, c) PROVE a.rows[c] = table[c]
    BY <1>1, <1>2, <2>1 DEF LaterRight, Pending
  <2>2. shown'[c] = Shown(table[c])
    BY <1>2, <1>d DEF Holds
  <2>3. Known(c)'
    BY <2>1, <2>2 DEF Known, Pending, Holds, Shown
  <2> QED
    BY <2>3
<1>3. CASE c \notin r.torn /\ ~(Holds(r, c) /\ r.rows[c] = table[c])
  <2>1. c \in missed => c \in missed'
    BY <1>3, <1>d DEF Holds
  <2>2. ASSUME Known(c) PROVE Known(c)'
    <3>1. CASE c \in missed
      BY <2>1, <3>1 DEF Known
    <3>2. CASE c \notin missed
      <4>1. \A a \in Answers' : Pending(a, c) => a.rows[c] = table[c]
        BY <1>1, <2>2, <3>2 DEF Known
      <4>2. c \in missed' \/ shown'[c] = Shown(table[c])
        <5>1. CASE c \in DOMAIN r.rows
          BY <1>3, <1>d, <2>2, <3>2, <5>1 DEF Known, Pending, Holds
        <5>2. CASE c \notin DOMAIN r.rows
          BY <1>d, <2>2, <3>2, <5>2 DEF Known
        <5> QED
          BY <5>1, <5>2
      <4> QED
        BY <4>1, <4>2 DEF Known, Pending, Holds, Shown
    <3> QED
      BY <3>1, <3>2
  <2>3. ASSUME c \in DOMAIN r.rows, table[c].stamp <= r.at PROVE Known(c)'
    <3>1. CASE c \in missed
      BY <2>1, <3>1 DEF Known
    <3>2. CASE c \notin missed
      <4>1. ASSUME NEW a \in Answers', Pending(a, c) PROVE a.rows[c] = table[c]
        <5>1. PICK b \in Answers : Pending(b, c) /\ r.at <= b.at /\ a.rows = b.rows
          BY <1>1, <4>1
        <5>2. table[c].stamp <= b.at
          BY <1>n, <2>3, <5>1 DEF Ranges
        <5> QED
          BY <3>2, <5>1, <5>2 DEF AnswersRight
      <4>2. c \in missed' \/ shown'[c] = Shown(table[c])
        <5>1. r.old
          BY <1>3, <2>3, <3>2 DEF AnswersRight, Pending, Holds
        <5> QED
          BY <1>d, <5>1
      <4> QED
        BY <4>1, <4>2 DEF Known, Pending, Holds, Shown
    <3> QED
      BY <3>1, <3>2
  <2> QED
    BY <2>2, <2>3
<1> QED
  BY <1>t, <1>2, <1>3

\* A display may remember a time when it shows, or has counted as missed, what is
\* older; the rest stands as it did.
LEMMA DisplayStep ==
    ASSUME Inductive, UNCHANGED server, NEW r \in Answers, r.st = "read",
           NEW lost, Display(r, lost), r.torn \subseteq lost, Marked(r), Types', overtaken \subseteq overtaken',
           \A i \in PollIds : polls'[i].st # "none" => polls'[i] = Overtaken(polls[i], r.at),
           \A b \in Boards : \/ since'[b] = since[b]
                             \/ \A c \in Of(b) :
                                   /\ table[c].stamp <= since'[b] =>
                                         \/ c \in DOMAIN r.rows /\ table[c].stamp <= r.at
                                         \/ Known(c) \/ c \in lost
                                   /\ Passed(c, since'[b]) => c \in overtaken'
    PROVE  Inductive'
<1> USE DEF Inductive
<1>n. Ranges
  BY Numbers
<1>0. UNCHANGED <<table, underway, now>>
  BY DEF server
<1>1. ASSUME NEW c \in Cards
      PROVE  /\ Known(c) => Known(c)'
             /\ c \in DOMAIN r.rows /\ table[c].stamp <= r.at => Known(c)'
  BY <1>0, DisplayKeepsKnown
<1>2. ASSUME NEW c \in Cards
      PROVE  /\ c \in lost => c \in missed'
             /\ c \in missed /\ ~(c \in DOMAIN r.rows /\ r.rows[c] = table[c]) => c \in missed'
  BY Displayed
<1>3. ASSUME NEW c \in Cards, c \in lost PROVE Known(c)'
  BY <1>2, <1>3 DEF Known
<1>4. \A b : Of(b) \subseteq Cards
  BY DEF Of
<1>5. ASSUME NEW b \in Answers
      PROVE  /\ Overtaken(b, r.at).st = b.st /\ Overtaken(b, r.at).at = b.at
             /\ Overtaken(b, r.at).board = b.board /\ Overtaken(b, r.at).since = b.since
             /\ Overtaken(b, r.at).rows = b.rows /\ Overtaken(b, r.at).torn = b.torn
             /\ b.st = "read" /\ ~Overtaken(b, r.at).old => ~b.old /\ r.at <= b.at
  <2>1. AnswerOK(b) /\ r.at \in Stamps /\ now \in Stamps
    BY <1>n DEF Types, AnswerTypes, ServerTypes, Ranges, AnswerType
  <2> QED
    BY <2>1, OvertakenAnswer
\* An answer that is left was there before.
<1>6. ASSUME NEW a \in Answers', a.st # "none"
      PROVE  \E b \in Answers : /\ b.st = a.st /\ b.at = a.at /\ b.rows = a.rows /\ b.torn = a.torn
                                /\ a.st = "read" /\ ~a.old => ~b.old /\ r.at <= b.at
  <2>1. PICK b \in Answers : a = Overtaken(b, r.at)
    BY <1>6 DEF Marked
  <2> QED
    BY <1>5, <2>1
<1>7. ASSUME NEW i \in PollIds, polls'[i].st # "none"
      PROVE  /\ polls'[i].st = polls[i].st /\ polls'[i].at = polls[i].at
             /\ polls'[i].board = polls[i].board /\ polls'[i].since = polls[i].since
             /\ polls'[i].rows = polls[i].rows
  BY <1>5, <1>7, <1>n DEF Ranges
<1>8. SinceKnown'
  <2> SUFFICES ASSUME NEW b \in Boards, since'[b] # NoRef, NEW c \in Of(b), table[c].stamp <= since'[b]
               PROVE  Known(c)'
    BY <1>0 DEF SinceKnown
  <2>1. CASE since'[b] = since[b]
    BY <1>1, <1>4, <2>1 DEF SinceKnown
  <2>2. CASE since'[b] # since[b]
    BY <1>1, <1>3, <1>4, <2>2
  <2> QED
    BY <2>1, <2>2
<1>9. AskedKnown'
  BY <1>0, <1>1, <1>4, <1>7 DEF AskedKnown
<1>10. SilenceKnown'
  BY <1>0, <1>1, <1>4, <1>7 DEF SilenceKnown
<1>11. AnswersRight'
  <2> SUFFICES ASSUME NEW a \in Answers', NEW c \in Cards, Pending(a, c), table[c].stamp <= a.at
               PROVE  c \in missed' \/ a.rows[c] = table[c]
    BY <1>0 DEF AnswersRight, Pending, Holds
  <2>1. PICK b \in Answers : Pending(b, c) /\ r.at <= b.at /\ b.rows = a.rows /\ b.at = a.at
    BY <1>6 DEF Pending, Holds
  <2>2. c \in missed \/ b.rows[c] = table[c]
    BY <2>1 DEF AnswersRight
  <2>3. Holds(r, c) /\ r.rows[c] = table[c] => b.rows[c] = table[c]
    BY <2>1 DEF LaterRight, Pending
  <2> QED
    BY <1>2, <2>1, <2>2, <2>3 DEF Holds
<1>12. LaterRight'
  <2> SUFFICES ASSUME NEW a1 \in Answers', NEW a2 \in Answers', NEW c \in Cards,
                      Holds(a1, c), Holds(a2, c), a1.at <= a2.at, a1.rows[c] = table[c]
               PROVE  a2.rows[c] = table[c]
    BY <1>0 DEF LaterRight, Holds
  <2>1. PICK b1 \in Answers : Holds(b1, c) /\ b1.rows = a1.rows /\ b1.at = a1.at
    BY <1>6 DEF Holds
  <2>2. PICK b2 \in Answers : Holds(b2, c) /\ b2.rows = a2.rows /\ b2.at = a2.at
    BY <1>6 DEF Holds
  <2> QED
    BY <2>1, <2>2 DEF LaterRight
<1>13. ReadNow'
  <2> SUFFICES ASSUME NEW a \in Answers', NEW c \in Cards, Holds(a, c), a.at = now
               PROVE  a.rows[c] = table[c]
    BY <1>0 DEF ReadNow, Holds
  <2>1. PICK b \in Answers : Holds(b, c) /\ b.rows = a.rows /\ b.at = a.at
    BY <1>6 DEF Holds
  <2> QED
    BY <2>1 DEF ReadNow
<1>14. OvertakenKnown'
  <2>1. ASSUME NEW b \in Boards, since'[b] # NoRef, NEW c \in Of(b), Passed(c, since'[b])
        PROVE  c \in overtaken'
    <3>1. CASE since'[b] = since[b]
      BY <2>1, <3>1 DEF OvertakenKnown
    <3> QED
      BY <2>1, <3>1
  <2>2. ASSUME NEW i \in PollIds, polls'[i].st = "asked", NEW c \in Of(polls'[i].board),
               Passed(c, polls'[i].since)
        PROVE  c \in overtaken'
    BY <1>7, <2>2 DEF OvertakenKnown
  <2>3. ASSUME NEW a \in Answers', a.st = "read", NEW c \in Cards, Passed(c, a.at)
        PROVE  c \in overtaken'
    BY <1>6, <2>3 DEF OvertakenKnown
  <2> QED
    BY <1>0, <2>1, <2>2, <2>3 DEF OvertakenKnown, Passed
<1>15. Unseen'
  <2> SUFFICES ASSUME NEW c \in Cards, underway[c] # 0
               PROVE  /\ table[c].stamp # underway[c]
                      /\ \A a \in Answers' : Holds(a, c) => a.rows[c].stamp # underway[c]
    BY <1>0 DEF Unseen, Holds
  <2>1. ASSUME NEW a \in Answers', Holds(a, c) PROVE a.rows[c].stamp # underway[c]
    <3>1. PICK b \in Answers : Holds(b, c) /\ b.rows = a.rows
      BY <1>6, <2>1 DEF Holds
    <3> QED
      BY <3>1 DEF Unseen
  <2> QED
    BY <2>1 DEF Unseen
<1> QED
  BY <1>8, <1>9, <1>10, <1>11, <1>12, <1>13, <1>14, <1>15

LEMMA DisplayTypes ==
    ASSUME Types, NEW r \in Answers, NEW lost \in SUBSET Cards, Display(r, lost)
    PROVE  shown' \in [Cards -> Stamps] /\ modal' \in ModalType /\ missed' \subseteq Cards
<1>n. Ranges
  BY Numbers
<1>1. \A row \in Row : Shown(row) \in Stamps
  BY BoundsAssumption DEF Row, Shown, Stamps
<1>2. shown' \in [Cards -> Stamps]
  BY <1>1, <1>n DEF Display, Merged, Types, BrowserTypes, Ranges
<1>3. modal' \in ModalType
  <2>1. 0 \in Stamps
    BY BoundsAssumption DEF Stamps
  <2>2. modal' = Form(shown') /\ modal \in ModalType
    BY DEF Display, Types, BrowserTypes
  <2>3. CASE modal.st = "none" \/ modal.card = NoCard
    BY <2>2, <2>3 DEF Form
  <2>4. CASE ~(modal.st = "none" \/ modal.card = NoCard)
    <3>1. modal.card \in Cards
      BY <2>2, <2>4 DEF ModalType
    <3>2. shown'[modal.card] \in Stamps
      BY <1>2, <3>1
    <3> QED
      BY <2>1, <2>2, <2>4, <3>2 DEF Form, ModalType
  <2> QED
    BY <2>3, <2>4
<1>4. missed' \subseteq Cards
  BY DEF Display, Types, BrowserTypes
<1> QED
  BY <1>2, <1>3, <1>4

LEMMA AnswersAfterDisplay ==
    ASSUME Types, UNCHANGED now, NEW r \in Answers,
           \A i \in PollIds : polls'[i] \in {NoAnswer, Overtaken(polls[i], r.at)},
           DOMAIN polls' = PollIds, polls' = [i \in PollIds |-> polls'[i]],
           load' \in {NoAnswer, Overtaken(load, r.at)}
    PROVE  AnswerTypes' /\ Marked(r)
<1>n. Ranges
  BY Numbers
<1>0. r.at \in Stamps /\ now \in Stamps /\ 0 \in Stamps /\ 0 <= now
  BY <1>n, BoundsAssumption DEF Types, ServerTypes, Ranges, AnswerType, Stamps
<1>1. AnswerOK(NoAnswer) /\ NoAnswer.st = "none" /\ NoAnswer.torn = {}
  BY <1>0, NewAnswersOK, NewAnswers DEF BoardNames
<1>2. ASSUME NEW b \in Answers
      PROVE  /\ AnswerOK(Overtaken(b, r.at))
             /\ Overtaken(b, r.at).st = b.st /\ Overtaken(b, r.at).board = b.board
             /\ Overtaken(b, r.at).rows = b.rows /\ Overtaken(b, r.at).torn = b.torn
  BY <1>0, OvertakenAnswer DEF Types, AnswerTypes
<1>3. Marked(r)
  BY <1>1, <1>n DEF Marked, Answers, Ranges
<1>4. ASSUME NEW a \in Answers' PROVE AnswerOK(a)
  BY <1>1, <1>2, <1>n DEF Answers, Ranges
<1>5. ASSUME NEW a, AnswerOK(a) PROVE AnswerOK(a)'
  BY <1>5 DEF AnswerOK
<1>6. \A a \in Answers' : AnswerOK(a)'
  BY <1>4, <1>5
<1>7. polls' \in [PollIds -> AnswerType]
  BY <1>4 DEF AnswerOK, Answers
<1>8. /\ load'.st \in {"paged", "read"} => DOMAIN load'.rows = Cards
      /\ load'.st = "asked" => load'.torn = {}
  BY <1>1, <1>2 DEF Types, AnswerTypes, Answers
<1>9. \A i \in PollIds : /\ polls'[i].st # "none" => polls'[i].board \in Boards
                         /\ polls'[i].torn = {}
  BY <1>1, <1>2, <1>n DEF Types, AnswerTypes, Ranges
<1> QED
  BY <1>3, <1>6, <1>7, <1>8, <1>9 DEF AnswerTypes

LEMMA ApplyLoadStep ==
    ASSUME Inductive, ApplyLoad
    PROVE  Inductive'
<1> USE DEF Inductive
<1> DEFINE byClock == {c \in Cards : Loaded(BoardOf[c]) = {}}
           lost    == load.torn \cup {c \in byClock : table[c].stamp > load.at}
<1>n. Ranges
  BY Numbers
<1>1. /\ load.st = "read" /\ since' = [b \in Boards |-> SinceLoaded(b)]
      /\ Display(load, lost) /\ load' = NoAnswer
      /\ polls' = [i \in PollIds |-> Overtaken(polls[i], load.at)]
      /\ overtaken' = overtaken \cup {c \in byClock : underway[c] # 0}
      /\ UNCHANGED server /\ UNCHANGED fails
  BY DEF ApplyLoad
<1>2. UNCHANGED <<table, underway, now>>
  BY <1>1 DEF server
<1>3. load \in Answers /\ DOMAIN load.rows = Cards
  BY <1>1 DEF Answers, Types, AnswerTypes
<1>4. lost \in SUBSET Cards /\ load.torn \subseteq lost
  BY <1>3, <1>n DEF Ranges, AnswerType
<1>5. shown' \in [Cards -> Stamps] /\ modal' \in ModalType /\ missed' \subseteq Cards
  <2> HIDE DEF lost
  <2> QED BY <1>1, <1>3, <1>4, DisplayTypes
<1>6. AnswerTypes' /\ Marked(load)
  BY <1>1, <1>2, <1>3, AnswersAfterDisplay
\* A board takes the latest stamp of its rows, or the clock when it has none.
<1>7. ASSUME NEW b \in Boards
      PROVE  /\ since'[b] \in Stamps /\ since'[b] <= now
             /\ Loaded(b) # {} => since'[b] <= load.at
  <2>1. Loaded(b) \in SUBSET Stamps /\ \A n \in Loaded(b) : n <= load.at
    BY <1>3, <1>n DEF Loaded, Of, Ranges, Row
  <2>2. CASE Loaded(b) = {}
    BY <1>1, <2>2, <1>n DEF SinceLoaded, Types, ServerTypes, Ranges
  <2>3. CASE Loaded(b) # {}
    <3>1. since'[b] \in Loaded(b)
      BY <1>1, <2>1, <2>3, LatestStamp DEF SinceLoaded
    <3>2. since'[b] \in Stamps /\ since'[b] <= load.at
      BY <2>1, <3>1
    <3>3. since'[b] \in Nat /\ load.at \in Nat /\ now \in Nat /\ load.at <= now
      BY <1>3, <1>n, <3>2 DEF Ranges
    <3>4. since'[b] <= now
      BY <3>2, <3>3
    <3> QED
      BY <2>3, <3>2, <3>4
  <2> QED
    BY <2>2, <2>3
<1>8. BrowserTypes'
  <2>1. since' \in [Boards -> Stamps \cup {NoRef}]
    BY <1>1, <1>7
  <2> QED
    BY <1>1, <1>2, <1>5, <1>7, <2>1 DEF Types, BrowserTypes
<1>9. Types'
  BY <1>2, <1>6, <1>8 DEF Types, ServerTypes
<1>10. ASSUME NEW b \in Boards, NEW c \in Of(b)
       PROVE  /\ table[c].stamp <= since'[b] =>
                    (c \in DOMAIN load.rows /\ table[c].stamp <= load.at) \/ c \in lost
              /\ Passed(c, since'[b]) => c \in overtaken'
  <2>0. c \in Cards /\ BoardOf[c] = b /\ load.at \in Nat /\ since'[b] \in Nat
    BY <1>3, <1>7, <1>n DEF Of, Ranges
  <2>1. CASE Loaded(b) = {}
    <3>1. c \in byClock
      BY <2>0, <2>1
    <3> QED
      BY <1>1, <1>3, <1>n, <2>0, <3>1 DEF Passed, Ranges
  <2>2. CASE Loaded(b) # {}
    <3>1. since'[b] <= load.at
      BY <1>7, <2>2
    <3>2. Passed(c, since'[b]) => Passed(c, load.at)
      BY <1>n, <2>0, <3>1 DEF Passed, Ranges
    <3>3. Passed(c, since'[b]) => c \in overtaken'
      BY <1>1, <1>3, <2>0, <3>2 DEF OvertakenKnown
    <3> QED
      BY <1>3, <1>n, <2>0, <3>1, <3>3 DEF Ranges
  <2> QED
    BY <2>1, <2>2
<1>11. overtaken \subseteq overtaken'
  BY <1>1
<1> HIDE DEF byClock, lost
<1>12. \A i \in PollIds : polls'[i].st # "none" => polls'[i] = Overtaken(polls[i], load.at)
  BY <1>1
<1> QED
  BY <1>1, <1>3, <1>4, <1>6, <1>9, <1>10, <1>11, <1>12, DisplayStep

LEMMA ApplyChangesStep ==
    ASSUME Inductive, NEW i \in PollIds, ApplyChanges(i)
    PROVE  Inductive'
<1> USE DEF Inductive
<1> DEFINE r == polls[i]
<1>n. Ranges
  BY Numbers
<1>1. /\ r.st = "read" /\ since' = [since EXCEPT ![r.board] = r.at]
      /\ Display(r, {}) /\ load' = Overtaken(load, r.at)
      /\ polls' = [j \in PollIds |-> IF j = i THEN NoAnswer ELSE Overtaken(polls[j], r.at)]
      /\ UNCHANGED server /\ UNCHANGED <<fails, overtaken>>
  BY DEF ApplyChanges
<1>2. UNCHANGED <<table, underway, now>>
  BY <1>1 DEF server
<1>3. r \in Answers /\ r.board \in Boards /\ r.torn = {}
  BY <1>1, <1>n DEF Types, AnswerTypes, Ranges
<1>4. r.at \in Stamps /\ r.at \in Nat /\ r.at <= now
  BY <1>3, <1>n DEF Ranges, AnswerType
<1>5. shown' \in [Cards -> Stamps] /\ modal' \in ModalType /\ missed' \subseteq Cards
  BY <1>1, <1>3, DisplayTypes
<1>6. AnswerTypes' /\ Marked(r)
  BY <1>1, <1>2, <1>3, AnswersAfterDisplay
<1>7. BrowserTypes'
  <2>1. since' \in [Boards -> Stamps \cup {NoRef}]
    BY <1>1, <1>3, <1>4 DEF Types, BrowserTypes
  <2>2. \A b \in Boards : since'[b] # NoRef => since'[b] <= now
    BY <1>1, <1>3, <1>4 DEF Types, BrowserTypes
  <2> QED
    BY <1>1, <1>2, <1>5, <2>1, <2>2 DEF Types, BrowserTypes
<1>8. Types'
  BY <1>2, <1>6, <1>7 DEF Types, ServerTypes
<1>9. ASSUME NEW b \in Boards, since'[b] # since[b], NEW c \in Of(b)
      PROVE  /\ table[c].stamp <= since'[b] =>
                    (c \in DOMAIN r.rows /\ table[c].stamp <= r.at) \/ Known(c)
             /\ Passed(c, since'[b]) => c \in overtaken'
  <2>0. c \in Cards /\ b = r.board /\ since'[b] = r.at
    BY <1>1, <1>3, <1>9 DEF Of, Types, BrowserTypes
  <2>1. table[c].stamp <= r.at => c \in DOMAIN r.rows \/ Known(c)
    BY <1>1, <2>0 DEF SilenceKnown
  <2>2. Passed(c, r.at) => c \in overtaken
    BY <1>1, <1>3, <2>0 DEF OvertakenKnown
  <2> QED
    BY <1>1, <2>0, <2>1, <2>2
<1>10. \A j \in PollIds : polls'[j].st # "none" => polls'[j] = Overtaken(polls[j], r.at)
  BY <1>1, NewAnswers, <1>4 DEF BoardNames
<1> QED
  BY <1>1, <1>3, <1>6, <1>8, <1>9, <1>10, DisplayStep

-----------------------------------------------------------------------------
(* The other steps *)

LEMMA Polled ==
    ASSUME Types, NEW b \in Boards, since[b] # NoRef, Poll(b)
    PROVE  /\ polls' \in [PollIds -> AnswerType]
           /\ \A i \in PollIds :
                 \/ polls'[i] = polls[i]
                 \/ /\ AnswerOK(polls'[i]) /\ polls'[i].st = "asked" /\ polls'[i].torn = {}
                    /\ polls'[i].board = b /\ polls'[i].since = since[b]
<1>1. PICK i \in PollIds : polls' = [polls EXCEPT ![i] = Nothing("asked", b, since[b])]
  BY DEF Poll
<1>2. since[b] \in Stamps /\ since[b] <= now /\ now \in Stamps /\ b \in BoardNames
  BY DEF Types, BrowserTypes, ServerTypes, BoardNames
<1>3. /\ AnswerOK(Nothing("asked", b, since[b])) /\ Nothing("asked", b, since[b]) \in AnswerType
      /\ Nothing("asked", b, since[b]).st = "asked" /\ Nothing("asked", b, since[b]).torn = {}
      /\ Nothing("asked", b, since[b]).board = b /\ Nothing("asked", b, since[b]).since = since[b]
  BY <1>2, NewAnswers, NewAnswersOK
<1> QED
  BY <1>1, <1>3 DEF Types, AnswerTypes

\* The types after a step that gives up or asks for answers.
LEMMA QuietTypes ==
    ASSUME Types, UNCHANGED <<table, underway, now, shown, overtaken, missed>>,
           modal' \in ModalType, fails' \in 0..MaxFails,
           since' \in [Boards -> Stamps \cup {NoRef}],
           \A b \in Boards : since'[b] = since[b] \/ since'[b] = NoRef,
           load' \in {load, AskAll, NoAnswer},
           polls' \in [PollIds -> AnswerType],
           \A i \in PollIds :
               \/ polls'[i] \in {polls[i], NoAnswer}
               \/ AnswerOK(polls'[i]) /\ polls'[i].board \in Boards /\ polls'[i].torn = {}
    PROVE  Types'
<1>n. Ranges
  BY Numbers
<1>1. 0 \in Stamps /\ 0 <= now /\ now \in Stamps
  BY <1>n, BoundsAssumption DEF Types, ServerTypes, Ranges, Stamps
<1>2. /\ AnswerOK(NoAnswer) /\ AnswerOK(AskAll) /\ NoAnswer.st = "none" /\ AskAll.st = "asked"
      /\ NoAnswer.torn = {} /\ AskAll.torn = {}
  BY <1>1, NewAnswers, NewAnswersOK DEF BoardNames
<1>3. ASSUME NEW a \in Answers' PROVE AnswerOK(a)
  BY <1>2, <1>n DEF Answers, Types, AnswerTypes, Ranges
<1>4. ASSUME NEW a, AnswerOK(a) PROVE AnswerOK(a)'
  BY <1>4 DEF AnswerOK
<1>5. \A a \in Answers' : AnswerOK(a)'
  BY <1>3, <1>4
<1>6. AnswerTypes'
  BY <1>2, <1>5 DEF Types, AnswerTypes
<1>7. ServerTypes' /\ BrowserTypes'
  BY DEF Types, ServerTypes, BrowserTypes
<1> QED
  BY <1>6, <1>7 DEF Types

LEMMA QuietAction ==
    ASSUME Inductive, UNCHANGED <<table, underway, now, shown, overtaken, missed>>,
           modal' \in ModalType, fails' \in 0..MaxFails,
           since' \in [Boards -> Stamps \cup {NoRef}],
           \A b \in Boards : since'[b] = since[b] \/ since'[b] = NoRef,
           load' \in {load, AskAll, NoAnswer},
           polls' \in [PollIds -> AnswerType],
           \A i \in PollIds :
               \/ polls'[i] \in {polls[i], NoAnswer}
               \/ /\ AnswerOK(polls'[i]) /\ polls'[i].st = "asked" /\ polls'[i].torn = {}
                  /\ \E b \in Boards : /\ since[b] # NoRef
                                       /\ polls'[i].board = b /\ polls'[i].since = since[b]
    PROVE  Inductive'
<1>1. Types'
  BY QuietTypes DEF Inductive
<1>2. NoAnswer.st = "none" /\ AskAll.st = "asked"
  BY DEF NoAnswer, AskAll, Nothing
<1>3. \A a \in Answers' : a.st = "read" => a \in Answers
  BY <1>2 DEF Answers
<1>4. \A i \in PollIds : polls'[i].st = "read" => polls'[i] = polls[i]
  BY <1>2
<1>5. \A i \in PollIds : polls'[i].st = "asked" =>
          \/ polls'[i] = polls[i]
          \/ \E b \in Boards : /\ since[b] # NoRef
                               /\ polls'[i].board = b /\ polls'[i].since = since[b]
  BY <1>2
<1> QED
  BY <1>1, <1>3, <1>4, <1>5, QuietStep

LEMMA OtherStep ==
    ASSUME Inductive,
           \/ LoadFails \/ CloseModal \/ Saved \/ SaveFails
           \/ \E b \in Boards : Refresh(b)
           \/ \E i \in PollIds : RefreshFails(i)
           \/ \E c \in Cards \cup {NoCard} : OpenModal(c)
           \/ UNCHANGED vars
    PROVE  Inductive'
<1> USE DEF server, board
<1>1. Types /\ AnswerTypes /\ BrowserTypes /\ modal \in ModalType
  BY DEF Inductive, Types, BrowserTypes
<1>2. /\ since \in [Boards -> Stamps \cup {NoRef}] /\ polls \in [PollIds -> AnswerType]
      /\ fails \in 0..MaxFails /\ shown \in [Cards -> Stamps]
  BY <1>1 DEF AnswerTypes, BrowserTypes
<1>3. 0 \in Stamps /\ NoAnswer \in AnswerType
  <2>1. 0 \in Stamps /\ NoAnswer.board \in BoardNames
    BY BoundsAssumption DEF Stamps, BoardNames
  <2> QED
    BY <2>1, NewAnswers
<1>4. fails < MaxFails => fails + 1 \in 0..MaxFails
  BY <1>2, BoundsAssumption
<1>5. NoModal \in ModalType
  BY <1>3 DEF NoModal, ModalType
<1>6. CASE LoadFails
  BY <1>1, <1>2, <1>4, <1>6, QuietAction DEF LoadFails
<1>7. CASE CloseModal
  BY <1>1, <1>2, <1>5, <1>7, QuietAction DEF CloseModal
<1>8. CASE Saved
  BY <1>1, <1>2, <1>5, <1>8, QuietAction DEF Saved
<1>9. CASE SaveFails
  <2>1. modal' \in ModalType
    BY <1>1, <1>9 DEF SaveFails, ModalType
  <2> QED
    BY <1>1, <1>2, <1>4, <1>9, <2>1, QuietAction DEF SaveFails
<1>10. ASSUME NEW b \in Boards, Refresh(b) PROVE Inductive'
  <2>1. /\ UNCHANGED <<table, underway, now, shown, since, modal, fails, overtaken, missed>>
        /\ \/ load' = AskAll /\ UNCHANGED polls
           \/ since[b] # NoRef /\ Poll(b) /\ UNCHANGED load
    BY <1>10 DEF Refresh
  <2>2. CASE load' = AskAll /\ UNCHANGED polls
    BY <1>1, <1>2, <2>1, <2>2, QuietAction
  <2>3. CASE since[b] # NoRef /\ Poll(b) /\ UNCHANGED load
    <3>1. /\ polls' \in [PollIds -> AnswerType]
          /\ \A i \in PollIds :
                \/ polls'[i] = polls[i]
                \/ /\ AnswerOK(polls'[i]) /\ polls'[i].st = "asked" /\ polls'[i].torn = {}
                   /\ polls'[i].board = b /\ polls'[i].since = since[b]
      BY <1>1, <2>3, Polled
    <3> QED
      BY <1>1, <1>2, <2>1, <2>3, <3>1, QuietAction
  <2> QED
    BY <2>1, <2>2, <2>3
<1>11. ASSUME NEW i \in PollIds, RefreshFails(i) PROVE Inductive'
  <2>1. /\ since' = [since EXCEPT ![polls[i].board] = NoRef]
        /\ fails < MaxFails /\ fails' = fails + 1
        /\ load' = AskAll /\ polls' = [polls EXCEPT ![i] = NoAnswer]
        /\ UNCHANGED <<table, underway, now, shown, modal, overtaken, missed>>
    BY <1>11 DEF RefreshFails
  <2>2. /\ since' \in [Boards -> Stamps \cup {NoRef}]
        /\ \A b \in Boards : since'[b] = since[b] \/ since'[b] = NoRef
    BY <1>2, <2>1
  <2>3. /\ polls' \in [PollIds -> AnswerType]
        /\ \A j \in PollIds : polls'[j] \in {polls[j], NoAnswer}
    BY <1>2, <1>3, <2>1
  <2> QED
    BY <1>1, <1>4, <2>1, <2>2, <2>3, QuietAction
<1>12. ASSUME NEW c \in Cards \cup {NoCard}, OpenModal(c) PROVE Inductive'
  <2>1. modal' \in ModalType
    BY <1>2, <1>3, <1>12 DEF OpenModal, ModalType
  <2> QED
    BY <1>1, <1>2, <1>12, <2>1, QuietAction DEF OpenModal
<1>13. CASE UNCHANGED vars
  BY <1>1, <1>2, <1>13, QuietAction DEF vars
<1> QED
  BY <1>6, <1>7, <1>8, <1>9, <1>10, <1>11, <1>12, <1>13

LEMMA InductiveInit == Init => Inductive
<1> SUFFICES ASSUME Init PROVE Inductive
  OBVIOUS
<1>1. 0 \in Stamps /\ MaxTime \in Nat /\ 0 \in 0..MaxFails
  BY BoundsAssumption DEF Stamps
<1>2. Absent \in Row /\ Absent.stamp = 0 /\ Shown(Absent) = 0
  BY <1>1 DEF Absent, Row, Shown
<1>3. /\ \A c \in Cards : table[c] = Absent /\ underway[c] = 0 /\ shown[c] = 0
      /\ \A b \in Boards : since[b] = NoRef
      /\ now = 0 /\ load = AskAll /\ \A i \in PollIds : polls[i] = NoAnswer
  BY DEF Init
<1>4. ServerTypes
  BY <1>1, <1>2, <1>3 DEF Init, ServerTypes
<1>5. NoModal \in ModalType
  BY <1>1 DEF NoModal, ModalType
<1>6. BrowserTypes
  BY <1>1, <1>3, <1>5 DEF Init, BrowserTypes
<1>7. /\ NoAnswer \in AnswerType /\ NoAnswer.st = "none" /\ AskAll.st = "asked"
      /\ NoAnswer.torn = {} /\ AskAll.torn = {}
      /\ AnswerOK(NoAnswer) /\ AnswerOK(AskAll)
  BY <1>1, <1>3, NewAnswers, NewAnswersOK DEF BoardNames
<1>8. \A a \in Answers : a \in {NoAnswer, AskAll}
  BY <1>3 DEF Answers
<1>9. AnswerTypes
  BY <1>3, <1>7, <1>8 DEF Init, AnswerTypes
<1>10. \A a \in Answers : a.st # "read"
  BY <1>7, <1>8
<1>11. SinceKnown /\ AskedKnown /\ SilenceKnown
  BY <1>3, <1>7 DEF SinceKnown, AskedKnown, SilenceKnown
<1>12. AnswersRight /\ LaterRight /\ ReadNow
  BY <1>10 DEF AnswersRight, LaterRight, ReadNow, Pending, Holds
<1>13. OvertakenKnown /\ Unseen
  BY <1>3, <1>7, <1>10 DEF OvertakenKnown, Unseen, Passed
<1> QED
  BY <1>4, <1>6, <1>9, <1>11, <1>12, <1>13 DEF Inductive, Types

LEMMA InductiveStep == Inductive /\ [Next]_vars => Inductive'
<1> SUFFICES ASSUME Inductive, [Next]_vars PROVE Inductive'
  OBVIOUS
<1>1. CASE \E c \in Cards : Begin(c) \/ Commit(c)
  BY <1>1, BeginStep, CommitStep
<1>2. CASE ReadLoad \/ ReadPage \/ ReadRest \/ ApplyLoad
  BY <1>2, ReadLoadStep, ReadPageStep, ReadRestStep, ApplyLoadStep
<1>3. CASE \E i \in PollIds : ReadChanges(i) \/ ApplyChanges(i)
  BY <1>3, ReadChangesStep, ApplyChangesStep
<1>4. CASE Save
  BY <1>4, SaveStep
<1>5. CASE \/ LoadFails \/ CloseModal \/ Saved \/ SaveFails
           \/ \E b \in Boards : Refresh(b)
           \/ \E i \in PollIds : RefreshFails(i)
           \/ \E c \in Cards \cup {NoCard} : OpenModal(c)
           \/ UNCHANGED vars
  BY <1>5, OtherStep
<1> QED
  BY <1>1, <1>2, <1>3, <1>4, <1>5 DEF Next

LEMMA InductiveAlways == Spec => []Inductive
BY InductiveInit, InductiveStep, PTL DEF Spec

-----------------------------------------------------------------------------
(* Theorems *)

\* The rows, the boards and the answers keep their types, and no answer is of a time
\* to come.
THEOREM TypeCorrect == Spec => []TypeOK
<1>1. Inductive => TypeOK
  <2> SUFFICES ASSUME Inductive PROVE TypeOK
    OBVIOUS
  <2>1. Types /\ Ranges
    BY Numbers DEF Inductive
  <2>2. ASSUME NEW a \in {load} \cup {polls[i] : i \in PollIds}
        PROVE  /\ a.st \in {"none", "asked", "paged", "read"} /\ a.at \in 0..now /\ a.since \in 0..now
               /\ DOMAIN a.rows \subseteq Cards /\ a.torn \subseteq Cards
    BY <2>1 DEF Ranges, Answers, AnswerType
  <2>3. \A a \in {load} \cup {polls[i] : i \in PollIds} :
          /\ a.st \in {"none", "asked", "paged", "read"} /\ a.at \in 0..now /\ a.since \in 0..now
          /\ DOMAIN a.rows \subseteq Cards /\ a.torn \subseteq Cards
    BY <2>2
  <2>4. modal.st \in {"none", "open", "saved"} /\ modal.card \in Cards \cup {NoCard}
    BY <2>1 DEF Types, BrowserTypes, ModalType
  <2> QED
    BY <2>1, <2>3, <2>4 DEF Types, ServerTypes, BrowserTypes, Row, TypeOK
<1> QED
  BY <1>1, InductiveAlways, PTL

\* A card the browser shows wrong is one the next poll of its board asks for, or its
\* board will be loaded anew, except in four cases, each of which the model counts as
\* it happens: a change committed after a reading its stamp precedes, an answer
\* displayed after a more recent one, a change between the reading of an empty board
\* and its display, and one between two pages of a full load (useEmuWorkspace,
\* GetWorkSessionChanges, GetPlanTaskChanges).
THEOREM NothingIsMissed == Spec => []NothingMissed
<1>1. Inductive => NothingMissed
  <2> SUFFICES ASSUME Inductive, NEW c \in Cards, shown[c] # Shown(table[c]), c \notin missed,
                      since[BoardOf[c]] # NoRef
               PROVE  table[c].stamp > since[BoardOf[c]]
    BY DEF NothingMissed
  <2>1. BoardOf[c] \in Boards /\ c \in Of(BoardOf[c])
    BY CardsAssumption DEF Of
  <2>2. ~(table[c].stamp <= since[BoardOf[c]])
    BY <2>1 DEF Inductive, SinceKnown, Known
  <2>3. Ranges
    BY Numbers DEF Inductive
  <2> QED
    BY <2>1, <2>2, <2>3 DEF Ranges
<1> QED
  BY <1>1, InductiveAlways, PTL
=============================================================================
