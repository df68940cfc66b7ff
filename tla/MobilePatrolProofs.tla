------------------------- MODULE MobilePatrolProofs -------------------------
(***************************************************************************)
(* Theorems about MobilePatrol, for any number of assignments, commands    *)
(* and moves of the dispatcher: revisions never run ahead of the server,   *)
(* a patrol has one report under way, a report keeps its patrol, and what  *)
(* is completed was completed as planned.                                  *)
(*                                                                         *)
(* Answers are applied, and commands handled, by recursive functions over  *)
(* a sequence.  The library's induction theorems take an operator; here a  *)
(* least counterexample takes their place.                                 *)
(***************************************************************************)
EXTENDS MobilePatrol, FiniteSetTheorems, WellFoundedInduction, TLAPS

-----------------------------------------------------------------------------
(* Induction *)

LEMMA LeastNumber ==
    ASSUME NEW T \in SUBSET Nat, T # {}
    PROVE  \E m \in T : \A k \in T : m <= k
<1>1. PICK m \in T : \A k \in T : <<k, m>> \notin OpToRel(<, Nat)
  BY NatLessThanWellFounded, WFMin
<1>2. \A k \in T : ~(k < m)
  BY <1>1 DEF OpToRel
<1> QED
  BY <1>2

\* What holds of 0 and of the successor of whatever it holds of, up to n,
\* holds of n.
LEMMA Climb ==
    ASSUME NEW n \in Nat, NEW T \in SUBSET (0 .. n), 0 \in T,
           \A k \in 1 .. n : k - 1 \in T => k \in T
    PROVE  n \in T
<1> DEFINE Missed == (0 .. n) \ T
<1> SUFFICES ASSUME Missed # {} PROVE FALSE
  OBVIOUS
<1>0. Missed \in SUBSET Nat
  OBVIOUS
<1> HIDE DEF Missed
<1>1. PICK m \in Missed : \A k \in Missed : m <= k
  BY <1>0, LeastNumber
<1> USE DEF Missed
<1>2. m \in 1 .. n
  BY <1>1
<1>3. m - 1 \in 0 .. n /\ m - 1 \notin Missed
  BY <1>1, <1>2
<1> QED
  BY <1>1, <1>2, <1>3

\* G takes the steps of a recursion in S; h is the run of n of them from s.
StepFunction(G, S, n) == G \in [S \X (1 .. n) -> S]

StepsFrom(h, S, s, G, n) ==
    /\ h \in [0 .. n -> S]
    /\ h[0] = s
    /\ \A k \in 1 .. n : h[k] = G[<<h[k - 1], k>>]

\* A function defined by recursion over 0 .. n is there.
LEMMA StepsExist ==
    ASSUME NEW S, NEW n, n \in Nat, NEW G, StepFunction(G, S, n), NEW s, s \in S
    PROVE  \E h : StepsFrom(h, S, s, G, n)
<1>0. G \in [S \X (1 .. n) -> S]
  BY DEF StepFunction
<1> DEFINE Steps(h, m) == h[0] = s /\ \A k \in 1 .. m : h[k] = G[<<h[k - 1], k>>]
           T == {m \in 0 .. n : \E h \in [0 .. m -> S] : Steps(h, m)}
<1>1. 0 \in T
  <2> DEFINE h == [k \in 0 .. 0 |-> s]
  <2>1. h \in [0 .. 0 -> S] /\ Steps(h, 0)
    OBVIOUS
  <2> HIDE DEF h, Steps
  <2> QED
    BY <2>1
<1>2. ASSUME NEW m \in 1 .. n, m - 1 \in T PROVE m \in T
  <2>1. PICK h \in [0 .. (m - 1) -> S] : Steps(h, m - 1)
    BY <1>2
  <2> DEFINE x == G[<<h[m - 1], m>>]
             g == [k \in 0 .. m |-> IF k = m THEN x ELSE h[k]]
  <2>2. h[m - 1] \in S /\ x \in S
    BY <1>0, <2>1
  <2>3. g \in [0 .. m -> S]
    BY <2>1, <2>2
  <2>4. g[0] = s
    BY <2>1
  <2>5. ASSUME NEW k \in 1 .. m PROVE g[k] = G[<<g[k - 1], k>>]
    <3>1. k - 1 \in 0 .. (m - 1) /\ g[k - 1] = h[k - 1]
      OBVIOUS
    <3>2. CASE k = m
      <4>1. g[k] = x
        BY <3>2
      <4> QED
        BY <3>1, <3>2, <4>1
    <3>3. CASE k # m
      <4>1. k \in 1 .. (m - 1) /\ g[k] = h[k]
        BY <3>3
      <4> QED
        BY <2>1, <3>1, <4>1
    <3> QED
      BY <3>2, <3>3
  <2>6. Steps(g, m)
    BY <2>4, <2>5
  <2> HIDE DEF g, Steps
  <2> QED
    BY <2>3, <2>6
<1> HIDE DEF T
<1>3. n \in T
  BY <1>1, <1>2, Climb DEF T
<1> QED
  BY <1>3 DEF T, StepsFrom

-----------------------------------------------------------------------------
(* The inductive invariant *)

Commands == DOMAIN outbox

\* The commands of a patrol somebody has begun to walk, and what they make of
\* it.
Working == {"start", "pause", "resume", "handoff", "complete"}
Begun == {"inProgress", "paused"}

\* Locks, revisions and answers without their bound.
Rows == [status : Active \cup Terminal \cup {"none"}, rev : Nat,
         started : BOOLEAN]
ServerRows == [status : Live \cup {"none"}, lock : Nat, started : BOOLEAN]
SomeAnswer == [status : Good \cup Bad, rev : Nat, late : BOOLEAN]

\* i may come into being yet: the acceptance it was drawn for is unanswered.
Drawn(i) ==
    \E n \in Commands : /\ outbox[n].op = "accept"
                        /\ outbox[n].id = i
                        /\ known[n] = NoAnswer

\* The assignments the employee has given a command about.
Used == {outbox[n].id : n \in Commands}

Lengths ==
    /\ Len(outbox) <= MaxCommands
    /\ run.phase \in {"idle", "ready"} => run.batch = <<>>
    /\ \A k \in DOMAIN run.batch : run.batch[k] \in Commands
    /\ boot = <<>> \/ Len(boot) = 1

\* An answer on its way agrees with the one recorded.
AnswersMatch ==
    run.phase = "answered" =>
       /\ Len(run.answers) = Len(run.batch)
       /\ \A k \in DOMAIN run.batch :
             /\ run.answers[k].status \in Good
                   => known[run.batch[k]].status \in Good
             /\ run.answers[k].rev = known[run.batch[k]].rev

\* A lock_version counts changes: one for each answer, one for each move.
AnsweredIn(ops) == {n \in Commands : ops[n] # NoAnswer}

Counted ==
    /\ \A i \in Ids : asg[i].lock <= moves + Cardinality(AnsweredIn(known))
    /\ \A n \in Commands :
          known[n].rev <= moves + Cardinality(AnsweredIn(known))

\* The phone is behind the server, and so is what it is yet to be told.
AnswersBehind ==
    \A n \in Commands :
        /\ known[n].status \in Good
        /\ asg[outbox[n].id].status # "none"
        => known[n].rev <= asg[outbox[n].id].lock

BootBehind ==
    boot # <<>> =>
       \A i \in Ids : /\ boot[1][i].status # "none"
                      /\ asg[i].status # "none"
                      => boot[1][i].lock <= asg[i].lock

\* An id is drawn once.
OneAccept ==
    \A n, m \in Commands :
        /\ outbox[n].op = "accept"
        /\ outbox[m].op = "accept"
        /\ outbox[n].id = outbox[m].id
        => n = m

\* Before its acceptance is answered, an assignment has no revision anywhere.
UnbornHasNoRevision ==
    \A i \in Ids : Drawn(i) =>
        /\ asg[i].status = "none"
        /\ row[i].rev = 0
        /\ boot # <<>> => boot[1][i].status = "none"
        /\ \A n \in Commands : outbox[n].id = i
              => outbox[n].base = 0 /\ known[n].status \notin Good

\* An id that is not in use is new everywhere.
UnusedIsNew ==
    \A i \in Ids \ Used : asg[i].status = "none" =>
        /\ row[i] = Absent
        /\ boot # <<>> => boot[1][i].status = "none"

\* A patrol under way is marked as started, for good: it cannot be returned.
BegunIsStarted ==
    /\ \A i \in Ids :
          /\ row[i].status \in Begun => row[i].started
          /\ asg[i].status \in Begun => asg[i].started
          /\ boot # <<>> => (boot[1][i].status \in Begun => boot[1][i].started)
    /\ \A i \in submitting : row[i].started /\ row[i].status # "none"
    /\ \A n \in Commands : outbox[n].op \in Working =>
          row[outbox[n].id].started /\ row[outbox[n].id].status # "none"

\* What is on its way stays under way; a report never goes with another
\* command of its patrol.
BatchKept ==
    \A n \in Range(run.batch) :
        /\ outbox[n].status \in {"sending"} \cup Good
        /\ outbox[n].op = "complete" =>
              \A m \in Range(run.batch) :
                 outbox[n].id = outbox[m].id => outbox[m].op = "complete"

OneReport == \A i \in Ids : \A n, m \in QueuedReports(i) : n = m

\* A report accepted in time.
OnTime(n, a) ==
    outbox[n].op = "complete" /\ a.status = "accepted" /\ ~a.late

\* ... closes its patrol for good.
CompletedForGood ==
    \A n \in Commands : OnTime(n, known[n]) =>
        /\ asg[outbox[n].id].status = "completed"
        /\ outbox[n].id \in reported
        /\ outbox[n].base + 1 = asg[outbox[n].id].lock

Shape == TypeOK /\ Lengths /\ AnswersMatch /\ Counted
Behind == RevisionNeverAhead /\ AnswersBehind /\ BootBehind
Draws == OneAccept /\ UnbornHasNoRevision /\ UnusedIsNew

Inductive ==
    /\ Shape
    /\ Behind
    /\ Draws
    /\ BegunIsStarted
    /\ BatchKept
    /\ OneReport
    /\ CompletedForGood

-----------------------------------------------------------------------------
(* Applying answers *)

LEMMA RowAfterType ==
    ASSUME NEW r \in Rows, r.status # "none", NEW op \in Ops, NEW a \in SomeAnswer
    PROVE  LET x == RowAfter(r, op, a) IN
           /\ x \in Rows
           /\ x.started = r.started
           /\ x.status # "none"
           /\ x.rev = r.rev \/ (x.rev = a.rev /\ a.status \in Good)
           /\ x.status \in Begun =>
                 r.status \in Begun \/ op \in Working
<1>1. CASE a.status \in Good
  <2>1. CASE op = "complete"
    BY <1>1, <2>1 DEF RowAfter, Rows, Active, Terminal, Begun, Working
  <2>2. CASE op = "release"
    BY <1>1, <2>2 DEF RowAfter, Rows, Begun
  <2>3. CASE op \notin {"complete", "release"}
    <3>1. RowAfter(r, op, a) = [r EXCEPT !.status = StatusAfter(op), !.rev = a.rev]
      BY <1>1, <2>3 DEF RowAfter
    <3>2. /\ StatusAfter(op) \in Active
          /\ StatusAfter(op) # "none"
          /\ StatusAfter(op) \in Begun => op \in Working
      BY <2>3 DEF StatusAfter, Ops, Active, Begun, Working
    <3> QED
      BY <1>1, <3>1, <3>2 DEF Rows, SomeAnswer
  <2> QED
    BY <2>1, <2>2, <2>3
<1>2. CASE a.status \notin Good
  <2>1. CASE op = "accept"
    BY <1>2, <2>1 DEF RowAfter, Begun
  <2>2. CASE op # "accept"
    BY <1>2, <2>2 DEF RowAfter, Rows, Active, Begun
  <2> QED
    BY <2>1, <2>2
<1> QED
  BY <1>1, <1>2

\* What the phone may make of its rows: it loses none, none that is started
\* is so no more, and none is ahead of the server.
Tame(rows) ==
    /\ rows \in [Ids -> Rows]
    /\ \A i \in Ids :
          /\ row[i].started => rows[i].started
          /\ row[i].status # "none" => rows[i].status # "none"
          /\ i \notin Used /\ asg[i].status = "none" => rows[i] = row[i]
          /\ rows[i].status \in Begun => rows[i].started
          /\ asg[i].status # "none" => rows[i].rev <= asg[i].lock
          /\ Drawn(i) => rows[i].rev = 0
          /\ rows[i].rev \in Locks

LEMMA CommandType ==
    ASSUME TypeOK, NEW n \in Commands
    PROVE  /\ n \in Nat
           /\ outbox[n] \in [op : Ops, id : Ids, base : Locks,
                             status : {"pending", "sending"} \cup Good \cup Bad]
           /\ outbox[n].op \in Ops
           /\ outbox[n].id \in Ids
           /\ outbox[n].base \in Nat
           /\ outbox[n].id \in Used
           /\ known[n] \in Answer \cup {NoAnswer}
<1> DEFINE R == [op : Ops, id : Ids, base : Locks,
                 status : {"pending", "sending"} \cup Good \cup Bad]
           A == Answer \cup {NoAnswer}
<1>1. outbox \in Seq(R) /\ known \in Seq(A) /\ Len(known) = Len(outbox)
  BY DEF TypeOK
<1>2. outbox[n] \in R /\ known[n] \in A /\ n \in Nat
  <2> HIDE DEF R, A
  <2> QED
    BY <1>1 DEF Commands
<1>3. outbox[n].base \in Nat
  BY <1>2, ConstantsAssumption DEF Locks
<1> QED
  BY <1>2, <1>3 DEF Used

LEMMA RowIsTame ==
    ASSUME Inductive PROVE Tame(row)
<1>1. row \in [Ids -> Rows] /\ \A i \in Ids : row[i].rev \in Locks
  BY ConstantsAssumption DEF Inductive, Shape, TypeOK, Rows, Locks
<1> QED
  BY <1>1 DEF Inductive, Behind, RevisionNeverAhead, Draws, UnbornHasNoRevision,
              BegunIsStarted, Tame

\* The answer a may be applied to command n: it is one the server recorded.
Recorded(n, a) ==
    /\ a \in SomeAnswer
    /\ a.rev \in Locks
    /\ a.status \in Good => known[n].status \in Good /\ a.rev = known[n].rev

LEMMA UpdatedIsTame ==
    ASSUME Inductive, NEW rows, Tame(rows), NEW n \in Commands, NEW a, Recorded(n, a)
    PROVE  Tame(Updated(rows, outbox[n], a))
<1> DEFINE c == outbox[n]
           j == c.id
           x == RowAfter(rows[j], c.op, a)
<1>1. c.op \in Ops /\ j \in Ids /\ j \in Used
  BY CommandType DEF Inductive, Shape
<1>2. CASE rows[j].status = "none"
  BY <1>2 DEF Updated
<1>3. CASE rows[j].status # "none"
  <2>1. Updated(rows, c, a) = [rows EXCEPT ![j] = x]
    BY <1>3 DEF Updated
  <2>2. rows[j] \in Rows /\ a \in SomeAnswer
    BY <1>1 DEF Tame, Recorded
  <2>3. /\ x \in Rows
        /\ x.started = rows[j].started
        /\ x.status # "none"
        /\ x.rev = rows[j].rev \/ (x.rev = a.rev /\ a.status \in Good)
        /\ x.status \in Begun => rows[j].status \in Begun \/ c.op \in Working
    BY <1>1, <1>3, <2>2, RowAfterType
  <2> HIDE DEF x
  <2>4. x.status \in Begun => x.started
    <3>1. c.op \in Working => row[j].started
      BY <1>1 DEF Inductive, BegunIsStarted
    <3> QED
      BY <1>1, <2>3, <3>1 DEF Tame
  <2>5. asg[j].status # "none" => x.rev <= asg[j].lock
    <3>1. known[n].status \in Good /\ asg[j].status # "none" => known[n].rev <= asg[j].lock
      BY DEF Inductive, Behind, AnswersBehind
    <3> QED
      BY <1>1, <2>3, <3>1 DEF Tame, Recorded
  <2>6. Drawn(j) => x.rev = 0
    <3>1. Drawn(j) => known[n].status \notin Good
      BY <1>1 DEF Inductive, Draws, UnbornHasNoRevision
    <3> QED
      BY <1>1, <2>3, <3>1 DEF Tame, Recorded
  <2>7. x.rev \in Locks
    BY <1>1, <2>3 DEF Tame, Recorded
  <2>8. Tame([rows EXCEPT ![j] = x])
    BY <1>1, <1>3, <2>3, <2>4, <2>5, <2>6, <2>7 DEF Tame
  <2> QED
    BY <2>1, <2>8
<1> QED
  BY <1>2, <1>3

LEMMA AppliedIsTame ==
    ASSUME Inductive, NEW s, Len(s) \in Nat, NEW a,
           \A k \in 1 .. Len(s) : s[k] \in Commands /\ Recorded(s[k], a[k])
    PROVE  Tame(Applied(s, a))
<1> DEFINE n == Len(s)
           S == {rows \in [Ids -> Rows] : Tame(rows)}
           G == [x \in S \X (1 .. n) |-> Updated(x[1], outbox[s[x[2]]], a[x[2]])]
           IsRun(f) == f = [k \in 0 .. n |->
                              IF k = 0 THEN row
                              ELSE Updated(f[k - 1], outbox[s[k]], a[k])]
<1>1. row \in S
  BY RowIsTame DEF Tame
<1>2. ASSUME NEW r \in S, NEW k \in 1 .. n PROVE Updated(r, outbox[s[k]], a[k]) \in S
  <2>1. Tame(Updated(r, outbox[s[k]], a[k]))
    BY UpdatedIsTame
  <2> QED
    BY <2>1 DEF Tame
<1>3. G \in [S \X (1 .. n) -> S]
  BY <1>2
<1> HIDE DEF S, G, n
<1>4. PICK h \in [0 .. n -> S] :
         h[0] = row /\ \A k \in 1 .. n : h[k] = G[<<h[k - 1], k>>]
  <2>1. n \in Nat
    BY DEF n
  <2>2. PICK S1, G1, row1 : S1 = S /\ G1 = G /\ row1 = row
    OBVIOUS
  <2>3. StepFunction(G1, S1, n) /\ row1 \in S1
    BY <1>1, <1>3, <2>2 DEF StepFunction
  <2>4. PICK h : StepsFrom(h, S1, row1, G1, n)
    BY <2>1, <2>3, StepsExist
  <2> QED
    BY <2>2, <2>4 DEF StepsFrom
<1> USE DEF n
<1>5. IsRun(h)
  <2>1. ASSUME NEW k \in 1 .. n PROVE G[<<h[k - 1], k>>] = Updated(h[k - 1], outbox[s[k]], a[k])
    <3>1. h[k - 1] \in S
      OBVIOUS
    <3> QED
      BY <3>1 DEF G
  <2>2. ASSUME NEW k \in 0 .. n
        PROVE  h[k] = IF k = 0 THEN row
                      ELSE Updated(h[k - 1], outbox[s[k]], a[k])
    <3>1. CASE k = 0
      BY <1>4, <3>1
    <3>2. CASE k # 0
      <4>1. k \in 1 .. n
        BY <3>2
      <4> QED
        BY <1>4, <2>1, <3>2, <4>1
    <3> QED
      BY <3>1, <3>2
  <2> QED
    BY <2>2
<1> DEFINE w == CHOOSE f : IsRun(f)
<1>6. IsRun(w)
  BY <1>5
<1>7. Applied(s, a) = w[n]
  BY DEF Applied
<1> HIDE DEF w, IsRun
<1>8. w[0] = row /\ \A k \in 1 .. n : w[k] = Updated(w[k - 1], outbox[s[k]], a[k])
  BY <1>6 DEF IsRun
<1> DEFINE T == {k \in 0 .. n : w[k] \in S}
<1>9. n \in T
  <2>1. T \in SUBSET (0 .. n) /\ 0 \in T
    BY <1>1, <1>8
  <2>2. ASSUME NEW k \in 1 .. n, k - 1 \in T PROVE k \in T
    BY <1>2, <1>8, <2>2
  <2> HIDE DEF T
  <2> QED
    BY <2>1, <2>2, Climb
<1> QED
  BY <1>7, <1>9 DEF S

-----------------------------------------------------------------------------
(* Steps of the phone that queue no command *)

CommandSet == [op : Ops, id : Ids, base : Locks,
               status : {"pending", "sending"} \cup Good \cup Bad]

\* Commands change their status only, and no report is put under way.
Relabels ==
    /\ outbox' \in [Commands -> CommandSet]
    /\ \A n \in Commands :
          /\ outbox'[n].op = outbox[n].op
          /\ outbox'[n].id = outbox[n].id
          /\ outbox'[n].base = outbox[n].base
          /\ outbox[n].status \in Bad => outbox'[n].status \in Bad

\* The run goes on with its batch, has none, or takes one.
RunMoves ==
    /\ run' \in [phase : {"idle", "ready", "posted", "answered"},
                 batch : Seq(1 .. MaxCommands), answers : Seq(Answer)]
    /\ \/ run' = run
       \/ run'.phase # "answered"
    /\ run'.phase \in {"idle", "ready"} => run'.batch = <<>>
    /\ \A k \in DOMAIN run'.batch : run'.batch[k] \in Commands
    /\ BatchKept'

PhoneKeeps ==
    /\ Tame(row')
    /\ offered' \in BOOLEAN
    /\ \A i \in submitting' :
          i \in Ids /\ row[i].started /\ row[i].status # "none"
    /\ boot' \in {boot, <<>>}
    /\ UNCHANGED serverVars

LEMMA PhoneStep ==
    ASSUME Inductive, Relabels, RunMoves, PhoneKeeps
    PROVE  Inductive'
<1>0. TypeOK /\ asg' = asg /\ reported' = reported /\ known' = known /\ moves' = moves
  BY DEF Inductive, Shape, PhoneKeeps, serverVars
<1>1. /\ Commands' = Commands
      /\ DOMAIN outbox' = DOMAIN outbox
      /\ Len(outbox') = Len(outbox)
      /\ outbox' \in Seq(CommandSet)
  <2> HIDE DEF CommandSet
  <2>1. outbox \in Seq(CommandSet)
    BY <1>0 DEF TypeOK, CommandSet
  <2>2. Commands = 1 .. Len(outbox) /\ Len(outbox) \in Nat
    BY <2>1 DEF Commands
  <2>3. outbox' \in [1 .. Len(outbox) -> CommandSet]
    BY <2>2 DEF Relabels
  <2>4. outbox' \in Seq(CommandSet)
    BY <2>2, <2>3
  <2> QED
    BY <2>2, <2>3, <2>4 DEF Commands
<1>2. /\ \A i \in Ids : Drawn(i)' <=> Drawn(i)
      /\ Used' = Used
      /\ \A n \in Commands : /\ outbox'[n].op = outbox[n].op
                             /\ outbox'[n].id = outbox[n].id
                             /\ outbox'[n].base = outbox[n].base
                             /\ outbox[n].id \in Ids
  <2>1. \A n \in Commands : /\ outbox'[n].op = outbox[n].op
                             /\ outbox'[n].id = outbox[n].id
                             /\ outbox'[n].base = outbox[n].base
                             /\ outbox[n].id \in Ids
    BY <1>0, CommandType DEF Relabels
  <2>2. \A i \in Ids : Drawn(i)' <=> Drawn(i)
    BY <1>0, <1>1, <2>1 DEF Drawn
  <2>3. Used' = Used
    BY <1>1, <2>1 DEF Used
  <2> QED
    BY <2>1, <2>2, <2>3
<1>3. Shape'
  <2>1. TypeOK'
    <3>1. row' \in [Ids -> [status : Active \cup Terminal \cup {"none"},
                            rev : Locks, started : BOOLEAN]]
      BY DEF PhoneKeeps, Tame, Rows
    <3>2. submitting' \subseteq Ids
      BY DEF PhoneKeeps
    <3>3. boot' \in Seq([Ids -> [status : Live \cup {"none"}, lock : Locks,
                                 started : BOOLEAN]])
      <4> DEFINE B == [Ids -> [status : Live \cup {"none"}, lock : Locks,
                              started : BOOLEAN]]
      <4>1. boot \in Seq(B)
        BY <1>0 DEF TypeOK
      <4> HIDE DEF B
      <4>2. <<>> \in Seq(B) /\ (boot' = boot \/ boot' = <<>>)
        BY DEF PhoneKeeps
      <4>3. boot' \in Seq(B)
        BY <4>1, <4>2
      <4> QED
        BY <4>3 DEF B
    <3> QED
      BY <1>0, <1>1, <3>1, <3>2, <3>3 DEF PhoneKeeps, RunMoves, TypeOK, CommandSet
  <2>2. Lengths'
    BY <1>1 DEF Inductive, Shape, Lengths, RunMoves, PhoneKeeps
  <2>3. AnswersMatch'
    BY <1>0 DEF Inductive, Shape, AnswersMatch, RunMoves
  <2>4. Counted'
    BY <1>0, <1>1 DEF Inductive, Shape, Counted, AnsweredIn
  <2> QED
    BY <2>1, <2>2, <2>3, <2>4 DEF Shape
<1>4. Behind'
  <2>1. RevisionNeverAhead'
    BY <1>0, <1>1, <1>2 DEF Inductive, Behind, RevisionNeverAhead, PhoneKeeps, Tame, Commands
  <2>2. AnswersBehind'
    BY <1>0, <1>1, <1>2 DEF Inductive, Behind, AnswersBehind
  <2>3. BootBehind'
    BY <1>0 DEF Inductive, Behind, BootBehind, PhoneKeeps
  <2> QED
    BY <2>1, <2>2, <2>3 DEF Behind
<1>5. Draws'
  <2>1. OneAccept'
    BY <1>1, <1>2 DEF Inductive, Draws, OneAccept
  <2>2. UnbornHasNoRevision'
    BY <1>0, <1>1, <1>2 DEF Inductive, Draws, UnbornHasNoRevision, PhoneKeeps, Tame
  <2>3. UnusedIsNew'
    BY <1>0, <1>2 DEF Inductive, Draws, UnusedIsNew, PhoneKeeps, Tame
  <2> QED
    BY <2>1, <2>2, <2>3 DEF Draws
<1>6. BegunIsStarted'
  BY <1>0, <1>1, <1>2 DEF Inductive, BegunIsStarted, PhoneKeeps, Tame
<1>7. OneReport'
  <2>1. ASSUME NEW i \in Ids PROVE QueuedReports(i)' \in SUBSET QueuedReports(i)
    BY <1>0, <1>1, CommandType DEF Relabels, QueuedReports, Commands, Good, Bad
  <2> QED
    BY <2>1 DEF Inductive, OneReport
<1>8. CompletedForGood'
  BY <1>0, <1>1, <1>2 DEF Inductive, CompletedForGood, OnTime
<1> QED
  BY <1>3, <1>4, <1>5, <1>6, <1>7, <1>8 DEF Inductive, RunMoves

\* A step that leaves the queue and the run alone.
LEMMA QuietStep ==
    ASSUME Inductive, PhoneKeeps, UNCHANGED <<outbox, run>>
    PROVE  Inductive'
<1>1. Relabels
  <2>1. outbox \in Seq(CommandSet)
    BY DEF Inductive, Shape, TypeOK, CommandSet
  <2> HIDE DEF CommandSet
  <2>2. outbox \in [Commands -> CommandSet]
    BY <2>1 DEF Commands
  <2> QED
    BY <2>2 DEF Relabels
<1>2. RunMoves
  <2>1. BatchKept'
    BY DEF Inductive, BatchKept
  <2> QED
    BY <2>1 DEF Inductive, Shape, TypeOK, Lengths, RunMoves, Commands
<1> QED
  BY <1>1, <1>2, PhoneStep

\* A step that leaves the rows alone.
LEMMA SameRows ==
    ASSUME Inductive, UNCHANGED <<row, offered, serverVars>>,
           submitting' \in SUBSET submitting, boot' \in {boot, <<>>}
    PROVE  PhoneKeeps
<1>1. Tame(row')
  BY RowIsTame
<1>2. offered' \in BOOLEAN /\ submitting \in SUBSET Ids
  BY DEF Inductive, Shape, TypeOK
<1> QED
  BY <1>1, <1>2 DEF Inductive, BegunIsStarted, PhoneKeeps

LEMMA OpenSubmitStep ==
    ASSUME Inductive, NEW i \in Ids, OpenSubmit(i) PROVE Inductive'
<1>1. row[i].started /\ row[i].status # "none"
  BY DEF OpenSubmit, Inductive, BegunIsStarted, Begun
<1>2. Tame(row')
  BY RowIsTame DEF OpenSubmit
<1>3. PhoneKeeps
  <2>1. submitting \in SUBSET Ids /\ offered \in BOOLEAN
    BY DEF Inductive, Shape, TypeOK
  <2>2. \A j \in submitting : row[j].started /\ row[j].status # "none"
    BY DEF Inductive, BegunIsStarted
  <2> QED
    BY <1>1, <1>2, <2>1, <2>2 DEF OpenSubmit, PhoneKeeps
<1> QED
  BY <1>3, QuietStep DEF OpenSubmit

LEMMA FinalizedIsTame ==
    ASSUME Inductive PROVE Tame(Finalized)
<1>1. Tame(row)
  BY RowIsTame
<1>2. ASSUME NEW i \in Ids
      PROVE  \/ Finalized[i] = row[i]
             \/ /\ row[i].status = "completedLocal"
                /\ i \in Used
                /\ Finalized[i] = [row[i] EXCEPT !.status = "completedServer"]
  BY DEF Finalized, QueuedReports, Used, Commands
<1>3. Finalized \in [Ids -> Rows]
  <2>1. ASSUME NEW i \in Ids PROVE Finalized[i] \in Rows
    <3>1. row[i] \in Rows
      BY <1>1 DEF Tame
    <3>2. [row[i] EXCEPT !.status = "completedServer"] \in Rows
      BY <3>1 DEF Rows, Terminal
    <3> QED
      BY <1>2, <3>1, <3>2
  <2>2. Finalized = [i \in Ids |-> Finalized[i]]
    BY DEF Finalized
  <2> HIDE DEF Finalized
  <2> QED
    BY <2>1, <2>2
<1>4. ASSUME NEW i \in Ids
      PROVE  /\ Finalized[i].started = row[i].started
             /\ Finalized[i].rev = row[i].rev
             /\ Finalized[i].status = "none" <=> row[i].status = "none"
             /\ i \notin Used => Finalized[i] = row[i]
             /\ Finalized[i].status \in Begun => row[i].status \in Begun
  <2>1. row[i] \in Rows
    BY <1>1 DEF Tame
  <2> QED
    BY <1>2, <2>1 DEF Rows, Begun
<1> HIDE DEF Finalized
<1> QED
  BY <1>1, <1>3, <1>4 DEF Tame

LEMMA StartRunStep ==
    ASSUME Inductive, NEW online \in BOOLEAN, StartRun(online) PROVE Inductive'
<1>1. PhoneKeeps
  <2>1. Tame(row')
    BY FinalizedIsTame DEF StartRun
  <2>2. offered \in BOOLEAN /\ submitting \in SUBSET Ids
    BY DEF Inductive, Shape, TypeOK
  <2> QED
    BY <2>1, <2>2 DEF Inductive, BegunIsStarted, StartRun, PhoneKeeps
<1>2. Relabels
  <2>1. outbox \in Seq(CommandSet) /\ outbox' = outbox
    BY DEF Inductive, Shape, TypeOK, CommandSet, StartRun
  <2> HIDE DEF CommandSet
  <2>2. outbox \in [Commands -> CommandSet]
    BY <2>1 DEF Commands
  <2> QED
    BY <2>1, <2>2 DEF Relabels
<1>3. RunMoves
  <2>1. run.batch = <<>> /\ run'.batch = <<>> /\ run'.phase \in {"idle", "ready"}
    BY DEF Inductive, Shape, TypeOK, Lengths, StartRun
  <2>2. BatchKept'
    BY <2>1 DEF BatchKept, Range
  <2>3. run' \in [phase : {"idle", "ready", "posted", "answered"},
                  batch : Seq(1 .. MaxCommands), answers : Seq(Answer)]
    BY DEF Inductive, Shape, TypeOK, StartRun
  <2> QED
    BY <2>1, <2>2, <2>3 DEF RunMoves
<1> QED
  BY <1>1, <1>2, <1>3, PhoneStep

LEMMA QueueIsTyped ==
    ASSUME Inductive
    PROVE  /\ outbox \in [Commands -> CommandSet]
           /\ Commands \in SUBSET (1 .. MaxCommands)
           /\ Commands = 1 .. Len(outbox) /\ Len(outbox) \in Nat
           /\ Len(known) = Len(outbox)
<1>1. outbox \in Seq(CommandSet)
  BY DEF Inductive, Shape, TypeOK, CommandSet
<1>2. Len(known) = Len(outbox) /\ Len(outbox) <= MaxCommands
  BY DEF Inductive, Shape, TypeOK, Lengths
<1> HIDE DEF CommandSet
<1> QED
  BY <1>1, <1>2, ConstantsAssumption DEF Commands

\* However the commands have been answered, there are so many of them.
LEMMA AnsweredCount ==
    ASSUME Inductive, NEW ops
    PROVE  /\ IsFiniteSet(AnsweredIn(ops))
           /\ Cardinality(AnsweredIn(ops)) \in Nat
           /\ Cardinality(AnsweredIn(ops)) <= MaxCommands
<1>1. AnsweredIn(ops) \in SUBSET (1 .. MaxCommands)
  <2>1. AnsweredIn(ops) \in SUBSET Commands
    BY DEF AnsweredIn
  <2> QED
    BY <2>1, QueueIsTyped
<1>2. IsFiniteSet(1 .. MaxCommands) /\ Cardinality(1 .. MaxCommands) = MaxCommands
  BY ConstantsAssumption, FS_Interval
<1>3. /\ IsFiniteSet(AnsweredIn(ops))
      /\ Cardinality(AnsweredIn(ops)) <= Cardinality(1 .. MaxCommands)
  BY <1>1, <1>2, FS_Subset
<1> QED
  BY <1>2, <1>3, FS_CardinalityType

LEMMA RecoverStep ==
    ASSUME Inductive, Recover PROVE Inductive'
<1>1. PhoneKeeps
  BY SameRows DEF Recover
<1>2. Relabels
  <2>1. ASSUME NEW n \in Commands
        PROVE  /\ outbox'[n] \in CommandSet
               /\ outbox'[n].op = outbox[n].op
               /\ outbox'[n].id = outbox[n].id
               /\ outbox'[n].base = outbox[n].base
               /\ outbox[n].status \in Bad => outbox'[n].status \in Bad
    <3>1. outbox[n] \in CommandSet
      BY QueueIsTyped
    <3>2. outbox'[n] = IF outbox[n].status = "sending"
                       THEN [outbox[n] EXCEPT !.status = "pending"]
                       ELSE outbox[n]
      BY DEF Recover, Commands
    <3> QED
      BY <3>1, <3>2 DEF CommandSet, Bad
  <2>2. outbox' = [n \in Commands |-> outbox'[n]]
    BY DEF Recover, Commands
  <2> QED
    BY <2>1, <2>2 DEF Relabels
<1>3. RunMoves
  <2>1. run' = run /\ run.batch = <<>>
    BY DEF Recover, Inductive, Shape, Lengths
  <2>2. BatchKept'
    BY <2>1 DEF BatchKept, Range
  <2> QED
    BY <2>1, <2>2 DEF RunMoves, Inductive, Shape, TypeOK
<1> QED
  BY <1>1, <1>2, <1>3, PhoneStep

LEMMA RowType ==
    ASSUME Inductive, NEW i \in Ids
    PROVE  row[i] \in Rows /\ row[i].rev \in Nat /\ offered \in BOOLEAN
BY RowIsTame DEF Tame, Rows, Inductive, Shape, TypeOK

\* The rows keep all but their status, and none becomes one of a patrol under way.
LEMMA SessionEndsStep ==
    ASSUME Inductive, NEW unsent, SessionEnds(unsent) PROVE Inductive'
<1>1. Relabels
  <2>1. ASSUME NEW n \in Commands
        PROVE  /\ outbox'[n] \in CommandSet
               /\ outbox'[n].op = outbox[n].op
               /\ outbox'[n].id = outbox[n].id
               /\ outbox'[n].base = outbox[n].base
               /\ outbox[n].status \in Bad => outbox'[n].status \in Bad
    <3>1. outbox[n] \in CommandSet
      BY QueueIsTyped
    <3>2. outbox'[n] = IF outbox[n].status = "sending"
                       THEN [outbox[n] EXCEPT !.status = "pending"]
                       ELSE outbox[n]
      BY DEF SessionEnds, Commands
    <3> QED
      BY <3>1, <3>2 DEF CommandSet, Bad
  <2>2. outbox' = [n \in Commands |-> outbox'[n]]
    BY DEF SessionEnds, Commands
  <2> QED
    BY <2>1, <2>2 DEF Relabels
<1>2. RunMoves
  <2>1. run' = Idle
    BY DEF SessionEnds
  <2>2. BatchKept'
    BY <2>1 DEF BatchKept, Range, Idle
  <2>3. Idle \in [phase : {"idle", "ready", "posted", "answered"},
                  batch : Seq(1 .. MaxCommands), answers : Seq(Answer)]
    BY DEF Idle
  <2> QED
    BY <2>1, <2>2, <2>3 DEF RunMoves, Idle
<1>3. PICK blocked : row' = [i \in Ids |->
                     IF i \in blocked /\ row[i].status \in Unfinished
                     THEN [row[i] EXCEPT !.status = "authRequired"]
                     ELSE row[i]]
  BY DEF SessionEnds
<1>4. ASSUME NEW i \in Ids
      PROVE  /\ row'[i] \in Rows
             /\ row'[i].rev = row[i].rev /\ row'[i].started = row[i].started
             /\ row[i].status # "none" => row'[i].status # "none"
             /\ row'[i].status \in Begun => row[i].status \in Begun
             /\ row[i] = Absent => row'[i] = row[i]
  <2>1. PICK r : r = row[i]
    OBVIOUS
  <2>2. r \in Rows
    BY <2>1, RowType
  <2>3. row'[i] = IF i \in blocked /\ r.status \in Unfinished
                  THEN [r EXCEPT !.status = "authRequired"] ELSE r
    BY <1>3, <2>1
  <2> QED
    BY <2>1, <2>2, <2>3 DEF Rows, Unfinished, Begun, Active, Absent
<1>5. Tame(row')
  <2>1. Tame(row)
    BY RowIsTame
  <2>2. row' \in [Ids -> Rows]
    <3>1. row' = [i \in Ids |-> row'[i]]
      BY <1>3
    <3> HIDE DEF Rows
    <3> QED
      BY <1>4, <3>1
  <2>3. \A i \in Ids : i \notin Used /\ asg[i].status = "none" => row'[i] = row[i]
    BY <1>4 DEF Inductive, Draws, UnusedIsNew
  <2> QED
    BY <1>4, <2>1, <2>2, <2>3 DEF Tame
<1>6. PhoneKeeps
  BY <1>5 DEF SessionEnds, PhoneKeeps, Inductive, Shape, TypeOK, BegunIsStarted
<1> QED
  BY <1>1, <1>2, <1>6, PhoneStep

LEMMA EndRunStep ==
    ASSUME Inductive, EndRun PROVE Inductive'
<1>1. PhoneKeeps
  BY SameRows DEF EndRun, phoneVars
<1>2. Relabels
  BY QueueIsTyped DEF EndRun, phoneVars, Relabels
<1>3. RunMoves
  <2>1. run' = Idle
    BY DEF EndRun
  <2>2. BatchKept'
    BY <2>1 DEF BatchKept, Range, Idle
  <2>3. Idle \in [phase : {"idle", "ready", "posted", "answered"},
                  batch : Seq(1 .. MaxCommands), answers : Seq(Answer)]
    BY DEF Idle
  <2> QED
    BY <2>1, <2>2, <2>3 DEF RunMoves, Idle
<1> QED
  BY <1>1, <1>2, <1>3, PhoneStep

LEMMA KillStep ==
    ASSUME Inductive, Kill PROVE Inductive'
<1>1. PhoneKeeps
  BY SameRows DEF Kill
<1>2. Relabels
  BY QueueIsTyped DEF Kill, Relabels
<1>3. RunMoves
  <2>1. run' = Idle
    BY DEF Kill
  <2>2. BatchKept'
    BY <2>1 DEF BatchKept, Range, Idle
  <2>3. Idle \in [phase : {"idle", "ready", "posted", "answered"},
                  batch : Seq(1 .. MaxCommands), answers : Seq(Answer)]
    BY DEF Idle
  <2> QED
    BY <2>1, <2>2, <2>3 DEF RunMoves, Idle
<1> QED
  BY <1>1, <1>2, <1>3, PhoneStep

LEMMA SendStep ==
    ASSUME Inductive, Send PROVE Inductive'
<1>1. PhoneKeeps
  BY SameRows DEF Send
<1>2. Ready \in SUBSET Commands /\ IsFiniteSet(Ready)
  <2>1. Ready \in SUBSET Commands
    BY DEF Ready, Commands
  <2>2. IsFiniteSet(1 .. MaxCommands)
    BY ConstantsAssumption, FS_Interval
  <2> QED
    BY <2>1, <2>2, QueueIsTyped, FS_Subset
<1>3. ASSUME NEW n \in Commands
      PROVE  /\ outbox'[n] \in CommandSet
             /\ outbox'[n].op = outbox[n].op
             /\ outbox'[n].id = outbox[n].id
             /\ outbox'[n].base = outbox[n].base
             /\ n \in Ready => outbox'[n].status = "sending"
             /\ n \notin Ready => outbox'[n] = outbox[n]
  <2>1. outbox[n] \in CommandSet
    BY QueueIsTyped
  <2>2. outbox'[n] = IF n \in Ready
                     THEN [outbox[n] EXCEPT !.status = "sending"]
                     ELSE outbox[n]
    BY DEF Send, Commands
  <2> QED
    BY <2>1, <2>2 DEF CommandSet
<1>4. Relabels
  <2>1. outbox' = [n \in Commands |-> outbox'[n]]
    BY DEF Send, Commands
  <2>2. \A n \in Ready : outbox[n].status \notin Bad
    BY DEF Ready, Bad
  <2> QED
    BY <1>3, <2>1, <2>2 DEF Relabels
<1>5. RunMoves
  <2>1. PICK s \in Batch : run' = [phase |-> "posted", batch |-> s, answers |-> <<>>]
    BY DEF Send
  <2>2. s \in [1 .. Cardinality(Ready) -> Ready] /\ Cardinality(Ready) \in Nat
    BY <1>2, FS_CardinalityType DEF Batch, SetToSeqs
  <2>3. s \in Seq(1 .. MaxCommands)
    <3> DEFINE m == Cardinality(Ready)
               C == 1 .. MaxCommands
    <3>1. Ready \in SUBSET C
      BY <1>2, QueueIsTyped
    <3> HIDE DEF m, C
    <3>2. s \in [1 .. m -> C] /\ m \in Nat
      BY <2>2, <3>1 DEF m
    <3>3. s \in Seq(C)
      BY <3>2
    <3> QED
      BY <3>3 DEF C
  <2>4. \A k \in DOMAIN s : s[k] \in Ready
    BY <2>2
  <2>5. BatchKept'
    <3>1. \A n \in Range(s) : n \in Ready
      BY <2>4 DEF Range
    <3>2. \A n, m \in Ready : /\ outbox[n].op = "complete"
                              /\ outbox[n].id = outbox[m].id
                              => outbox[m].op = "complete"
      BY DEF Ready
    <3> QED
      BY <1>2, <1>3, <2>1, <3>1, <3>2 DEF BatchKept
  <2> QED
    BY <1>2, <2>1, <2>3, <2>4, <2>5 DEF RunMoves
<1> QED
  BY <1>1, <1>4, <1>5, PhoneStep

LEMMA RecordedAnswer ==
    ASSUME Inductive, NEW n \in Commands, known[n].status \in Good
    PROVE  Recorded(n, known[n])
<1>1. known[n] \in Answer \cup {NoAnswer}
  BY CommandType DEF Inductive, Shape
<1>2. known[n] # NoAnswer
  BY DEF NoAnswer, Good
<1> QED
  BY <1>1, <1>2, ConstantsAssumption DEF Recorded, Answer, SomeAnswer, Locks

\* The statuses of the commands numbered by s, once they are answered by a.
LEMMA StatusesType ==
    ASSUME Inductive, NEW s, NEW a, NEW n \in Commands,
           \A k \in DOMAIN s : a[k].status \in Good \cup Bad
    PROVE  LET c == StatusesWith(s, a)[n] IN
           /\ c \in CommandSet
           /\ c.op = outbox[n].op /\ c.id = outbox[n].id /\ c.base = outbox[n].base
           /\ n \notin Range(s) => c = outbox[n]
           /\ n \in Range(s) => \E k \in DOMAIN s : s[k] = n /\ c.status = a[k].status
<1>1. outbox[n] \in CommandSet
  BY QueueIsTyped
<1>2. CASE n \notin Range(s)
  BY <1>1, <1>2 DEF StatusesWith, Commands
<1>3. CASE n \in Range(s)
  <2> DEFINE k == CHOOSE j \in DOMAIN s : s[j] = n
  <2>1. k \in DOMAIN s /\ s[k] = n
    BY <1>3 DEF Range
  <2>2. StatusesWith(s, a)[n] = [outbox[n] EXCEPT !.status = a[k].status]
    BY <1>3 DEF StatusesWith, Commands
  <2> HIDE DEF k
  <2>3. a[k].status \in Good \cup Bad
    BY <2>1
  <2> QED
    BY <1>1, <1>3, <2>1, <2>2, <2>3 DEF CommandSet
<1> QED
  BY <1>2, <1>3

LEMMA InOrderType ==
    ASSUME NEW S, S \in SUBSET Commands, Inductive, NEW s \in InOrder(S)
    PROVE  /\ Len(s) \in Nat
           /\ DOMAIN s = 1 .. Len(s)
           /\ \A k \in 1 .. Len(s) : s[k] \in S
           /\ \A n \in Range(s) : n \in S
<1>1. IsFiniteSet(S)
  <2>1. IsFiniteSet(1 .. MaxCommands)
    BY ConstantsAssumption, FS_Interval
  <2> QED
    BY <2>1, QueueIsTyped, FS_Subset
<1>2. s \in [1 .. Cardinality(S) -> S] /\ Cardinality(S) \in Nat
  BY <1>1, FS_CardinalityType DEF InOrder, SetToSeqs
<1> QED
  BY <1>2 DEF Range

LEMMA ReconcileStep ==
    ASSUME Inductive, Reconcile PROVE Inductive'
<1> DEFINE S == Confirmed({n \in DOMAIN outbox :
                              /\ outbox[n].op = "complete"
                              /\ outbox[n].status \in {"pending", "sending"}})
<1>0. ASSUME NEW n \in S
      PROVE  n \in Commands /\ outbox[n].status \notin Bad /\ known[n].status \in Good
  BY DEF Confirmed, Commands, Bad
<1> HIDE DEF S
<1>1. PICK s \in InOrder(S) : Learn(s)
  BY DEF Reconcile, S
<1> DEFINE a == [k \in DOMAIN s |-> known[s[k]]]
<1>2. row' = Applied(s, a) /\ outbox' = StatusesWith(s, a)
  BY <1>1 DEF Learn
<1>3. /\ Len(s) \in Nat
      /\ DOMAIN s = 1 .. Len(s)
      /\ \A k \in 1 .. Len(s) : s[k] \in S
      /\ \A n \in Range(s) : n \in S
  <2>1. PICK S1 : S1 = S
    OBVIOUS
  <2>2. S1 \in SUBSET Commands
    BY <1>0, <2>1
  <2>3. s \in InOrder(S1)
    BY <1>1, <2>1
  <2> QED
    BY <2>1, <2>2, <2>3, InOrderType
<1>4. PICK a1 : a1 = a
  OBVIOUS
<1>5. \A k \in 1 .. Len(s) : s[k] \in Commands /\ Recorded(s[k], a1[k])
  BY <1>0, <1>3, <1>4, RecordedAnswer
<1>6. \A k \in DOMAIN s : a1[k].status \in Good
  BY <1>0, <1>3, <1>4
<1> HIDE DEF a
<1>7. Tame(row')
  BY <1>2, <1>3, <1>4, <1>5, AppliedIsTame
<1>8. PhoneKeeps
  BY <1>7 DEF Reconcile, PhoneKeeps, Inductive, Shape, TypeOK, BegunIsStarted
<1>9. ASSUME NEW n \in Commands
      PROVE  /\ outbox'[n] \in CommandSet
             /\ outbox'[n].op = outbox[n].op
             /\ outbox'[n].id = outbox[n].id
             /\ outbox'[n].base = outbox[n].base
             /\ n \notin Range(s) => outbox'[n] = outbox[n]
             /\ n \in Range(s) => outbox'[n].status \in Good /\ n \in S
  BY <1>2, <1>3, <1>4, <1>6, StatusesType
<1>10. Relabels
  <2>1. outbox' = [n \in Commands |-> outbox'[n]]
    BY <1>2 DEF StatusesWith, Commands
  <2> QED
    BY <1>0, <1>9, <2>1 DEF Relabels
<1>11. RunMoves
  <2>1. run' = run
    BY DEF Reconcile
  <2>2. \A n \in Range(run.batch) : n \in Commands
    BY DEF Inductive, Shape, Lengths, Range
  <2>3. BatchKept'
    BY <1>9, <2>1, <2>2 DEF Inductive, BatchKept
  <2> QED
    BY <2>1, <2>3 DEF Inductive, Shape, TypeOK, Lengths, RunMoves
<1> QED
  BY <1>8, <1>10, <1>11, PhoneStep

LEMMA BatchType ==
    ASSUME Inductive
    PROVE  /\ Len(run.batch) \in Nat
           /\ DOMAIN run.batch = 1 .. Len(run.batch)
           /\ \A k \in 1 .. Len(run.batch) : run.batch[k] \in Commands
           /\ \A n \in Range(run.batch) : n \in Commands /\ outbox[n].status \notin Bad
<1>1. run.batch \in Seq(1 .. MaxCommands)
  BY DEF Inductive, Shape, TypeOK
<1>2. \A k \in DOMAIN run.batch : run.batch[k] \in Commands
  BY DEF Inductive, Shape, Lengths
<1>3. \A n \in Range(run.batch) : outbox[n].status \in {"sending"} \cup Good
  BY DEF Inductive, BatchKept
<1> QED
  BY <1>1, <1>2, <1>3 DEF Range, Good, Bad

LEMMA ReceiveStep ==
    ASSUME Inductive, Receive PROVE Inductive'
<1>1. PICK s, a : s = run.batch /\ a = run.answers
  OBVIOUS
<1>2. row' = Applied(s, a) /\ outbox' = StatusesWith(s, a)
  BY <1>1 DEF Receive
<1>3. /\ Len(s) \in Nat
      /\ DOMAIN s = 1 .. Len(s)
      /\ \A k \in 1 .. Len(s) : s[k] \in Commands
      /\ \A n \in Range(s) : n \in Commands /\ outbox[n].status \notin Bad
  BY <1>1, BatchType
<1>4. ASSUME NEW k \in 1 .. Len(s) PROVE a[k] \in Answer /\ Recorded(s[k], a[k])
  <2>1. a \in Seq(Answer)
    BY <1>1 DEF Inductive, Shape, TypeOK
  <2>2. /\ Len(a) = Len(s)
        /\ a[k].status \in Good => known[s[k]].status \in Good
        /\ a[k].rev = known[s[k]].rev
    BY <1>1, <1>3 DEF Inductive, Shape, AnswersMatch, Receive
  <2>3. a[k] \in Answer
    <3> HIDE DEF Answer
    <3> QED
      BY <1>3, <2>1, <2>2
  <2> QED
    BY <2>2, <2>3, ConstantsAssumption DEF Recorded, Answer, SomeAnswer, Locks
<1>5. Tame(row')
  BY <1>2, <1>3, <1>4, AppliedIsTame
<1>6. PhoneKeeps
  BY <1>5 DEF Receive, PhoneKeeps, Inductive, Shape, TypeOK, BegunIsStarted
<1>7. \A k \in DOMAIN s : a[k].status \in Good \cup Bad
  BY <1>3, <1>4 DEF Answer
<1>8. ASSUME NEW n \in Commands
      PROVE  /\ outbox'[n] \in CommandSet
             /\ outbox'[n].op = outbox[n].op
             /\ outbox'[n].id = outbox[n].id
             /\ outbox'[n].base = outbox[n].base
             /\ n \notin Range(s) => outbox'[n] = outbox[n]
  BY <1>2, <1>7, StatusesType
<1>9. Relabels
  <2>1. outbox' = [n \in Commands |-> outbox'[n]]
    BY <1>2 DEF StatusesWith, Commands
  <2> QED
    BY <1>3, <1>8, <2>1 DEF Relabels
<1>10. RunMoves
  <2>1. run' = [Idle EXCEPT !.phase = "ready"]
    BY DEF Receive
  <2>2. BatchKept'
    BY <2>1 DEF BatchKept, Range, Idle
  <2>3. run' \in [phase : {"idle", "ready", "posted", "answered"},
                  batch : Seq(1 .. MaxCommands), answers : Seq(Answer)]
    <3>1. run' = [phase |-> "ready", batch |-> <<>>, answers |-> <<>>]
      BY <2>1 DEF Idle
    <3> QED
      BY <3>1
  <2> QED
    BY <2>1, <2>2, <2>3 DEF RunMoves, Idle
<1> QED
  BY <1>6, <1>9, <1>10, PhoneStep

LEMMA FailStep ==
    ASSUME Inductive, NEW asked \in BOOLEAN, Fail(asked) PROVE Inductive'
<1>1. PICK S : S = IF asked THEN Confirmed(Range(run.batch)) ELSE {}
  OBVIOUS
<1>2. ASSUME NEW n \in S
      PROVE  n \in Commands /\ n \in Range(run.batch) /\ known[n].status \in Good
  BY <1>1, BatchType DEF Confirmed
<1>3. PICK s \in InOrder(S) :
         /\ row' = Applied(s, [k \in DOMAIN s |-> known[s[k]]])
         /\ outbox' = [n \in DOMAIN outbox |->
                         IF n \in Range(run.batch) \ S
                         THEN [outbox[n] EXCEPT !.status = "pending"]
                         ELSE StatusesWith(s, [k \in DOMAIN s |-> known[s[k]]])[n]]
  BY <1>1 DEF Fail
<1>4. /\ Len(s) \in Nat
      /\ DOMAIN s = 1 .. Len(s)
      /\ \A k \in 1 .. Len(s) : s[k] \in S
      /\ \A n \in Range(s) : n \in S
  <2>1. S \in SUBSET Commands
    BY <1>2
  <2> QED
    BY <2>1, InOrderType
<1>5. PICK a : a = [k \in DOMAIN s |-> known[s[k]]]
  OBVIOUS
<1>6. \A k \in 1 .. Len(s) : s[k] \in Commands /\ Recorded(s[k], a[k])
  BY <1>2, <1>4, <1>5, RecordedAnswer
<1>7. \A k \in DOMAIN s : a[k].status \in Good
  BY <1>2, <1>4, <1>5
<1>8. Tame(row')
  BY <1>3, <1>4, <1>5, <1>6, AppliedIsTame
<1>9. PhoneKeeps
  BY <1>8 DEF Fail, PhoneKeeps, Inductive, Shape, TypeOK, BegunIsStarted
<1>10. ASSUME NEW n \in Commands
       PROVE  /\ outbox'[n] \in CommandSet
              /\ outbox'[n].op = outbox[n].op
              /\ outbox'[n].id = outbox[n].id
              /\ outbox'[n].base = outbox[n].base
              /\ n \notin Range(run.batch) => outbox'[n] = outbox[n]
  <2>1. CASE n \in Range(run.batch) \ S
    <3>1. outbox'[n] = [outbox[n] EXCEPT !.status = "pending"]
      BY <1>3, <2>1 DEF Commands
    <3>2. outbox[n] \in CommandSet
      BY QueueIsTyped
    <3> QED
      BY <2>1, <3>1, <3>2 DEF CommandSet
  <2>2. CASE n \notin Range(run.batch) \ S
    <3>1. outbox'[n] = StatusesWith(s, a)[n]
      BY <1>3, <1>5, <2>2 DEF Commands
    <3> QED
      BY <1>2, <1>4, <1>7, <3>1, StatusesType
  <2> QED
    BY <2>1, <2>2
<1>11. Relabels
  <2>1. outbox' = [n \in Commands |-> outbox'[n]]
    BY <1>3 DEF Commands
  <2> QED
    BY <1>10, <2>1, BatchType DEF Relabels
<1>12. RunMoves
  <2>1. run' = Idle
    BY DEF Fail
  <2>2. BatchKept'
    BY <2>1 DEF BatchKept, Range, Idle
  <2>3. Idle \in [phase : {"idle", "ready", "posted", "answered"},
                  batch : Seq(1 .. MaxCommands), answers : Seq(Answer)]
    BY DEF Idle
  <2> QED
    BY <2>1, <2>2, <2>3 DEF RunMoves, Idle
<1> QED
  BY <1>9, <1>11, <1>12, PhoneStep

-----------------------------------------------------------------------------
(* Steps of the employee that queue a command *)

\* What the queue is after Queue(op, i, r).
LEMMA QueueGrows ==
    ASSUME Inductive, NEW op \in Ops, NEW i \in Ids, NEW r, Queue(op, i, r)
    PROVE  LET last == Len(outbox) + 1 IN
           /\ last \in Nat /\ last \notin Commands /\ last <= MaxCommands
           /\ Commands' = Commands \cup {last}
           /\ Len(outbox') = last
           /\ Len(known') = last
           /\ outbox' \in Seq(CommandSet)
           /\ known' \in Seq(Answer \cup {NoAnswer})
           /\ \A n \in Commands : outbox'[n] = outbox[n] /\ known'[n] = known[n]
           /\ outbox'[last] = [op |-> op, id |-> i, base |-> row[i].rev,
                               status |-> "pending"]
           /\ known'[last] = NoAnswer
<1> DEFINE c == [op |-> op, id |-> i, base |-> row[i].rev, status |-> "pending"]
           A == Answer \cup {NoAnswer}
<1>1. /\ outbox' = Append(outbox, c)
      /\ known' = Append(known, NoAnswer)
      /\ Len(outbox) < MaxCommands
  BY DEF Queue
<1>2. outbox \in Seq(CommandSet) /\ known \in Seq(A) /\ Len(known) = Len(outbox)
  BY DEF Inductive, Shape, TypeOK, CommandSet
<1>3. c \in CommandSet
  BY DEF Inductive, Shape, TypeOK, CommandSet
<1>4. NoAnswer \in A
  OBVIOUS
<1> HIDE DEF c, A, CommandSet
<1>5. outbox' \in Seq(CommandSet) /\ known' \in Seq(A)
  BY <1>1, <1>2, <1>3, <1>4
<1>6. /\ Commands = 1 .. Len(outbox) /\ Len(outbox) \in Nat
      /\ Len(outbox') = Len(outbox) + 1 /\ Len(known') = Len(outbox) + 1
      /\ Commands' = 1 .. (Len(outbox) + 1)
  BY <1>1, <1>2, <1>3, <1>4 DEF Commands
<1>7. \A n \in Commands : outbox'[n] = outbox[n] /\ known'[n] = known[n]
  BY <1>1, <1>2, <1>3, <1>4, <1>6
<1>8. outbox'[Len(outbox) + 1] = c /\ known'[Len(outbox) + 1] = NoAnswer
  BY <1>1, <1>2, <1>3, <1>4, <1>6
<1> QED
  BY <1>1, <1>5, <1>6, <1>7, <1>8, ConstantsAssumption DEF A, c

\* What a new command must observe.
Proper(op, i, r) ==
    /\ r \in Rows
    /\ r.rev <= row[i].rev
    /\ r.status \in Begun => r.started
    /\ row[i].started /\ row[i].status # "none" => r.started /\ r.status # "none"
    /\ op \in Working => r.started /\ r.status # "none"
    /\ op = "accept" => asg[i].status = "none" /\ i \notin Used
    /\ op = "complete" => QueuedReports(i) = {}

LEMMA QueueStep ==
    ASSUME Inductive, NEW op \in Ops, NEW i \in Ids, NEW r,
           Queue(op, i, r), Proper(op, i, r),
           offered' \in BOOLEAN, submitting' = submitting
    PROVE  Inductive'
<1> DEFINE last == Len(outbox) + 1
<1>0. /\ TypeOK
      /\ run' = run /\ boot' = boot /\ asg' = asg /\ reported' = reported /\ moves' = moves
  BY DEF Inductive, Shape, Queue
<1>1. /\ last \in Nat /\ last \notin Commands /\ last <= MaxCommands
      /\ Commands' = Commands \cup {last}
      /\ Len(outbox') = last
      /\ Len(known') = last
      /\ outbox' \in Seq(CommandSet)
      /\ known' \in Seq(Answer \cup {NoAnswer})
      /\ \A n \in Commands : outbox'[n] = outbox[n] /\ known'[n] = known[n]
      /\ outbox'[last] = [op |-> op, id |-> i, base |-> row[i].rev,
                          status |-> "pending"]
      /\ known'[last] = NoAnswer
  BY QueueGrows
<1> HIDE DEF last
<1>2. /\ Tame(row)
      /\ row' = [row EXCEPT ![i] = r]
      /\ row'[i] = r
      /\ \A j \in Ids \ {i} : row'[j] = row[j]
      /\ row[i].rev \in Locks /\ r.rev \in Locks
      /\ row' \in [Ids -> Rows]
      /\ \A j \in Ids : row'[j].rev <= row[j].rev /\ row[j].rev \in Nat /\ row'[j].rev \in Nat
  <2>1. Tame(row) /\ row' = [row EXCEPT ![i] = r] /\ r \in Rows /\ r.rev <= row[i].rev
    BY RowIsTame DEF Queue, Proper
  <2>2. row \in [Ids -> Rows] /\ row[i].rev \in Locks
    BY <2>1 DEF Tame
  <2>3. r.rev \in Locks
    BY <2>1, <2>2, ConstantsAssumption DEF Rows, Locks
  <2> QED
    BY <2>1, <2>2, <2>3 DEF Rows
<1>3. Used' = Used \cup {i}
  BY <1>1 DEF Used
<1>4. \A n \in Commands : outbox[n].id \in Ids /\ outbox[n].base \in Nat
  BY <1>0, CommandType
<1>5. Shape'
  <2>1. TypeOK'
    <3>1. row' \in [Ids -> [status : Active \cup Terminal \cup {"none"},
                            rev : Locks, started : BOOLEAN]]
      <4>1. \A j \in Ids : row'[j].rev \in Locks
        BY <1>2 DEF Tame
      <4> QED
        BY <1>2, <4>1 DEF Rows
    <3> QED
      BY <1>0, <1>1, <3>1 DEF TypeOK, CommandSet
  <2>2. Lengths'
    BY <1>0, <1>1 DEF Inductive, Shape, Lengths
  <2>3. AnswersMatch'
    BY <1>0, <1>1 DEF Inductive, Shape, AnswersMatch, Lengths
  <2>4. Counted'
    <3>1. AnsweredIn(known)' = AnsweredIn(known)
      BY <1>1 DEF AnsweredIn
    <3>2. NoAnswer.rev = 0 /\ moves \in Nat /\ Cardinality(AnsweredIn(known)) \in Nat
      <4>1. Cardinality(AnsweredIn(known)) \in Nat
        BY AnsweredCount
      <4> QED
        BY <1>0, <4>1, ConstantsAssumption DEF NoAnswer, TypeOK
    <3> DEFINE K == Cardinality(AnsweredIn(known))
    <3>3. moves' + Cardinality(AnsweredIn(known)') = moves + K
      BY <1>0, <3>1
    <3>4. /\ \A j \in Ids : asg[j].lock <= moves + K
          /\ \A n \in Commands : known[n].rev <= moves + K
      BY DEF Inductive, Shape, Counted
    <3>5. 0 <= moves + K
      BY <3>2
    <3> HIDE DEF K
    <3>6. \A n \in Commands' : known'[n].rev <= moves + K
      BY <1>1, <3>2, <3>4, <3>5
    <3> QED
      BY <1>0, <3>3, <3>4, <3>6 DEF Counted
  <2> QED
    BY <2>1, <2>2, <2>3, <2>4 DEF Shape
<1>6. Behind'
  <2>1. RevisionNeverAhead'
    <3>1. ASSUME NEW j \in Ids, asg[j].status # "none"
          PROVE  row[j].rev <= asg[j].lock /\ row'[j].rev <= asg[j].lock
      <4>1. row[j].rev <= asg[j].lock /\ asg[j].lock \in Nat
        BY <1>0, <3>1, ConstantsAssumption
           DEF Inductive, Behind, RevisionNeverAhead, TypeOK, Locks
      <4> QED
        BY <1>2, <4>1
    <3>2. ASSUME NEW n \in Commands', asg[outbox'[n].id].status # "none"
          PROVE  outbox'[n].base <= asg[outbox'[n].id].lock
      <4>1. CASE n = last
        BY <1>1, <3>1, <3>2, <4>1
      <4>2. CASE n \in Commands
        BY <1>1, <3>2, <4>2 DEF Inductive, Behind, RevisionNeverAhead, Commands
      <4> QED
        BY <1>1, <4>1, <4>2
    <3> QED
      BY <1>0, <3>1, <3>2 DEF RevisionNeverAhead, Commands
  <2>2. AnswersBehind'
    BY <1>0, <1>1 DEF Inductive, Behind, AnswersBehind, NoAnswer, Good
  <2>3. BootBehind'
    BY <1>0 DEF Inductive, Behind, BootBehind
  <2> QED
    BY <2>1, <2>2, <2>3 DEF Behind
<1>7. Draws'
  <2>1. OneAccept'
    <3>1. op = "accept" => \A n \in Commands : outbox[n].id # i
      BY DEF Proper, Used
    <3> QED
      BY <1>1, <3>1 DEF Inductive, Draws, OneAccept
  <2>2. UnbornHasNoRevision'
    <3> SUFFICES ASSUME NEW j \in Ids, Drawn(j)'
                 PROVE  /\ asg[j].status = "none"
                        /\ row'[j].rev = 0
                        /\ boot # <<>> => boot[1][j].status = "none"
                        /\ \A n \in Commands' : outbox'[n].id = j
                              => outbox'[n].base = 0 /\ known'[n].status \notin Good
      BY <1>0 DEF UnbornHasNoRevision
    <3>1. CASE Drawn(j)
      <4>1. /\ asg[j].status = "none"
            /\ row[j].rev = 0
            /\ boot # <<>> => boot[1][j].status = "none"
            /\ \A n \in Commands : outbox[n].id = j
                  => outbox[n].base = 0 /\ known[n].status \notin Good
        BY <3>1 DEF Inductive, Draws, UnbornHasNoRevision
      <4>2. row'[j].rev = 0
        BY <1>2, <4>1
      <4> QED
        BY <1>1, <4>1, <4>2 DEF NoAnswer, Good
    <3>2. CASE ~Drawn(j)
      <4>1. op = "accept" /\ i = j
        BY <1>1, <3>2 DEF Drawn
      <4>2. asg[j].status = "none" /\ j \notin Used
        BY <4>1 DEF Proper
      <4>3. row[j] = Absent /\ (boot # <<>> => boot[1][j].status = "none")
        BY <4>2 DEF Inductive, Draws, UnusedIsNew
      <4>4. row'[j].rev = 0
        BY <1>2, <4>3 DEF Absent
      <4>5. \A n \in Commands : outbox[n].id # j
        BY <4>2 DEF Used
      <4> QED
        BY <1>1, <4>1, <4>2, <4>3, <4>4, <4>5 DEF NoAnswer, Good, Absent
    <3> QED
      BY <3>1, <3>2
  <2>3. UnusedIsNew'
    BY <1>0, <1>2, <1>3 DEF Inductive, Draws, UnusedIsNew
  <2> QED
    BY <2>1, <2>2, <2>3 DEF Draws
<1>8. BegunIsStarted'
  <2>1. ASSUME NEW j \in Ids, row[j].started, row[j].status # "none"
        PROVE  row'[j].started /\ row'[j].status # "none"
    BY <1>2, <2>1 DEF Proper
  <2>2. ASSUME NEW j \in Ids, row'[j].status \in Begun PROVE row'[j].started
    BY <1>2, <2>2 DEF Proper, Inductive, BegunIsStarted
  <2>3. \A j \in submitting : row'[j].started /\ row'[j].status # "none"
    BY <1>0, <2>1 DEF Inductive, BegunIsStarted, TypeOK
  <2>4. ASSUME NEW n \in Commands', outbox'[n].op \in Working
        PROVE  row'[outbox'[n].id].started /\ row'[outbox'[n].id].status # "none"
    <3>1. CASE n = last
      BY <1>1, <1>2, <2>4, <3>1 DEF Proper
    <3>2. CASE n \in Commands
      BY <1>1, <1>4, <2>1, <2>4, <3>2 DEF Inductive, BegunIsStarted
    <3> QED
      BY <1>1, <3>1, <3>2
  <2> QED
    BY <1>0, <2>2, <2>3, <2>4 DEF Inductive, BegunIsStarted
<1>9. BatchKept'
  <2>1. \A n \in Range(run.batch) : n \in Commands
    BY BatchType
  <2> QED
    BY <1>0, <1>1, <2>1 DEF Inductive, BatchKept
<1>10. OneReport'
  <2>1. ASSUME NEW j \in Ids, NEW n \in QueuedReports(j)'
        PROVE  \/ n \in QueuedReports(j)
               \/ n = last /\ QueuedReports(j) = {}
    BY <1>1 DEF QueuedReports, Commands, Proper
  <2> QED
    BY <2>1 DEF Inductive, OneReport
<1>11. CompletedForGood'
  BY <1>0, <1>1 DEF Inductive, CompletedForGood, OnTime, NoAnswer
<1> QED
  BY <1>5, <1>6, <1>7, <1>8, <1>9, <1>10, <1>11 DEF Inductive

LEMMA AcceptStep ==
    ASSUME Inductive, NEW i \in Ids, Accept(i) PROVE Inductive'
<1> DEFINE r == [Absent EXCEPT !.status = "accepted"]
<1>1. Queue("accept", i, r) /\ offered' \in BOOLEAN /\ submitting' = submitting
  BY DEF Accept
<1>2. asg[i].status = "none" /\ i \notin Used
  BY DEF Accept, Used, Commands
<1>3. row[i] = Absent
  BY <1>2 DEF Inductive, Draws, UnusedIsNew
<1>4. r \in Rows /\ r.status = "accepted" /\ r.rev = 0
  <2>1. Absent \in Rows /\ Absent.rev = 0
    BY DEF Absent, Rows
  <2> HIDE DEF Absent
  <2> QED
    BY <2>1 DEF Rows, Active
<1> HIDE DEF r
<1>5. Proper("accept", i, r)
  BY <1>2, <1>3, <1>4 DEF Proper, Begun, Working, Absent
<1> QED
  BY <1>1, <1>5, QueueStep DEF Ops

LEMMA ReleaseStep ==
    ASSUME Inductive, NEW i \in Ids, Release(i) PROVE Inductive'
<1>1. Proper("release", i, Absent)
  BY RowType DEF Release, Proper, Rows, Begun, Working, Absent
<1> QED
  BY <1>1, QueueStep DEF Release, Ops

LEMMA LifecycleStep ==
    ASSUME Inductive, NEW op \in Working \ {"complete"}, NEW i \in Ids,
           NEW from, NEW to \in Active, Lifecycle(op, i, from, to),
           op = "start" \/ from \in SUBSET Begun
    PROVE  Inductive'
<1>1. PICK r : r = [row[i] EXCEPT !.status = to,
                                  !.started = row[i].started \/ op = "start"]
  OBVIOUS
<1>2. Queue(op, i, r) /\ row[i].status \in from
  BY <1>1 DEF Lifecycle
<1>3. offered' \in BOOLEAN /\ submitting' = submitting
  BY RowType DEF Lifecycle
<1>4. row[i] \in Rows
  BY RowType
<1>5. op = "start" \/ row[i].started
  BY <1>2 DEF Inductive, BegunIsStarted
<1>6. r \in Rows /\ r.status = to /\ r.started /\ r.rev = row[i].rev
  BY <1>1, <1>4, <1>5 DEF Rows
<1>7. Proper(op, i, r)
  BY <1>4, <1>6 DEF Proper, Rows, Active, Working
<1> QED
  BY <1>2, <1>3, <1>7, QueueStep DEF Ops, Working

LEMMA CompleteStep ==
    ASSUME Inductive, NEW i \in Ids, Complete(i) PROVE Inductive'
<1>1. row[i] \in Rows /\ row[i].started /\ row[i].status # "none" /\ offered \in BOOLEAN
  BY RowType DEF Complete, Inductive, BegunIsStarted
<1>2. PICK r : r = [row[i] EXCEPT !.status = "completedLocal"]
  OBVIOUS
<1>3. /\ r \in Rows /\ r.status = "completedLocal"
      /\ r.started = row[i].started /\ r.rev = row[i].rev
  BY <1>1, <1>2 DEF Rows, Active
<1>4. CASE QueuedReports(i) # {}
  <2>1. row' = [row EXCEPT ![i] = r] /\ UNCHANGED <<outbox, run, boot, serverVars, offered, submitting>>
    BY <1>2, <1>4 DEF Complete
  <2>2. i \in Used
    BY <1>4 DEF QueuedReports, Used, Commands
  <2>3. Tame(row')
    BY <1>1, <1>3, <2>1, <2>2, RowIsTame DEF Tame, Begun
  <2>4. PhoneKeeps
    BY <1>1, <2>1, <2>3 DEF PhoneKeeps, Inductive, Shape, TypeOK, BegunIsStarted
  <2> QED
    BY <2>1, <2>4, QuietStep
<1>5. CASE QueuedReports(i) = {}
  <2>1. Queue("complete", i, r) /\ UNCHANGED <<offered, submitting>>
    BY <1>2, <1>5 DEF Complete
  <2>2. Proper("complete", i, r)
    BY <1>1, <1>3, <1>5 DEF Proper, Rows, Begun
  <2> QED
    BY <1>1, <2>1, <2>2, QueueStep DEF Ops
<1> QED
  BY <1>4, <1>5

LEMMA EmployeeStep ==
    ASSUME Inductive, Employee PROVE Inductive'
<1> USE DEF Working, Active, Begun
<1>1. ASSUME NEW i \in Ids, Start(i) PROVE Inductive'
  BY <1>1, LifecycleStep DEF Start
<1>2. ASSUME NEW i \in Ids, Pause(i) PROVE Inductive'
  BY <1>2, LifecycleStep DEF Pause
<1>3. ASSUME NEW i \in Ids, Resume(i) PROVE Inductive'
  BY <1>3, LifecycleStep DEF Resume
<1>4. ASSUME NEW i \in Ids, Handoff(i) PROVE Inductive'
  BY <1>4, LifecycleStep DEF Handoff
<1> QED
  BY <1>1, <1>2, <1>3, <1>4, AcceptStep, ReleaseStep, OpenSubmitStep, CompleteStep
     DEF Employee

-----------------------------------------------------------------------------
(* The refresh *)

BootType(b) ==
    b \in [Ids -> [status : Live \cup {"none"}, lock : Locks, started : BOOLEAN]]

LEMMA ServerRowsType ==
    ASSUME Inductive
    PROVE  /\ BootType(asg)
           /\ asg \in [Ids -> ServerRows]
           /\ \A i \in Ids : asg[i] \in ServerRows /\ asg[i].lock \in Locks
                             /\ asg[i].lock \in Nat
           /\ boot # <<>> => Len(boot) = 1 /\ BootType(boot[1])
<1>1. BootType(asg)
  BY DEF Inductive, Shape, TypeOK, BootType
<1>2. \A i \in Ids : asg[i] \in ServerRows /\ asg[i].lock \in Locks /\ asg[i].lock \in Nat
  BY <1>1, ConstantsAssumption DEF BootType, ServerRows, Locks
<1>3. ASSUME boot # <<>> PROVE Len(boot) = 1 /\ BootType(boot[1])
  <2> DEFINE B == [Ids -> [status : Live \cup {"none"}, lock : Locks,
                          started : BOOLEAN]]
  <2>1. boot \in Seq(B) /\ Len(boot) = 1
    BY <1>3 DEF Inductive, Shape, TypeOK, Lengths
  <2> HIDE DEF B
  <2>2. boot[1] \in B
    <3>1. boot \in [1 .. 1 -> B]
      BY <2>1
    <3> QED
      BY <3>1
  <2> QED
    BY <2>1, <2>2 DEF B, BootType
<1>4. asg \in [Ids -> ServerRows]
  <2>1. asg = [i \in Ids |-> asg[i]]
    BY <1>1 DEF BootType
  <2> HIDE DEF ServerRows
  <2> QED
    BY <1>2, <2>1
<1> QED
  BY <1>1, <1>2, <1>3, <1>4

LEMMA FetchStep ==
    ASSUME Inductive, FetchBootstrap PROVE Inductive'
<1>1. boot' = <<asg>> /\ UNCHANGED <<row, offered, outbox, submitting, run, asg, reported, known, moves>>
  BY DEF FetchBootstrap, phoneVars, serverVars
<1>2. boot'[1] = asg /\ Len(boot') = 1
  BY <1>1
<1>3. Shape'
  <2>1. boot' \in Seq([Ids -> [status : Live \cup {"none"}, lock : Locks,
                               started : BOOLEAN]])
    BY <1>1, ServerRowsType DEF BootType
  <2>2. TypeOK'
    BY <1>1, <2>1 DEF Inductive, Shape, TypeOK
  <2>3. Lengths'
    BY <1>1, <1>2 DEF Inductive, Shape, Lengths, Commands
  <2>4. AnswersMatch' /\ Counted'
    BY <1>1 DEF Inductive, Shape, AnswersMatch, Counted, AnsweredIn, Commands
  <2> QED
    BY <2>2, <2>3, <2>4 DEF Shape
<1>4. Behind'
  <2>1. BootBehind'
    BY <1>1, <1>2, ServerRowsType DEF BootBehind
  <2> QED
    BY <1>1, <2>1 DEF Inductive, Behind, RevisionNeverAhead, AnswersBehind, Commands
<1>5. Draws'
  <2>1. \A i \in Ids : Drawn(i)' <=> Drawn(i)
    BY <1>1 DEF Drawn, Commands
  <2> QED
    BY <1>1, <1>2, <2>1 DEF Inductive, Draws, OneAccept, UnbornHasNoRevision, UnusedIsNew,
                            Used, Commands
<1>6. BegunIsStarted'
  BY <1>1, <1>2 DEF Inductive, BegunIsStarted, Commands
<1>7. BatchKept' /\ OneReport' /\ CompletedForGood'
  BY <1>1 DEF Inductive, BatchKept, OneReport, QueuedReports, CompletedForGood, OnTime,
              Commands
<1> QED
  BY <1>3, <1>4, <1>5, <1>6, <1>7 DEF Inductive

LEMMA MergedType ==
    ASSUME NEW r \in Rows, NEW s \in ServerRows
    PROVE  LET m == Merged(r, s) IN
           /\ m \in Rows
           /\ s.status = "none" => m = r
           /\ m.rev = r.rev \/ (m.rev = s.lock /\ s.status # "none")
           /\ r.started => m.started
           /\ r.status # "none" => m.status # "none"
           /\ m.status \in Begun =>
                 \/ r.status \in Begun /\ (r.started => m.started)
                 \/ s.status \in Begun /\ (s.started => m.started)
<1>1. CASE s.status \in Closed \cup {"none"}
  BY <1>1 DEF Merged, Closed
<1>2. CASE s.status \notin Closed \cup {"none"}
  <2> DEFINE to == IF r.status \in Active \cup {"cancelledServer"}
                   THEN r.status ELSE s.status
  <2>1. Merged(r, s) = [status |-> to, rev |-> s.lock,
                        started |-> r.started \/ s.started]
    BY <1>2 DEF Merged
  <2>2. /\ to \in Active \cup Terminal /\ to # "none"
        /\ to = r.status \/ to = s.status
    BY <1>2 DEF ServerRows, Live, Active, Terminal, Closed
  <2> HIDE DEF to
  <2>3. s.lock \in Nat /\ r.started \in BOOLEAN /\ s.started \in BOOLEAN
    BY DEF Rows, ServerRows
  <2> QED
    BY <1>2, <2>1, <2>2, <2>3 DEF Rows
<1> QED
  BY <1>1, <1>2

LEMMA SaveStep ==
    ASSUME Inductive, SaveBootstrap PROVE Inductive'
<1>1. boot # <<>> /\ boot' = <<>> /\ UNCHANGED <<outbox, submitting, run, serverVars>>
  BY DEF SaveBootstrap
<1>2. PICK b : b = boot[1]
  OBVIOUS
<1>3. BootType(b)
  BY <1>1, <1>2, ServerRowsType
<1>4. \A i \in Ids : b[i] \in ServerRows /\ b[i].lock \in Locks
  BY <1>3, ConstantsAssumption DEF BootType, ServerRows, Locks
<1>5. PICK cancelled :
         row' = [i \in Ids |->
                   Merged(IF cancelled THEN CancelledToo(row[i]) ELSE row[i], b[i])]
  BY <1>2 DEF SaveBootstrap
<1>6. ASSUME NEW i \in Ids
      PROVE  /\ row'[i] \in Rows
             /\ b[i].status = "none" /\ row[i].status = "none" => row'[i] = row[i]
             /\ row'[i].rev = row[i].rev \/ (row'[i].rev = b[i].lock /\ b[i].status # "none")
             /\ row[i].started => row'[i].started
             /\ row[i].status # "none" => row'[i].status # "none"
             /\ row'[i].status \in Begun =>
                   \/ row[i].status \in Begun /\ (row[i].started => row'[i].started)
                   \/ b[i].status \in Begun /\ (b[i].started => row'[i].started)
  <2>1. PICK r : r = row[i]
    OBVIOUS
  <2>2. PICK q : q = IF cancelled THEN CancelledToo(r) ELSE r
    OBVIOUS
  <2>3. /\ r \in Rows /\ q \in Rows /\ q.rev = r.rev /\ q.started = r.started
        /\ r.status # "none" => q.status # "none"
        /\ q.status \in Begun => r.status \in Begun
        /\ r.status = "none" => q = r
    <3>1. r \in Rows
      BY <2>1, RowType
    <3> QED
      BY <2>2, <3>1 DEF CancelledToo, Rows, Begun, Terminal
  <2>4. b[i] \in ServerRows /\ row'[i] = Merged(q, b[i])
    BY <1>4, <1>5, <2>1, <2>2
  <2>5. LET m == row'[i] IN
           /\ m \in Rows
           /\ b[i].status = "none" => m = q
           /\ m.rev = q.rev \/ (m.rev = b[i].lock /\ b[i].status # "none")
           /\ q.started => m.started
           /\ q.status # "none" => m.status # "none"
           /\ m.status \in Begun =>
                 \/ q.status \in Begun /\ (q.started => m.started)
                 \/ b[i].status \in Begun /\ (b[i].started => m.started)
    BY <2>3, <2>4, MergedType
  <2> QED
    BY <2>1, <2>3, <2>5
<1>7. \A i \in Ids :
         /\ b[i].status \in Begun => b[i].started
         /\ Drawn(i) => b[i].status = "none"
         /\ i \notin Used /\ asg[i].status = "none" => b[i].status = "none"
         /\ b[i].status # "none" /\ asg[i].status # "none" => b[i].lock <= asg[i].lock
  BY <1>1, <1>2 DEF Inductive, BegunIsStarted, Draws, UnbornHasNoRevision, UnusedIsNew,
                    Behind, BootBehind
<1>8. Tame(row')
  <2>1. Tame(row)
    BY RowIsTame
  <2>2. row' \in [Ids -> Rows]
    <3>1. row' = [i \in Ids |-> row'[i]]
      BY <1>5
    <3> HIDE DEF Rows
    <3> QED
      BY <1>6, <3>1
  <2>3. \A i \in Ids : row'[i].status \in Begun => row'[i].started
    BY <1>6, <1>7, <2>1 DEF Tame
  <2>4. \A i \in Ids : i \notin Used /\ asg[i].status = "none" => row'[i] = row[i]
    BY <1>6, <1>7 DEF Inductive, Draws, UnusedIsNew, Absent
  <2> QED
    BY <1>4, <1>6, <1>7, <2>1, <2>2, <2>3, <2>4 DEF Tame
<1>9. PhoneKeeps
  <2>1. offered' \in BOOLEAN /\ submitting \in SUBSET Ids
    BY DEF SaveBootstrap, Inductive, Shape, TypeOK
  <2> QED
    BY <1>1, <1>8, <2>1 DEF PhoneKeeps, Inductive, BegunIsStarted
<1> QED
  BY <1>1, <1>9, QuietStep

-----------------------------------------------------------------------------
(* The dispatcher *)

LEMMA DispatchStep ==
    ASSUME Inductive, NEW i \in Ids,
           NEW to \in {"inProgress", "cancelled", "completed"}, Dispatch(i, to)
    PROVE  Inductive'
<1>1. /\ moves' = moves + 1 /\ moves' \in 0 .. MaxMoves /\ moves \in Nat
      /\ UNCHANGED <<row, offered, outbox, submitting, run, boot, known>>
      /\ asg[i].status \in Live \ Closed
  BY ConstantsAssumption
     DEF Dispatch, phoneVars, Inductive, Shape, TypeOK
<1>2. /\ asg' \in [Ids -> ServerRows]
      /\ asg'[i].status = to
      /\ asg'[i].lock = asg[i].lock + 1
      /\ to = "inProgress" => asg'[i].started
      /\ \A j \in Ids \ {i} : asg'[j] = asg[j]
  <2>1. asg' = [asg EXCEPT ![i].status = to, ![i].lock = @ + 1,
                           ![i].started = @ \/ to # "cancelled"]
    BY DEF Dispatch
  <2>2. asg \in [Ids -> ServerRows]
    BY ServerRowsType
  <2>3. to \in Live
    BY DEF Live, Closed
  <2> QED
    BY <2>1, <2>2, <2>3 DEF ServerRows
<1>3. \A j \in Ids : /\ asg[j].lock \in Nat /\ asg'[j].lock \in Nat
                     /\ asg[j].lock <= asg'[j].lock
                     /\ asg'[j].status = "none" <=> asg[j].status = "none"
  <2>1. ASSUME NEW j \in Ids
        PROVE  asg[j].lock \in Nat /\ asg'[j].lock \in Nat
    BY <1>2, ServerRowsType DEF ServerRows
  <2>2. asg[i].status # "none" /\ asg'[i].status # "none"
    BY <1>1, <1>2 DEF Live, Closed
  <2> QED
    BY <1>2, <2>1, <2>2
<1>4. /\ Commands' = Commands /\ Used' = Used
      /\ \A n \in Commands : outbox[n].id \in Ids /\ outbox[n].base \in Nat
      /\ \A j \in Ids : Drawn(j)' <=> Drawn(j)
  BY <1>1, CommandType DEF Inductive, Shape, Commands, Used, Drawn
<1>5. Shape'
  <2>1. Counted'
    <3> DEFINE K == Cardinality(AnsweredIn(known))
    <3>1. K \in Nat /\ AnsweredIn(known)' = AnsweredIn(known)
      BY <1>1, <1>4, AnsweredCount DEF AnsweredIn
    <3>2. /\ \A j \in Ids : asg[j].lock <= moves + K
          /\ \A n \in Commands : known[n].rev <= moves + K /\ known[n].rev \in Nat
      <4>1. \A n \in Commands : known[n].rev \in Nat
        BY CommandType, ConstantsAssumption DEF Inductive, Shape, Answer, NoAnswer, Locks
      <4> QED
        BY <4>1 DEF Inductive, Shape, Counted
    <3> HIDE DEF K
    <3>3. /\ \A j \in Ids : asg'[j].lock <= moves' + K
          /\ \A n \in Commands : known'[n].rev <= moves' + K
      <4>1. \A j \in Ids : asg'[j].lock <= asg[j].lock + 1
        BY <1>2, <1>3
      <4> QED
        BY <1>1, <1>3, <3>1, <3>2, <4>1
    <3> QED
      BY <1>4, <3>1, <3>3 DEF Counted, K
  <2>2. TypeOK'
    <3>1. \A j \in Ids : asg'[j].lock \in Locks
      <4>1. Cardinality(AnsweredIn(known))' \in Nat
            /\ Cardinality(AnsweredIn(known))' <= MaxCommands
        BY <1>1, <1>4, AnsweredCount DEF AnsweredIn
      <4> QED
        BY <1>1, <1>3, <2>1, <4>1, ConstantsAssumption DEF Counted, Locks
    <3>2. asg' \in [Ids -> [status : Live \cup {"none"}, lock : Locks,
                            started : BOOLEAN]]
      BY <1>2, <3>1 DEF ServerRows
    <3>3. reported' \subseteq Ids
      BY DEF Dispatch, Inductive, Shape, TypeOK
    <3> QED
      BY <1>1, <3>2, <3>3 DEF Inductive, Shape, TypeOK
  <2> QED
    BY <1>1, <1>4, <2>1, <2>2 DEF Inductive, Shape, Lengths, AnswersMatch
<1>6. Behind'
  <2>1. RevisionNeverAhead'
    <3>1. \A j \in Ids : row[j].rev \in Nat
      BY RowType
    <3> QED
      BY <1>1, <1>3, <1>4, <3>1 DEF Inductive, Behind, RevisionNeverAhead, Commands
  <2>2. AnswersBehind'
    <3>1. \A n \in Commands : known[n].rev \in Nat
      BY CommandType, ConstantsAssumption DEF Inductive, Shape, Answer, NoAnswer, Locks
    <3> QED
      BY <1>1, <1>3, <1>4, <3>1 DEF Inductive, Behind, AnswersBehind
  <2>3. BootBehind'
    <3>1. boot # <<>> => \A j \in Ids : boot[1][j].lock \in Nat
      BY ServerRowsType, ConstantsAssumption DEF BootType, Locks
    <3> QED
      BY <1>1, <1>3, <3>1 DEF Inductive, Behind, BootBehind
  <2> QED
    BY <2>1, <2>2, <2>3 DEF Behind
<1>7. Draws'
  BY <1>1, <1>3, <1>4 DEF Inductive, Draws, OneAccept, UnbornHasNoRevision, UnusedIsNew
<1>8. BegunIsStarted'
  <2>1. \A j \in Ids : asg'[j].status \in Begun => asg'[j].started
    BY <1>2 DEF Inductive, BegunIsStarted, Begun
  <2> QED
    BY <1>1, <1>4, <2>1 DEF Inductive, BegunIsStarted
<1>9. BatchKept' /\ OneReport'
  BY <1>1 DEF Inductive, BatchKept, OneReport, QueuedReports
<1>10. CompletedForGood'
  <2>1. \A j \in reported : j \in reported'
    BY DEF Dispatch
  <2>2. asg[i].status # "completed"
    BY <1>1 DEF Closed
  <2> QED
    BY <1>1, <1>2, <1>4, <2>1, <2>2 DEF Inductive, CompletedForGood, OnTime
<1> QED
  BY <1>5, <1>6, <1>7, <1>8, <1>9, <1>10 DEF Inductive

-----------------------------------------------------------------------------
(* The server: a transaction *)

Transactions ==
    [asg : [Ids -> ServerRows], gone : SUBSET Ids, rep : SUBSET Ids,
     ops : [Commands -> SomeAnswer \cup {NoAnswer}]]

\* What has become of the assignments so far.
SoundRows(w) ==
    \A i \in Ids :
        /\ asg[i].status # "none" =>
              w.asg[i].status # "none" /\ asg[i].lock <= w.asg[i].lock
        /\ asg[i].status = "none" /\ ~Drawn(i) => w.asg[i].status = "none"
        /\ w.asg[i].status \in Begun => w.asg[i].started

\* ... and of the answers.
SoundAnswers(w) ==
    \A n \in Commands :
        LET i == outbox[n].id
            a == w.ops[n]
        IN  /\ known[n] # NoAnswer => a = known[n]
            /\ outbox[n].op = "accept" /\ a = NoAnswer => w.asg[i].status = "none"
            /\ outbox[n].op # "accept" /\ Drawn(i) => a.status \notin Good
            /\ a.status \in Good /\ w.asg[i].status # "none" => a.rev <= w.asg[i].lock

SoundReports(w) ==
    \A n \in Commands : OnTime(n, w.ops[n]) =>
        /\ w.asg[outbox[n].id].status = "completed"
        /\ outbox[n].id \in w.rep
        /\ outbox[n].base + 1 = w.asg[outbox[n].id].lock

SoundCounts(w) ==
    LET most == moves + Cardinality(AnsweredIn(w.ops))
    IN  /\ \A i \in Ids : w.asg[i].lock <= most
        /\ \A n \in Commands : w.ops[n].rev <= most

\* What has been returned was there, and no report of it is accepted.
SoundReturns(w) ==
    \A i \in w.gone :
        /\ asg[i].status # "none"
        /\ \E m \in Range(run.batch) : outbox[m].op = "release" /\ outbox[m].id = i
        /\ \A n \in Commands : outbox[n].id = i => ~OnTime(n, w.ops[n])

Sound(w) ==
    /\ w \in Transactions
    /\ SoundRows(w)
    /\ SoundAnswers(w)
    /\ SoundReports(w)
    /\ SoundCounts(w)
    /\ SoundReturns(w)

\* Command n is answered by a, assignment j becomes x, and so w becomes v.
Answers(w, v, n, j, x, a) ==
    /\ x \in ServerRows /\ a \in SomeAnswer
    /\ v \in Transactions
    /\ v.asg = [w.asg EXCEPT ![j] = x]
    /\ v.ops = [w.ops EXCEPT ![n] = a]
    /\ w.rep \subseteq v.rep
    /\ w.asg[j].status # "none" => x.status # "none" /\ w.asg[j].lock <= x.lock
    /\ x.lock <= w.asg[j].lock + 1 /\ a.rev <= w.asg[j].lock + 1
    /\ x.status \in Begun => x.started
    /\ x # w.asg[j] =>
          /\ w.asg[j].status # "completed" \/ j \notin w.rep
          /\ w.asg[j].status = "none" => outbox[n].op = "accept" /\ outbox[n].id = j
    /\ a.status \in Good =>
          \/ outbox[n].id = j /\ a.rev <= x.lock
          \/ outbox[n].id # j /\ outbox[n].op = "accept"
    /\ a.status \in Good /\ outbox[n].op # "accept" => asg[outbox[n].id].status # "none"
    /\ OnTime(n, a) =>
          /\ outbox[n].id = j /\ j \in v.rep
          /\ x.status = "completed" /\ outbox[n].base + 1 = x.lock
    /\ \/ v.gone = w.gone
       \/ /\ v.gone = w.gone \cup {j} /\ outbox[n].op = "release" /\ outbox[n].id = j
          /\ asg[j].status # "none" /\ w.asg[j].status # "completed"

LEMMA AnswersSound ==
    ASSUME Inductive, NEW w, Sound(w), NEW n \in Range(run.batch), n \in Commands,
           w.ops[n] = NoAnswer, NEW v, NEW j \in Ids, NEW x, NEW a,
           Answers(w, v, n, j, x, a)
    PROVE  Sound(v) /\ v.ops[n] # NoAnswer
<1>0. \A m \in Commands : outbox[m].id \in Ids /\ outbox[m].base \in Nat
  BY CommandType DEF Inductive, Shape
<1>1. /\ w.asg \in [Ids -> ServerRows] /\ w.asg[j] \in ServerRows
      /\ w.ops \in [Commands -> SomeAnswer \cup {NoAnswer}]
      /\ v \in Transactions /\ x \in ServerRows /\ a \in SomeAnswer
  BY DEF Sound, Transactions, Answers
<1>2. /\ v.asg[j] = x /\ \A i \in Ids \ {j} : v.asg[i] = w.asg[i]
      /\ v.ops[n] = a /\ \A m \in Commands \ {n} : v.ops[m] = w.ops[m]
  <2>1. v.asg = [w.asg EXCEPT ![j] = x] /\ v.ops = [w.ops EXCEPT ![n] = a]
    BY DEF Answers
  <2> HIDE DEF SomeAnswer, ServerRows
  <2> QED
    BY <1>1, <2>1
<1>3. a # NoAnswer /\ known[n] = NoAnswer
  BY <1>1 DEF SomeAnswer, NoAnswer, Good, Bad, Sound, SoundAnswers
<1>4. /\ \A i \in Ids : w.asg[i].lock \in Nat /\ v.asg[i].lock \in Nat
      /\ x.lock \in Nat /\ a.rev \in Nat
      /\ \A m \in Commands : w.ops[m].rev \in Nat
  BY <1>1 DEF Transactions, ServerRows, SomeAnswer, NoAnswer
<1>5. SoundRows(v)
  <2>1. ASSUME asg[j].status = "none", ~Drawn(j) PROVE x.status = "none"
    <3>1. w.asg[j].status = "none"
      BY <2>1 DEF Sound, SoundRows
    <3>2. outbox[n].op = "accept" /\ outbox[n].id = j => Drawn(j)
      BY <1>3 DEF Drawn
    <3> QED
      BY <2>1, <3>1, <3>2 DEF Answers
  <2>2. asg[j].status # "none" => x.status # "none" /\ asg[j].lock <= x.lock
    <3>1. asg[j].lock \in Nat
      BY ServerRowsType
    <3> QED
      BY <1>4, <3>1 DEF Sound, SoundRows, Answers
  <2>3. x.status \in Begun => x.started
    BY DEF Answers
  <2> QED
    BY <1>2, <2>1, <2>2, <2>3 DEF Sound, SoundRows
<1>6. SoundAnswers(v)
  <2> SUFFICES ASSUME NEW m \in Commands
               PROVE  LET i == outbox[m].id
                          b == v.ops[m]
                      IN  /\ known[m] # NoAnswer => b = known[m]
                          /\ outbox[m].op = "accept" /\ b = NoAnswer => v.asg[i].status = "none"
                          /\ outbox[m].op # "accept" /\ Drawn(i) => b.status \notin Good
                          /\ b.status \in Good /\ v.asg[i].status # "none"
                                => b.rev <= v.asg[i].lock
    BY DEF SoundAnswers
  <2> DEFINE i == outbox[m].id
  <2>1. i \in Ids
    BY <1>0
  <2>2. Drawn(i) => asg[i].status = "none"
    BY <2>1 DEF Inductive, Draws, UnbornHasNoRevision
  <2>3. CASE m = n
    <3>1. outbox[n].op # "accept" /\ Drawn(i) => a.status \notin Good
      BY <2>2, <2>3 DEF Answers
    <3>2. ASSUME a.status \in Good, v.asg[i].status # "none" PROVE a.rev <= v.asg[i].lock
      <4>1. CASE i = j /\ a.rev <= x.lock
        BY <1>2, <4>1
      <4>2. CASE i # j /\ outbox[n].op = "accept"
        BY <1>2, <2>1, <2>3, <3>2, <4>2 DEF Sound, SoundAnswers
      <4> QED
        BY <2>3, <3>2, <4>1, <4>2 DEF Answers
    <3> QED
      BY <1>2, <1>3, <2>3, <3>1, <3>2
  <2>4. CASE m # n
    <3>1. /\ v.ops[m] = w.ops[m]
          /\ known[m] # NoAnswer => w.ops[m] = known[m]
          /\ outbox[m].op = "accept" /\ w.ops[m] = NoAnswer => w.asg[i].status = "none"
          /\ outbox[m].op # "accept" /\ Drawn(i) => w.ops[m].status \notin Good
          /\ w.ops[m].status \in Good /\ w.asg[i].status # "none"
                => w.ops[m].rev <= w.asg[i].lock
      BY <1>2, <2>4 DEF Sound, SoundAnswers
    <3>2. CASE v.asg[i] = w.asg[i]
      BY <3>1, <3>2
    <3>3. CASE i = j /\ w.asg[j].status # "none"
      BY <1>2, <1>4, <2>1, <3>1, <3>3 DEF Answers
    <3>4. CASE i = j /\ w.asg[j].status = "none" /\ x # w.asg[j]
      <4>1. outbox[n].op = "accept" /\ outbox[n].id = i
        BY <3>4 DEF Answers
      <4>2. Drawn(i)
        BY <1>3, <4>1 DEF Drawn
      <4>3. outbox[m].op # "accept"
        BY <2>4, <4>1 DEF Inductive, Draws, OneAccept
      <4> QED
        BY <3>1, <4>2, <4>3
    <3> QED
      BY <1>2, <2>1, <3>2, <3>3, <3>4
  <2> QED
    BY <2>3, <2>4
<1>7. SoundReports(v)
  <2>1. ASSUME NEW m \in Commands, OnTime(m, v.ops[m])
        PROVE  /\ v.asg[outbox[m].id].status = "completed"
               /\ outbox[m].id \in v.rep
               /\ outbox[m].base + 1 = v.asg[outbox[m].id].lock
    <3>1. CASE m = n
      BY <1>2, <2>1, <3>1 DEF Answers
    <3>2. CASE m # n
      <4>1. /\ w.asg[outbox[m].id].status = "completed"
            /\ outbox[m].id \in w.rep
            /\ outbox[m].base + 1 = w.asg[outbox[m].id].lock
        BY <1>2, <2>1, <3>2 DEF Sound, SoundReports
      <4>2. v.asg[outbox[m].id] = w.asg[outbox[m].id]
        BY <1>0, <1>2, <4>1 DEF Answers
      <4> QED
        BY <4>1, <4>2 DEF Answers
    <3> QED
      BY <3>1, <3>2
  <2> QED
    BY <2>1 DEF SoundReports
<1>8. SoundCounts(v)
  <2> DEFINE K == Cardinality(AnsweredIn(w.ops))
  <2>1. AnsweredIn(v.ops) = AnsweredIn(w.ops) \cup {n} /\ n \notin AnsweredIn(w.ops)
    BY <1>2, <1>3 DEF AnsweredIn
  <2>2. IsFiniteSet(AnsweredIn(w.ops)) /\ K \in Nat
    BY AnsweredCount
  <2>3. Cardinality(AnsweredIn(v.ops)) = K + 1
    BY <2>1, <2>2, FS_AddElement
  <2>4. moves \in Nat
    BY ConstantsAssumption DEF Inductive, Shape, TypeOK
  <2>5. /\ \A i \in Ids : w.asg[i].lock <= moves + K
        /\ \A m \in Commands : w.ops[m].rev <= moves + K
    BY DEF Sound, SoundCounts
  <2> HIDE DEF K
  <2>6. x.lock <= moves + (K + 1) /\ a.rev <= moves + (K + 1)
    <3>1. x.lock <= w.asg[j].lock + 1 /\ a.rev <= w.asg[j].lock + 1
      BY DEF Answers
    <3> QED
      BY <1>4, <2>2, <2>4, <2>5, <3>1
  <2>7. \A i \in Ids : v.asg[i].lock <= moves + (K + 1)
    BY <1>2, <1>4, <2>2, <2>4, <2>5, <2>6
  <2>8. \A m \in Commands : v.ops[m].rev <= moves + (K + 1)
    BY <1>2, <1>4, <2>2, <2>4, <2>5, <2>6
  <2> QED
    BY <2>3, <2>7, <2>8 DEF SoundCounts
<1>9. SoundReturns(v)
  <2>1. ASSUME NEW i \in v.gone
        PROVE  /\ asg[i].status # "none"
               /\ \E m \in Range(run.batch) : outbox[m].op = "release" /\ outbox[m].id = i
               /\ \A m \in Commands : outbox[m].id = i => ~OnTime(m, w.ops[m])
    <3>1. CASE i \in w.gone
      BY <3>1 DEF Sound, SoundReturns
    <3>2. CASE i \notin w.gone
      <4>1. /\ i = j /\ outbox[n].op = "release" /\ outbox[n].id = i
            /\ asg[i].status # "none" /\ w.asg[i].status # "completed"
        BY <2>1, <3>2 DEF Answers
      <4> QED
        BY <4>1 DEF Sound, SoundReports
    <3> QED
      BY <3>1, <3>2
  <2>2. ASSUME NEW i \in v.gone, outbox[n].id = i PROVE ~OnTime(n, a)
    <3>1. PICK m \in Range(run.batch) : outbox[m].op = "release" /\ outbox[m].id = i
      BY <2>1
    <3>2. outbox[n].op # "complete"
      BY <2>2, <3>1 DEF Inductive, BatchKept
    <3> QED
      BY <3>2 DEF OnTime
  <2> QED
    BY <1>2, <2>1, <2>2 DEF SoundReturns
<1> QED
  BY <1>1, <1>2, <1>3, <1>5, <1>6, <1>7, <1>8, <1>9 DEF Sound

\* The records a handler makes, field by field.
LEMMA TransactionFields ==
    ASSUME NEW w \in Transactions, NEW i \in Ids, NEW n \in Commands
    PROVE  /\ w.asg \in [Ids -> ServerRows] /\ w.asg[i] \in ServerRows
           /\ w.asg[i].lock \in Nat
           /\ w.gone \in SUBSET Ids /\ w.rep \in SUBSET Ids
           /\ w.ops \in [Commands -> SomeAnswer \cup {NoAnswer}]
           /\ w = [asg |-> w.asg, gone |-> w.gone, rep |-> w.rep, ops |-> w.ops]
BY DEF Transactions, ServerRows

LEMMA YesNo ==
    /\ \A r \in Nat : /\ Yes(r) \in SomeAnswer /\ Yes(r).status = "accepted"
                      /\ Yes(r).rev = r /\ ~Yes(r).late
    /\ \A s \in Bad : /\ No(s) \in SomeAnswer /\ No(s).status = s
                      /\ No(s).rev = 0
<1>1. ASSUME NEW r \in Nat
      PROVE  /\ Yes(r) \in SomeAnswer /\ Yes(r).status = "accepted"
             /\ Yes(r).rev = r /\ ~Yes(r).late
  BY DEF Yes, SomeAnswer, Good
<1>2. ASSUME NEW s \in Bad
      PROVE  No(s) \in SomeAnswer /\ No(s).status = s /\ No(s).rev = 0
  <2>1. NoAnswer \in [status : {"none"}, rev : Nat, late : BOOLEAN] /\ NoAnswer.rev = 0
    BY DEF NoAnswer
  <2> HIDE DEF NoAnswer
  <2> QED
    BY <2>1 DEF No, SomeAnswer
<1> QED
  BY <1>1, <1>2

LEMMA RefusedAnswers ==
    ASSUME NEW w, Sound(w), NEW n \in Commands, NEW j \in Ids, NEW s \in Bad
    PROVE  Answers(w, Refused(w, n, s), n, j, w.asg[j], No(s))
<1>0. w \in Transactions /\ (w.asg[j].status \in Begun => w.asg[j].started)
  BY DEF Sound, SoundRows
<1> DEFINE v == Refused(w, n, s)
<1>1. /\ v.asg = w.asg /\ v.gone = w.gone /\ v.rep = w.rep
      /\ v.ops = [w.ops EXCEPT ![n] = No(s)]
      /\ v = [asg |-> w.asg, gone |-> w.gone, rep |-> w.rep, ops |-> v.ops]
  BY <1>0, TransactionFields DEF Refused, Transactions
<1>2. No(s) \in SomeAnswer /\ No(s).status = s /\ No(s).rev = 0
  BY YesNo
<1> HIDE DEF v
<1>3. v.ops \in [Commands -> SomeAnswer \cup {NoAnswer}]
  <2> HIDE DEF SomeAnswer
  <2> QED
    BY <1>0, <1>1, <1>2, TransactionFields
<1>4. v \in Transactions
  BY <1>0, <1>1, <1>3, TransactionFields DEF Transactions
<1>5. v.asg = [w.asg EXCEPT ![j] = w.asg[j]]
  BY <1>0, <1>1, TransactionFields
<1>6. s \notin Good /\ s # "accepted"
  BY DEF Good, Bad
<1>7. w.asg[j] \in ServerRows /\ w.asg[j].lock \in Nat
  BY <1>0, TransactionFields
<1> HIDE DEF ServerRows
<1> QED
  BY <1>0, <1>1, <1>2, <1>4, <1>5, <1>6, <1>7 DEF Answers, OnTime, v

\* The row Changed makes of s.
ChangedRow(s, to) ==
    [status |-> to, lock |-> s.lock + 1,
     started |-> s.started \/ to = "inProgress"]

\* What Changed changes.
Changes(w, v, n, j, to) ==
    /\ v \in Transactions
    /\ v.asg = [w.asg EXCEPT ![j] = ChangedRow(w.asg[j], to)]
    /\ v.gone = w.gone
    /\ v.rep = w.rep
    /\ v.ops = [w.ops EXCEPT ![n] = Yes(w.asg[j].lock + 1)]
    /\ ChangedRow(w.asg[j], to) \in ServerRows

LEMMA ChangedFields ==
    ASSUME NEW w, Sound(w), NEW n \in Commands, NEW j \in Ids, NEW to, to \in Live
    PROVE  Changes(w, Changed(w, n, j, to), n, j, to)
<1> DEFINE v == Changed(w, n, j, to)
           x == ChangedRow(w.asg[j], to)
<1>0. w \in Transactions
  BY DEF Sound
<1>1. v = [w EXCEPT !.asg[j] = x, !.ops[n] = Yes(w.asg[j].lock + 1)]
  BY DEF Changed, ChangedRow
<1>2. x \in ServerRows /\ Yes(w.asg[j].lock + 1) \in SomeAnswer
  BY <1>0, TransactionFields, YesNo DEF ServerRows, ChangedRow
<1> HIDE DEF x, v, ServerRows, SomeAnswer
<1>3. /\ v.asg = [w.asg EXCEPT ![j] = x]
      /\ v.gone = w.gone /\ v.rep = w.rep
      /\ v.ops = [w.ops EXCEPT ![n] = Yes(w.asg[j].lock + 1)]
      /\ v = [asg |-> v.asg, gone |-> w.gone, rep |-> w.rep, ops |-> v.ops]
  BY <1>0, <1>1 DEF Transactions
<1>4. v.asg \in [Ids -> ServerRows] /\ v.ops \in [Commands -> SomeAnswer \cup {NoAnswer}]
  BY <1>0, <1>2, <1>3, TransactionFields
<1>5. v \in Transactions
  BY <1>0, <1>3, <1>4, TransactionFields DEF Transactions
<1> QED
  BY <1>2, <1>3, <1>5 DEF v, x, Changes

LEMMA ChangedAnswers ==
    ASSUME NEW w, Sound(w), NEW n \in Commands, NEW j \in Ids, NEW to \in Live,
           w.asg[j].status \notin Closed \cup {"none"},
           to \in Begun => to = "inProgress" \/ w.asg[j].started,
           outbox[n].op # "complete",
           \/ outbox[n].op = "accept" /\ outbox[n].id # j
           \/ outbox[n].op # "accept" /\ outbox[n].id = j /\ asg[j].status # "none"
    PROVE  \E x, a : Answers(w, Changed(w, n, j, to), n, j, x, a)
<1> DEFINE v == Changed(w, n, j, to)
           x == ChangedRow(w.asg[j], to)
           a == Yes(w.asg[j].lock + 1)
<1>1. /\ v \in Transactions
      /\ v.asg = [w.asg EXCEPT ![j] = x]
      /\ v.gone = w.gone /\ v.rep = w.rep
      /\ v.ops = [w.ops EXCEPT ![n] = a]
      /\ x \in ServerRows
  <2>1. Changes(w, Changed(w, n, j, to), n, j, to)
    BY ChangedFields
  <2> QED
    BY <2>1 DEF Changes
<1>2. w.asg[j].lock \in Nat
  BY TransactionFields DEF Sound
<1>3. a \in SomeAnswer /\ a.rev = w.asg[j].lock + 1
  BY <1>2, YesNo
<1>4. /\ x.status = to /\ x.lock = w.asg[j].lock + 1 /\ to # "none"
      /\ x.status \in Begun => x.started
      /\ w.asg[j].status # "completed"
  BY DEF Live, Closed, ChangedRow
<1> HIDE DEF v, x, a
<1>5. Answers(w, v, n, j, x, a)
  BY <1>1, <1>2, <1>3, <1>4 DEF Answers, OnTime
<1> QED
  BY <1>5 DEF v

LEMMA AcceptAnswers ==
    ASSUME Inductive, NEW w, Sound(w), NEW n \in Commands, w.ops[n] = NoAnswer,
           outbox[n].op = "accept"
    PROVE  \E j \in Ids : \E x, a :
              Answers(w, HandleAccept(w, n, outbox[n].id), n, j, x, a)
<1> DEFINE i == outbox[n].id
<1>0. i \in Ids /\ w \in Transactions
  BY CommandType DEF Inductive, Shape, Sound
<1>1. w.asg[i].status = "none"
  BY DEF Sound, SoundAnswers
<1>2. CASE Current(w) = {}
  <2> DEFINE x == [status |-> "accepted", lock |-> 1, started |-> FALSE]
             v == [w EXCEPT !.asg[i] = x, !.ops[n] = Yes(1)]
  <2>1. HandleAccept(w, n, i) = v
    BY <1>2 DEF HandleAccept
  <2>2. /\ x \in ServerRows /\ x.lock = 1 /\ x.status = "accepted"
        /\ Yes(1) \in SomeAnswer /\ Yes(1).rev = 1
    BY YesNo DEF ServerRows, Live
  <2>0. v = [w EXCEPT !.asg[i] = x, !.ops[n] = Yes(1)]
    OBVIOUS
  <2> HIDE DEF v, x, ServerRows, SomeAnswer
  <2>3. /\ v.asg = [w.asg EXCEPT ![i] = x]
        /\ v.gone = w.gone /\ v.rep = w.rep
        /\ v.ops = [w.ops EXCEPT ![n] = Yes(1)]
        /\ v = [asg |-> v.asg, gone |-> w.gone, rep |-> w.rep, ops |-> v.ops]
    BY <1>0, <2>0 DEF Transactions
  <2>4. v.asg \in [Ids -> ServerRows] /\ v.ops \in [Commands -> SomeAnswer \cup {NoAnswer}]
    BY <1>0, <2>2, <2>3, TransactionFields
  <2>5. v \in Transactions
    BY <1>0, <2>3, <2>4, TransactionFields DEF Transactions
  <2>6. w.asg[i].lock \in Nat
    BY <1>0, TransactionFields
  <2>7. Answers(w, v, n, i, x, Yes(1))
    BY <1>1, <2>2, <2>3, <2>5, <2>6 DEF Answers, OnTime, Begun
  <2> QED
    BY <1>0, <2>1, <2>7
<1>3. CASE Current(w) # {}
  <2> DEFINE j == CHOOSE k \in Current(w) : TRUE
  <2>1. j \in Ids /\ w.asg[j].status # "none"
    BY <1>3 DEF Current
  <2>2. HandleAccept(w, n, i) = IF w.asg[j].status \in Closed
                                THEN Refused(w, n, "conflict")
                                ELSE Changed(w, n, j, "accepted")
    BY <1>3 DEF HandleAccept
  <2> HIDE DEF j
  <2>3. CASE w.asg[j].status \in Closed
    BY <2>1, <2>2, <2>3, RefusedAnswers DEF Bad
  <2>4. CASE w.asg[j].status \notin Closed
    <3>1. \E x, a : Answers(w, Changed(w, n, j, "accepted"), n, j, x, a)
      BY <1>1, <2>1, <2>4, ChangedAnswers DEF Live, Begun
    <3> QED
      BY <2>1, <2>2, <2>4, <3>1
  <2> QED
    BY <2>3, <2>4
<1> QED
  BY <1>2, <1>3

LEMMA ReleaseAnswers ==
    ASSUME NEW w, Sound(w), NEW n \in Commands, NEW i \in Ids,
           outbox[n].op = "release", outbox[n].id = i, asg[i].status # "none"
    PROVE  \E x, a : Answers(w, HandleRelease(w, n, i), n, i, x, a)
<1>0. w \in Transactions /\ (w.asg[i].status \in Begun => w.asg[i].started)
  BY DEF Sound, SoundRows
<1>1. CASE w.asg[i].status # "accepted"
  BY <1>1, RefusedAnswers DEF HandleRelease, Bad
<1>2. CASE w.asg[i].status = "accepted" /\ (w.asg[i].started \/ i \in w.rep)
  BY <1>2, RefusedAnswers DEF HandleRelease, Bad
<1>3. CASE w.asg[i].status = "accepted" /\ ~(w.asg[i].started \/ i \in w.rep)
  <2> DEFINE a == Yes(w.asg[i].lock)
             v == [w EXCEPT !.gone = @ \cup {i}, !.ops[n] = a]
  <2>0. v = [w EXCEPT !.gone = @ \cup {i}, !.ops[n] = a]
    OBVIOUS
  <2>1. HandleRelease(w, n, i) = v
    BY <1>3 DEF HandleRelease
  <2>2. w.asg[i].lock \in Nat /\ w.asg[i] \in ServerRows
    BY <1>0, TransactionFields
  <2>3. a \in SomeAnswer /\ a.rev = w.asg[i].lock
    BY <2>2, YesNo
  <2> HIDE DEF v, a, ServerRows, SomeAnswer
  <2>4. /\ v.asg = w.asg /\ v.rep = w.rep
        /\ v.gone = w.gone \cup {i}
        /\ v.ops = [w.ops EXCEPT ![n] = a]
        /\ v = [asg |-> w.asg, gone |-> v.gone, rep |-> w.rep, ops |-> v.ops]
    BY <1>0, <2>0 DEF Transactions
  <2>5. v.ops \in [Commands -> SomeAnswer \cup {NoAnswer}] /\ v.gone \in SUBSET Ids
    BY <1>0, <2>3, <2>4, TransactionFields
  <2>6. v \in Transactions
    BY <1>0, <2>4, <2>5, TransactionFields DEF Transactions
  <2>7. v.asg = [w.asg EXCEPT ![i] = w.asg[i]]
    BY <1>0, <2>4, TransactionFields
  <2>8. Answers(w, v, n, i, w.asg[i], a)
    BY <1>0, <1>3, <2>2, <2>3, <2>4, <2>6, <2>7 DEF Answers, OnTime
  <2> QED
    BY <2>1, <2>8
<1> QED
  BY <1>1, <1>2, <1>3

\* A report that changes its patrol: it is completed, or late.
LEMMA ReportAnswers ==
    ASSUME NEW w, Sound(w), NEW n \in Commands, NEW i \in Ids,
           outbox[n].op = "complete", outbox[n].id = i, asg[i].status # "none",
           i \notin w.rep, NEW to \in Closed,
           NEW a \in SomeAnswer, a.rev = w.asg[i].lock + 1,
           a.late \/ (to = "completed" /\ outbox[n].base = w.asg[i].lock),
           NEW v,
           v = [asg |-> Changed(w, n, i, to).asg, gone |-> w.gone,
                rep |-> w.rep \cup {i}, ops |-> [w.ops EXCEPT ![n] = a]]
    PROVE  \E x : Answers(w, v, n, i, x, a)
<1> DEFINE u == Changed(w, n, i, to)
           x == ChangedRow(w.asg[i], to)
<1>1. u \in Transactions /\ u.asg = [w.asg EXCEPT ![i] = x] /\ x \in ServerRows
  <2>1. to \in Live
    BY DEF Live
  <2>2. Changes(w, Changed(w, n, i, to), n, i, to)
    BY <2>1, ChangedFields
  <2> QED
    BY <2>2 DEF Changes
<1>2. w \in Transactions /\ w.asg[i].lock \in Nat
  BY TransactionFields DEF Sound
<1>3. x.status = to /\ x.lock = w.asg[i].lock + 1
  BY DEF ChangedRow
<1> HIDE DEF u, x, ServerRows, SomeAnswer
<1>4. /\ v.asg = [w.asg EXCEPT ![i] = x]
      /\ v.gone = w.gone /\ v.rep = w.rep \cup {i}
      /\ v.ops = [w.ops EXCEPT ![n] = a]
  BY <1>1 DEF u
<1>5. v \in Transactions
  <2>1. [w.ops EXCEPT ![n] = a] \in [Commands -> SomeAnswer \cup {NoAnswer}]
    BY <1>2, TransactionFields
  <2>2. u.asg \in [Ids -> ServerRows] /\ w.gone \in SUBSET Ids /\ w.rep \cup {i} \in SUBSET Ids
    BY <1>1, <1>2, TransactionFields
  <2> QED
    BY <2>1, <2>2 DEF Transactions, u
<1>6. to # "none" /\ to \notin Begun /\ w.asg[i].status # "none"
  BY DEF Closed, Begun, Sound, SoundRows
<1>7. Answers(w, v, n, i, x, a)
  BY <1>1, <1>2, <1>3, <1>4, <1>5, <1>6 DEF Answers, OnTime
<1> QED
  BY <1>7

LEMMA CompleteAnswers ==
    ASSUME NEW w, Sound(w), NEW n \in Commands, NEW i \in Ids,
           outbox[n].op = "complete", outbox[n].id = i, asg[i].status # "none"
    PROVE  \E x, a : Answers(w, HandleComplete(w, n, outbox[n]), n, i, x, a)
<1> DEFINE s == w.asg[i].status
           v == HandleComplete(w, n, outbox[n])
           y == Yes(w.asg[i].lock + 1)
           before == \E m \in DOMAIN outbox : /\ outbox[m].op = "complete"
                                              /\ outbox[m].id = i
                                              /\ known[m].status \in Good
<1>0. w \in Transactions /\ w.asg[i].lock \in Nat
      /\ (w.asg[i].status \in Begun => w.asg[i].started)
  BY TransactionFields DEF Sound, SoundRows
<1>9. {"cancelled", "completed"} \subseteq Live \cap Closed
  BY DEF Live, Closed
<1>1. CASE \/ s = "decision"
           \/ i \in w.rep /\ ~before
           \/ s # "cancelled" /\ i \notin w.rep /\ ~BaseIsCurrent(w, outbox[n])
  <2>1. v = Refused(w, n, "conflict")
    BY <1>1 DEF HandleComplete
  <2> QED
    BY <2>1, RefusedAnswers DEF Bad
<1>2. CASE s # "decision" /\ i \in w.rep /\ before
  <2> DEFINE z == Yes(w.asg[i].lock)
             a == [z EXCEPT !.status = "duplicate"]
             u == [w EXCEPT !.ops[n] = a]
  <2>1. v = u
    BY <1>2 DEF HandleComplete
  <2>2. a \in SomeAnswer /\ a.rev = w.asg[i].lock /\ a.status = "duplicate"
    <3>1. z \in SomeAnswer /\ z.rev = w.asg[i].lock
      BY <1>0, YesNo
    <3> HIDE DEF z
    <3> QED
      BY <3>1 DEF SomeAnswer, Good
  <2>3. u = [w EXCEPT !.ops[n] = a]
    OBVIOUS
  <2> HIDE DEF v, u, a, ServerRows, SomeAnswer
  <2>4. /\ u.asg = w.asg /\ u.rep = w.rep /\ u.gone = w.gone
        /\ u.ops = [w.ops EXCEPT ![n] = a]
        /\ u = [asg |-> w.asg, gone |-> w.gone, rep |-> w.rep, ops |-> u.ops]
    BY <1>0, <2>3 DEF Transactions
  <2>5. u.ops \in [Commands -> SomeAnswer \cup {NoAnswer}]
    BY <1>0, <2>2, <2>4, TransactionFields
  <2>6. u \in Transactions
    BY <1>0, <2>4, <2>5, TransactionFields DEF Transactions
  <2>7. u.asg = [w.asg EXCEPT ![i] = w.asg[i]] /\ w.asg[i] \in ServerRows
    BY <1>0, <2>4, TransactionFields
  <2>8. Answers(w, u, n, i, w.asg[i], a)
    BY <1>0, <2>2, <2>4, <2>6, <2>7 DEF Answers, OnTime
  <2> QED
    BY <2>1, <2>8 DEF v
<1>3. CASE s = "cancelled" /\ i \notin w.rep
  <2> DEFINE u == Changed(w, n, i, "cancelled")
             a == [y EXCEPT !.late = TRUE]
  <2>1. v = [u EXCEPT !.rep = @ \cup {i}, !.ops[n].late = TRUE]
    BY <1>3 DEF HandleComplete
  <2>2. y \in SomeAnswer /\ y.rev = w.asg[i].lock + 1
    BY <1>0, YesNo
  <2>3. /\ u \in Transactions /\ u.gone = w.gone /\ u.rep = w.rep
        /\ u.ops = [w.ops EXCEPT ![n] = y]
    <3>1. "cancelled" \in Live
      BY DEF Live, Closed
    <3>2. Changes(w, Changed(w, n, i, "cancelled"), n, i, "cancelled")
      BY <3>1, ChangedFields
    <3> QED
      BY <3>2 DEF Changes
  <2>4. a \in SomeAnswer /\ a.rev = w.asg[i].lock + 1 /\ a.late
    <3> HIDE DEF y
    <3> QED
      BY <2>2 DEF SomeAnswer
  <2> HIDE DEF v, u, a, y, ServerRows, SomeAnswer
  <2>5. v = [asg |-> u.asg, gone |-> w.gone, rep |-> w.rep \cup {i},
             ops |-> [u.ops EXCEPT ![n].late = TRUE]]
    BY <2>1, <2>3 DEF Transactions
  <2>6. [u.ops EXCEPT ![n].late = TRUE] = [w.ops EXCEPT ![n] = a]
    <3>1. w.ops \in [Commands -> SomeAnswer \cup {NoAnswer}]
      BY <1>0, TransactionFields
    <3>2. u.ops[n] = y
      BY <2>3, <3>1
    <3> QED
      BY <2>3, <3>1, <3>2 DEF a
  <2>7. \E x : Answers(w, v, n, i, x, a)
    BY <1>3, <1>9, <2>4, <2>5, <2>6, ReportAnswers DEF u
  <2> QED
    BY <2>7 DEF v
<1>4. CASE /\ s \notin {"decision", "cancelled"} /\ i \notin w.rep
           /\ BaseIsCurrent(w, outbox[n])
  <2> DEFINE u == Changed(w, n, i, "completed")
  <2>1. v = [u EXCEPT !.rep = @ \cup {i}]
    BY <1>4 DEF HandleComplete
  <2>2. y \in SomeAnswer /\ y.rev = w.asg[i].lock + 1
    BY <1>0, YesNo
  <2>3. /\ u \in Transactions /\ u.gone = w.gone /\ u.rep = w.rep
        /\ u.ops = [w.ops EXCEPT ![n] = y]
    <3>1. "completed" \in Live
      BY DEF Live, Closed
    <3>2. Changes(w, Changed(w, n, i, "completed"), n, i, "completed")
      BY <3>1, ChangedFields
    <3> QED
      BY <3>2 DEF Changes
  <2> HIDE DEF v, u, y, ServerRows, SomeAnswer
  <2>4. v = [asg |-> u.asg, gone |-> w.gone, rep |-> w.rep \cup {i},
             ops |-> [w.ops EXCEPT ![n] = y]]
    BY <2>1, <2>3 DEF Transactions
  <2>5. \E x : Answers(w, v, n, i, x, y)
    BY <1>4, <1>9, <2>2, <2>4, ReportAnswers DEF u, BaseIsCurrent
  <2> QED
    BY <2>5 DEF v
<1> QED
  BY <1>1, <1>2, <1>3, <1>4

\* Every handler answers its command, and changes what its answer says.
LEMMA HandledAnswers ==
    ASSUME Inductive, NEW w, Sound(w), NEW n \in Commands, w.ops[n] = NoAnswer
    PROVE  \E j \in Ids : \E x, a : Answers(w, Handled(w, n), n, j, x, a)
<1> DEFINE i == outbox[n].id
           op == outbox[n].op
           s == w.asg[i].status
<1>1. i \in Ids /\ op \in Ops
  BY CommandType DEF Inductive, Shape
<1>2. ~Answered(w, n)
  BY DEF Answered
<1>3. CASE op = "accept"
  <2>1. Handled(w, n) = HandleAccept(w, n, i)
    BY <1>2, <1>3 DEF Handled
  <2> QED
    BY <1>3, <2>1, AcceptAnswers
<1>4. CASE op # "accept" /\ asg[i].status = "none"
  <2>1. Handled(w, n) = Refused(w, n, "conflict")
    BY <1>2, <1>4 DEF Handled
  <2> QED
    BY <1>1, <2>1, RefusedAnswers DEF Bad
<1>5. CASE asg[i].status # "none" /\ op = "release"
  <2>1. Handled(w, n) = HandleRelease(w, n, i)
    BY <1>2, <1>5 DEF Handled
  <2>2. \E x, a : Answers(w, HandleRelease(w, n, i), n, i, x, a)
    BY <1>1, <1>5, ReleaseAnswers
  <2> QED
    BY <1>1, <2>1, <2>2
<1>6. CASE asg[i].status # "none" /\ op = "complete"
  <2>1. Handled(w, n) = HandleComplete(w, n, outbox[n])
    BY <1>2, <1>6 DEF Handled
  <2>2. \E x, a : Answers(w, HandleComplete(w, n, outbox[n]), n, i, x, a)
    BY <1>1, <1>6, CompleteAnswers
  <2> QED
    BY <1>1, <2>1, <2>2
<1>7. CASE asg[i].status # "none" /\ op \in {"start", "handoff", "pause", "resume"}
  <2>1. PICK to \in {"inProgress", "decision", "paused"}, r \in Bad :
           \/ Handled(w, n) = Refused(w, n, r)
           \/ /\ s \notin Closed
              /\ to = "paused" => s = "inProgress"
              /\ Handled(w, n) = Changed(w, n, i, to)
    <3>1. CASE op \in {"start", "handoff"}
      <4>1. Handled(w, n) = IF s \in Closed THEN Refused(w, n, "conflict")
                            ELSE Changed(w, n, i, IF op = "start" THEN "inProgress"
                                                                  ELSE "decision")
        BY <1>2, <1>7, <3>1 DEF Handled
      <4> QED
        BY <4>1 DEF Bad
    <3>2. CASE op = "pause"
      <4>1. Handled(w, n) = IF s # "inProgress" THEN Refused(w, n, "rejected")
                            ELSE Changed(w, n, i, "paused")
        BY <1>2, <1>7, <3>2 DEF Handled
      <4> QED
        BY <4>1 DEF Bad, Closed
    <3>3. CASE op = "resume"
      <4>1. Handled(w, n) = IF s # "paused" THEN Refused(w, n, "rejected")
                            ELSE Changed(w, n, i, "inProgress")
        BY <1>2, <1>7, <3>3 DEF Handled
      <4> QED
        BY <4>1 DEF Bad, Closed
    <3> QED
      BY <1>7, <3>1, <3>2, <3>3
  <2>2. s # "none" /\ (s \in Begun => w.asg[i].started)
    BY <1>1, <1>7 DEF Sound, SoundRows
  <2>3. CASE Handled(w, n) = Refused(w, n, r)
    BY <1>1, <2>3, RefusedAnswers
  <2>4. CASE Handled(w, n) = Changed(w, n, i, to) /\ s \notin Closed
             /\ (to = "paused" => s = "inProgress")
    <3>1. to \in Live /\ (to \in Begun => to = "inProgress" \/ w.asg[i].started)
      BY <2>2, <2>4 DEF Live, Begun
    <3>2. s \notin Closed \cup {"none"} /\ op # "complete" /\ op # "accept"
      BY <1>7, <2>2, <2>4
    <3>3. \E x, a : Answers(w, Changed(w, n, i, to), n, i, x, a)
      BY <1>1, <1>7, <3>1, <3>2, ChangedAnswers
    <3> QED
      BY <1>1, <2>4, <3>3
  <2> QED
    BY <2>1, <2>3, <2>4
<1> QED
  BY <1>1, <1>3, <1>4, <1>5, <1>6, <1>7 DEF Ops

LEMMA HandledSound ==
    ASSUME Inductive, NEW w, Sound(w), NEW n \in Range(run.batch), n \in Commands
    PROVE  /\ Sound(Handled(w, n))
           /\ Handled(w, n).ops[n] # NoAnswer
           /\ \A m \in Commands : w.ops[m] # NoAnswer => Handled(w, n).ops[m] # NoAnswer
<1>1. CASE w.ops[n] # NoAnswer
  <2>1. Handled(w, n) = w
    BY <1>1 DEF Handled, Answered
  <2> QED
    BY <1>1, <2>1
<1>2. CASE w.ops[n] = NoAnswer
  <2>1. PICK j \in Ids : \E x, a : Answers(w, Handled(w, n), n, j, x, a)
    BY <1>2, HandledAnswers
  <2>2. PICK v : v = Handled(w, n)
    OBVIOUS
  <2>3. PICK x, a : Answers(w, v, n, j, x, a)
    BY <2>1, <2>2
  <2>4. Sound(v) /\ v.ops[n] # NoAnswer
    BY <1>2, <2>3, AnswersSound
  <2>5. v.ops = [w.ops EXCEPT ![n] = a] /\ DOMAIN w.ops = Commands
    BY <2>3 DEF Answers, Sound, Transactions
  <2>6. \A m \in Commands : w.ops[m] # NoAnswer => v.ops[m] # NoAnswer
    BY <2>4, <2>5
  <2> QED
    BY <2>2, <2>4, <2>6
<1> QED
  BY <1>1, <1>2

\* What a transaction begins with.
LEMMA BeforeSound ==
    ASSUME Inductive
    PROVE  Sound([asg |-> asg, gone |-> {}, rep |-> reported, ops |-> known])
<1> DEFINE w == [asg |-> asg, gone |-> {}, rep |-> reported, ops |-> known]
<1>0. w.asg = asg /\ w.gone = {} /\ w.rep = reported /\ w.ops = known
  OBVIOUS
<1>1. known \in [Commands -> SomeAnswer \cup {NoAnswer}]
  <2> DEFINE A == Answer \cup {NoAnswer}
             B == SomeAnswer \cup {NoAnswer}
  <2>1. known \in Seq(A) /\ Commands = 1 .. Len(known)
    BY QueueIsTyped DEF Inductive, Shape, TypeOK
  <2>2. A \in SUBSET B
    BY ConstantsAssumption DEF Answer, SomeAnswer, Locks
  <2> HIDE DEF A, B
  <2>3. known \in [Commands -> B]
    BY <2>1, <2>2
  <2> QED
    BY <2>3 DEF B
<1>2. w \in Transactions
  BY <1>1, ServerRowsType DEF Transactions, Inductive, Shape, TypeOK
<1> HIDE DEF w
<1>3. SoundRows(w)
  <2>1. \A i \in Ids : asg[i].lock \in Nat
    BY ServerRowsType
  <2> QED
    BY <1>0, <2>1 DEF SoundRows, Inductive, BegunIsStarted
<1>4. SoundAnswers(w)
  <2>1. ASSUME NEW n \in Commands
        PROVE  LET i == outbox[n].id
                   a == w.ops[n]
               IN  /\ known[n] # NoAnswer => a = known[n]
                   /\ outbox[n].op = "accept" /\ a = NoAnswer => w.asg[i].status = "none"
                   /\ outbox[n].op # "accept" /\ Drawn(i) => a.status \notin Good
                   /\ a.status \in Good /\ w.asg[i].status # "none" => a.rev <= w.asg[i].lock
    <3>1. outbox[n].id \in Ids
      BY CommandType DEF Inductive, Shape
    <3>2. outbox[n].op = "accept" /\ known[n] = NoAnswer => Drawn(outbox[n].id)
      BY DEF Drawn
    <3>3. Drawn(outbox[n].id) => asg[outbox[n].id].status = "none" /\ known[n].status \notin Good
      BY <3>1 DEF Inductive, Draws, UnbornHasNoRevision
    <3>4. known[n].status \in Good /\ asg[outbox[n].id].status # "none"
             => known[n].rev <= asg[outbox[n].id].lock
      BY DEF Inductive, Behind, AnswersBehind
    <3> QED
      BY <1>0, <3>1, <3>2, <3>3, <3>4
  <2> QED
    BY <2>1 DEF SoundAnswers
<1>5. SoundReports(w)
  BY <1>0 DEF SoundReports, Inductive, CompletedForGood
<1>6. SoundCounts(w)
  BY <1>0 DEF SoundCounts, Inductive, Shape, Counted
<1>7. SoundReturns(w)
  BY <1>0 DEF SoundReturns
<1> QED
  BY <1>2, <1>3, <1>4, <1>5, <1>6, <1>7 DEF Sound, w

\* What the transaction of this batch ends with.
LEMMA TransactionSound ==
    ASSUME Inductive
    PROVE  /\ Sound(Transaction(run.batch))
           /\ \A k \in DOMAIN run.batch :
                 Transaction(run.batch).ops[run.batch[k]] # NoAnswer
<1>1. PICK s : s = run.batch
  OBVIOUS
<1>2. /\ Len(s) \in Nat /\ DOMAIN s = 1 .. Len(s)
      /\ \A k \in 1 .. Len(s) : s[k] \in Range(run.batch) /\ s[k] \in Commands
  <2>1. run.batch \in Seq(1 .. MaxCommands)
    BY DEF Inductive, Shape, TypeOK
  <2>2. \A k \in DOMAIN run.batch : run.batch[k] \in Commands
    BY DEF Inductive, Shape, Lengths
  <2> QED
    BY <1>1, <2>1, <2>2 DEF Range
<1> DEFINE n == Len(s)
           before == [asg |-> asg, gone |-> {}, rep |-> reported, ops |-> known]
           S == {w \in Transactions : Sound(w)}
           G == [x \in S \X (1 .. n) |-> Handled(x[1], s[x[2]])]
           IsRun(f) == f = [k \in 0 .. n |->
                              IF k = 0 THEN before ELSE Handled(f[k - 1], s[k])]
<1>3. before \in S
  <2>1. Sound(before)
    BY BeforeSound
  <2> HIDE DEF before
  <2> QED
    BY <2>1 DEF Sound
<1> HIDE DEF before
<1>4. ASSUME NEW w \in S, NEW k \in 1 .. n
      PROVE  /\ Handled(w, s[k]) \in S
             /\ Handled(w, s[k]).ops[s[k]] # NoAnswer
             /\ \A m \in Commands : w.ops[m] # NoAnswer => Handled(w, s[k]).ops[m] # NoAnswer
  <2>1. PICK m : m = s[k]
    OBVIOUS
  <2>2. m \in Range(run.batch) /\ m \in Commands
    BY <1>2, <2>1
  <2>3. Sound(w)
    OBVIOUS
  <2> HIDE DEF S
  <2>4. /\ Sound(Handled(w, m))
        /\ Handled(w, m).ops[m] # NoAnswer
        /\ \A l \in Commands : w.ops[l] # NoAnswer => Handled(w, m).ops[l] # NoAnswer
    BY <2>2, <2>3, HandledSound
  <2>5. Handled(w, m) \in S
    BY <2>4 DEF S, Sound
  <2> QED
    BY <2>1, <2>4, <2>5
<1>5. G \in [S \X (1 .. n) -> S]
  <2>1. \A w \in S, k \in 1 .. n : Handled(w, s[k]) \in S
    BY <1>4
  <2> HIDE DEF S
  <2> QED
    BY <2>1
<1> HIDE DEF S, G, n
<1>6. PICK h \in [0 .. n -> S] :
         h[0] = before /\ \A k \in 1 .. n : h[k] = G[<<h[k - 1], k>>]
  <2>1. n \in Nat
    BY <1>2 DEF n
  <2>2. PICK S1, G1, w1 : S1 = S /\ G1 = G /\ w1 = before
    OBVIOUS
  <2>3. StepFunction(G1, S1, n) /\ w1 \in S1
    BY <1>3, <1>5, <2>2 DEF StepFunction
  <2>4. PICK h : StepsFrom(h, S1, w1, G1, n)
    BY <2>1, <2>3, StepsExist
  <2> QED
    BY <2>2, <2>4 DEF StepsFrom
<1> USE DEF n
<1>7. IsRun(h)
  <2>1. ASSUME NEW k \in 1 .. n PROVE G[<<h[k - 1], k>>] = Handled(h[k - 1], s[k])
    <3>1. h[k - 1] \in S
      BY <1>2
    <3> QED
      BY <3>1 DEF G
  <2>2. ASSUME NEW k \in 0 .. n
        PROVE  h[k] = IF k = 0 THEN before ELSE Handled(h[k - 1], s[k])
    <3>1. CASE k = 0
      BY <1>6, <3>1
    <3>2. CASE k # 0
      <4>1. k \in 1 .. n
        BY <1>2, <3>2
      <4> QED
        BY <1>6, <2>1, <3>2, <4>1
    <3> QED
      BY <3>1, <3>2
  <2> QED
    BY <2>2
<1> DEFINE w == CHOOSE f : IsRun(f)
<1>8. IsRun(w)
  BY <1>7
<1>9. Transaction(s) = w[n]
  BY DEF Transaction, before
<1> HIDE DEF w, IsRun
<1>10. w[0] = before /\ \A k \in 1 .. n : w[k] = Handled(w[k - 1], s[k])
  BY <1>2, <1>8 DEF IsRun
<1> DEFINE T == {k \in 0 .. n : /\ w[k] \in S
                                /\ \A j \in 1 .. k : w[k].ops[s[j]] # NoAnswer}
<1>11. n \in T
  <2>1. T \in SUBSET (0 .. n) /\ 0 \in T
    BY <1>2, <1>3, <1>10
  <2>2. ASSUME NEW k \in 1 .. n, k - 1 \in T PROVE k \in T
    <3>1. /\ w[k - 1] \in S /\ w[k] = Handled(w[k - 1], s[k])
          /\ \A j \in 1 .. k - 1 : w[k - 1].ops[s[j]] # NoAnswer
      BY <1>10, <2>2
    <3>2. /\ w[k] \in S /\ w[k].ops[s[k]] # NoAnswer
          /\ \A m \in Commands : w[k - 1].ops[m] # NoAnswer => w[k].ops[m] # NoAnswer
      BY <1>4, <3>1
    <3>3. ASSUME NEW j \in 1 .. k PROVE w[k].ops[s[j]] # NoAnswer
      <4>1. CASE j = k
        BY <3>2, <4>1
      <4>2. CASE j # k
        <5>1. j \in 1 .. k - 1 /\ j \in 1 .. n
          BY <1>2, <4>2
        <5> QED
          BY <1>2, <3>1, <3>2, <5>1
      <4> QED
        BY <4>1, <4>2
    <3> QED
      BY <3>2, <3>3
  <2> HIDE DEF T
  <2> QED
    BY <1>2, <2>1, <2>2, Climb
<1> QED
  BY <1>1, <1>2, <1>9, <1>11 DEF S

LEMMA RepeatedType ==
    ASSUME NEW a \in Answer
    PROVE  /\ Repeated(a) \in Answer
           /\ Repeated(a).rev = a.rev
           /\ Repeated(a).status \in Good => a.status \in Good
BY DEF Repeated, Answer, Good

LEMMA HandleStep ==
    ASSUME Inductive, Handle PROVE Inductive'
<1>1. PICK w : w = Transaction(run.batch)
  OBVIOUS
<1>2. Sound(w) /\ \A k \in DOMAIN run.batch : w.ops[run.batch[k]] # NoAnswer
  BY <1>1, TransactionSound
<1>3. PICK s, answers : s = run.batch /\ answers = run'.answers
  OBVIOUS
<1>4. /\ run.phase = "posted"
      /\ asg' = [i \in Ids |-> IF i \in w.gone THEN NoAsg ELSE w.asg[i]]
      /\ reported' = w.rep
      /\ known' = w.ops
      /\ run' = [run EXCEPT !.phase = "answered",
                            !.answers = [k \in DOMAIN run.batch |->
                               LET n == run.batch[k]
                               IN  IF known[n] = NoAnswer THEN w.ops[n]
                                   ELSE Repeated(known[n])]]
      /\ UNCHANGED <<row, offered, outbox, submitting, boot, moves>>
  BY <1>1 DEF Handle, phoneVars
<1>5. /\ run'.phase = "answered" /\ run'.batch = s
      /\ run' = [phase |-> "answered", batch |-> s, answers |-> answers]
      /\ answers = [k \in DOMAIN s |-> IF known[s[k]] = NoAnswer THEN w.ops[s[k]]
                                       ELSE Repeated(known[s[k]])]
  <2>1. run \in [phase : {"idle", "ready", "posted", "answered"},
                 batch : Seq(1 .. MaxCommands), answers : Seq(Answer)]
    BY DEF Inductive, Shape, TypeOK
  <2> QED
    BY <1>3, <1>4, <2>1
<1>6. /\ w.asg \in [Ids -> ServerRows] /\ w.gone \in SUBSET Ids /\ w.rep \in SUBSET Ids
      /\ w.ops \in [Commands -> SomeAnswer \cup {NoAnswer}]
  BY <1>2 DEF Sound, Transactions
<1>7. ASSUME NEW i \in Ids
      PROVE  /\ i \in w.gone => asg'[i] = NoAsg /\ asg'[i].status = "none"
             /\ i \notin w.gone => asg'[i] = w.asg[i]
             /\ w.asg[i] \in ServerRows
  BY <1>4, <1>6 DEF NoAsg
<1>8. /\ Commands' = Commands /\ Used' = Used
      /\ \A n \in Commands : outbox[n].id \in Ids /\ outbox[n].base \in Nat
  BY <1>4, CommandType DEF Inductive, Shape, Commands, Used
<1>9. /\ \A i \in Ids : w.asg[i].lock \in Locks
      /\ \A n \in Commands : w.ops[n].rev \in Locks
  <2> DEFINE K == Cardinality(AnsweredIn(w.ops))
  <2>1. K \in Nat /\ K <= MaxCommands
    BY AnsweredCount
  <2>2. /\ \A i \in Ids : w.asg[i].lock <= moves + K
        /\ \A n \in Commands : w.ops[n].rev <= moves + K
    BY <1>2 DEF Sound, SoundCounts
  <2> HIDE DEF K
  <2>3. /\ \A i \in Ids : w.asg[i].lock \in Nat
        /\ \A n \in Commands : w.ops[n].rev \in Nat
    BY <1>6 DEF ServerRows, SomeAnswer, NoAnswer
  <2>4. moves \in 0 .. MaxMoves
    BY DEF Inductive, Shape, TypeOK
  <2> QED
    BY <2>1, <2>2, <2>3, <2>4, ConstantsAssumption DEF Locks
<1>10. \A n \in Commands : /\ w.ops[n] \in Answer \cup {NoAnswer}
                           /\ known[n] \in Answer \cup {NoAnswer}
  <2>1. ASSUME NEW n \in Commands PROVE w.ops[n] \in Answer \cup {NoAnswer}
    BY <1>6, <1>9 DEF SomeAnswer, Answer
  <2> QED
    BY <2>1, CommandType DEF Inductive, Shape
<1>11. /\ Len(s) \in Nat /\ DOMAIN s = 1 .. Len(s)
       /\ \A k \in 1 .. Len(s) : s[k] \in Commands
  BY <1>3, BatchType
<1>12. ASSUME NEW k \in 1 .. Len(s)
       PROVE  /\ answers[k] \in Answer
              /\ answers[k].status \in Good => w.ops[s[k]].status \in Good
              /\ answers[k].rev = w.ops[s[k]].rev
  <2>1. s[k] \in Commands /\ w.ops[s[k]] # NoAnswer
    BY <1>2, <1>3, <1>11
  <2>2. CASE known[s[k]] = NoAnswer
    <3>1. answers[k] = w.ops[s[k]]
      BY <1>5, <1>11, <2>2
    <3> QED
      BY <1>10, <2>1, <3>1
  <2>3. CASE known[s[k]] # NoAnswer
    <3>1. answers[k] = Repeated(known[s[k]])
      BY <1>5, <1>11, <2>3
    <3>2. w.ops[s[k]] = known[s[k]]
      BY <1>2, <2>1, <2>3 DEF Sound, SoundAnswers
    <3>3. known[s[k]] \in Answer
      BY <1>10, <2>1, <2>3
    <3> QED
      BY <3>1, <3>2, <3>3, RepeatedType
  <2> QED
    BY <2>2, <2>3
<1>13. DOMAIN answers = 1 .. Len(s) /\ answers \in Seq(Answer) /\ Len(answers) = Len(s)
  <2>1. answers \in [1 .. Len(s) -> Answer]
    <3>1. answers = [k \in 1 .. Len(s) |-> answers[k]]
      BY <1>5, <1>11
    <3> QED
      BY <1>12, <3>1
  <2> HIDE DEF Answer
  <2> QED
    BY <1>11, <2>1
<1>14. Shape'
  <2>1. TypeOK'
    <3>1. asg' \in [Ids -> [status : Live \cup {"none"}, lock : Locks,
                            started : BOOLEAN]]
      <4>1. NoAsg \in [status : Live \cup {"none"}, lock : Locks, started : BOOLEAN]
        BY ConstantsAssumption DEF NoAsg, Locks
      <4>2. \A i \in Ids : w.asg[i] \in [status : Live \cup {"none"}, lock : Locks,
                                         started : BOOLEAN]
        BY <1>7, <1>9 DEF ServerRows
      <4> HIDE DEF NoAsg
      <4> QED
        BY <1>4, <4>1, <4>2
    <3>2. known' \in Seq(Answer \cup {NoAnswer}) /\ Len(known') = Len(outbox)
      <4> DEFINE A == Answer \cup {NoAnswer}
                 m == Len(outbox)
      <4>1. w.ops = [n \in 1 .. m |-> w.ops[n]] /\ m \in Nat /\ Commands = 1 .. m
        BY <1>6, QueueIsTyped
      <4> HIDE DEF A, m
      <4>2. \A n \in 1 .. m : w.ops[n] \in A
        BY <1>10, <4>1 DEF A
      <4>3. w.ops \in [1 .. m -> A]
        BY <4>1, <4>2
      <4>4. w.ops \in Seq(A) /\ Len(w.ops) = m
        BY <4>1, <4>3
      <4> QED
        BY <1>4, <4>4 DEF A, m
    <3>3. run' \in [phase : {"idle", "ready", "posted", "answered"},
                    batch : Seq(1 .. MaxCommands), answers : Seq(Answer)]
      <4>1. s \in Seq(1 .. MaxCommands)
        BY <1>3 DEF Inductive, Shape, TypeOK
      <4> QED
        BY <1>5, <1>13, <4>1
    <3> QED
      BY <1>4, <1>6, <3>1, <3>2, <3>3 DEF Inductive, Shape, TypeOK
  <2>2. Lengths'
    BY <1>3, <1>4, <1>5, <1>8 DEF Inductive, Shape, Lengths
  <2>3. AnswersMatch'
    <3>1. run'.answers = answers /\ run'.batch = s /\ known' = w.ops
      BY <1>3, <1>4, <1>5
    <3> QED
      BY <1>11, <1>12, <1>13, <3>1 DEF AnswersMatch
  <2>4. Counted'
    <3> DEFINE K == Cardinality(AnsweredIn(w.ops))
    <3>1. K \in Nat /\ AnsweredIn(known)' = AnsweredIn(w.ops) /\ moves \in Nat
      <4>1. AnsweredIn(known)' = AnsweredIn(w.ops)
        BY <1>4, <1>8 DEF AnsweredIn
      <4>2. moves \in Nat
        BY ConstantsAssumption DEF Inductive, Shape, TypeOK
      <4> QED
        BY <4>1, <4>2, AnsweredCount
    <3>2. /\ \A i \in Ids : w.asg[i].lock <= moves + K
          /\ \A n \in Commands : w.ops[n].rev <= moves + K
      BY <1>2 DEF Sound, SoundCounts
    <3>3. moves + K >= NoAsg.lock
      BY <3>1 DEF NoAsg
    <3>4. \A i \in Ids : asg'[i].lock <= moves' + Cardinality(AnsweredIn(known)')
      BY <1>4, <1>7, <3>1, <3>2, <3>3
    <3>5. \A n \in Commands : w.ops[n].rev <= moves' + Cardinality(AnsweredIn(known)')
      BY <1>4, <3>1, <3>2
    <3> QED
      BY <1>4, <1>8, <3>4, <3>5 DEF Counted
  <2> QED
    BY <2>1, <2>2, <2>3, <2>4 DEF Shape
<1>15. ASSUME NEW i \in Ids, asg'[i].status # "none"
       PROVE  /\ i \notin w.gone /\ asg'[i] = w.asg[i] /\ w.asg[i].status # "none"
              /\ asg[i].lock \in Nat /\ w.asg[i].lock \in Nat
              /\ \/ asg[i].status # "none" /\ asg[i].lock <= w.asg[i].lock
                 \/ Drawn(i)
  <2>1. asg[i].lock \in Nat /\ w.asg[i].lock \in Nat
    BY <1>7, ServerRowsType DEF ServerRows
  <2> QED
    BY <1>2, <1>7, <1>15, <2>1 DEF Sound, SoundRows
<1>16. \A i \in Ids : row[i].rev \in Nat
  BY RowType
<1>17. Behind'
  <2>1. RevisionNeverAhead'
    <3>1. ASSUME NEW i \in Ids, asg'[i].status # "none"
          PROVE  /\ row[i].rev <= asg'[i].lock
                 /\ \A n \in Commands : outbox[n].id = i => outbox[n].base <= asg'[i].lock
      <4>1. CASE asg[i].status # "none" /\ asg[i].lock <= w.asg[i].lock
        <5>1. /\ row[i].rev <= asg[i].lock
              /\ \A n \in Commands : outbox[n].id = i => outbox[n].base <= asg[i].lock
          BY <4>1 DEF Inductive, Behind, RevisionNeverAhead, Commands
        <5> QED
          BY <1>8, <1>15, <1>16, <3>1, <4>1, <5>1
      <4>2. CASE Drawn(i)
        <5>1. /\ row[i].rev = 0
              /\ \A n \in Commands : outbox[n].id = i => outbox[n].base = 0
          BY <4>2 DEF Inductive, Draws, UnbornHasNoRevision
        <5> QED
          BY <1>15, <3>1, <5>1
      <4> QED
        BY <1>15, <3>1, <4>1, <4>2
    <3> QED
      BY <1>4, <1>8, <3>1 DEF RevisionNeverAhead, Commands
  <2>2. AnswersBehind'
    <3>1. ASSUME NEW n \in Commands, w.ops[n].status \in Good,
                 asg'[outbox[n].id].status # "none"
          PROVE  w.ops[n].rev <= asg'[outbox[n].id].lock
      BY <1>2, <1>8, <1>15, <3>1 DEF Sound, SoundAnswers
    <3> QED
      BY <1>4, <1>8, <3>1 DEF AnswersBehind
  <2>3. BootBehind'
    <3>1. ASSUME boot # <<>>, NEW i \in Ids, boot[1][i].status # "none",
                 asg'[i].status # "none"
          PROVE  boot[1][i].lock <= asg'[i].lock
      <4>1. boot[1][i].lock \in Nat
        BY <3>1, ServerRowsType, ConstantsAssumption DEF BootType, Locks
      <4>2. ~Drawn(i)
        BY <3>1 DEF Inductive, Draws, UnbornHasNoRevision
      <4>3. asg[i].status # "none" /\ asg[i].lock <= w.asg[i].lock
        BY <1>15, <3>1, <4>2
      <4>4. boot[1][i].lock <= asg[i].lock
        BY <3>1, <4>3 DEF Inductive, Behind, BootBehind
      <4> QED
        BY <1>15, <3>1, <4>1, <4>3, <4>4
    <3> QED
      BY <1>4, <3>1 DEF BootBehind
  <2> QED
    BY <2>1, <2>2, <2>3 DEF Behind
<1>18. Draws'
  <2>1. OneAccept'
    BY <1>4, <1>8 DEF Inductive, Draws, OneAccept
  <2>2. UnbornHasNoRevision'
    <3>1. ASSUME NEW i \in Ids, Drawn(i)'
          PROVE  /\ asg'[i].status = "none"
                 /\ row[i].rev = 0
                 /\ boot # <<>> => boot[1][i].status = "none"
                 /\ \A n \in Commands : outbox[n].id = i
                       => outbox[n].base = 0 /\ w.ops[n].status \notin Good
      <4>1. PICK n \in Commands : /\ outbox[n].op = "accept"
                                  /\ outbox[n].id = i
                                  /\ w.ops[n] = NoAnswer
        BY <1>4, <1>8, <3>1 DEF Drawn
      <4>2. known[n] = NoAnswer /\ w.asg[i].status = "none"
        BY <1>2, <4>1 DEF Sound, SoundAnswers
      <4>3. Drawn(i)
        BY <4>1, <4>2 DEF Drawn
      <4>4. asg'[i].status = "none"
        BY <1>7, <4>2
      <4>5. ASSUME NEW m \in Commands, outbox[m].id = i PROVE w.ops[m].status \notin Good
        <5>1. CASE outbox[m].op = "accept"
          <6>1. m = n
            BY <4>1, <4>5, <5>1 DEF Inductive, Draws, OneAccept
          <6> QED
            BY <4>1, <6>1 DEF NoAnswer, Good
        <5>2. CASE outbox[m].op # "accept"
          BY <1>2, <4>3, <4>5, <5>2 DEF Sound, SoundAnswers
        <5> QED
          BY <5>1, <5>2
      <4> QED
        BY <4>3, <4>4, <4>5 DEF Inductive, Draws, UnbornHasNoRevision
    <3> QED
      BY <1>4, <1>8, <3>1 DEF UnbornHasNoRevision
  <2>3. UnusedIsNew'
    <3>1. ASSUME NEW i \in Ids \ Used, asg'[i].status = "none"
          PROVE  row[i] = Absent /\ (boot # <<>> => boot[1][i].status = "none")
      <4>1. i \notin w.gone
        BY <1>2, BatchType DEF Sound, SoundReturns, Used
      <4>2. asg[i].status = "none"
        BY <1>2, <1>7, <3>1, <4>1 DEF Sound, SoundRows
      <4> QED
        BY <4>2 DEF Inductive, Draws, UnusedIsNew
    <3> QED
      BY <1>4, <1>8, <3>1 DEF UnusedIsNew
  <2> QED
    BY <2>1, <2>2, <2>3 DEF Draws
<1>19. BegunIsStarted'
  <2>1. \A i \in Ids : asg'[i].status \in Begun => asg'[i].started
    BY <1>2, <1>7 DEF Sound, SoundRows, Begun
  <2> QED
    BY <1>4, <1>8, <2>1 DEF Inductive, BegunIsStarted
<1>20. BatchKept' /\ OneReport'
  BY <1>3, <1>4, <1>5 DEF Inductive, BatchKept, OneReport, QueuedReports
<1>21. CompletedForGood'
  <2>1. ASSUME NEW n \in Commands, OnTime(n, w.ops[n])
        PROVE  /\ asg'[outbox[n].id].status = "completed"
               /\ outbox[n].id \in w.rep
               /\ outbox[n].base + 1 = asg'[outbox[n].id].lock
    <3>1. /\ w.asg[outbox[n].id].status = "completed"
          /\ outbox[n].id \in w.rep
          /\ outbox[n].base + 1 = w.asg[outbox[n].id].lock
      BY <1>2, <2>1 DEF Sound, SoundReports
    <3>2. outbox[n].id \notin w.gone
      BY <1>2, <2>1 DEF Sound, SoundReturns
    <3> QED
      BY <1>7, <1>8, <3>1, <3>2
  <2> QED
    BY <1>4, <1>8, <2>1 DEF CompletedForGood, OnTime
<1> QED
  BY <1>14, <1>17, <1>18, <1>19, <1>20, <1>21 DEF Inductive

-----------------------------------------------------------------------------
(* The invariant *)

LEMMA InitInductive == ASSUME Init PROVE Inductive
<1>1. Commands = {}
  BY DEF Init, Commands
<1>2. asg \in [Ids -> [status : {"none", "accepted"}, lock : {0}, started : {FALSE}]]
      /\ offered \in BOOLEAN
  <2>1. PICK given : /\ asg = [i \in Ids |->
                               IF i \in given THEN [NoAsg EXCEPT !.status = "accepted"]
                               ELSE NoAsg]
                     /\ offered = (given = {})
    BY DEF Init
  <2>2. NoAsg \in [status : {"none", "accepted"}, lock : {0}, started : {FALSE}]
    BY DEF NoAsg
  <2>3. [NoAsg EXCEPT !.status = "accepted"]
           \in [status : {"none", "accepted"}, lock : {0}, started : {FALSE}]
    BY DEF NoAsg
  <2> HIDE DEF NoAsg
  <2> QED
    BY <2>1, <2>2, <2>3
<1>3. /\ row = [i \in Ids |-> Absent] /\ outbox = <<>> /\ submitting = {}
      /\ run = Idle /\ boot = <<>> /\ reported = {} /\ known = <<>> /\ moves = 0
  BY DEF Init
<1>4. 0 \in Locks
  BY ConstantsAssumption DEF Locks
<1>5. Shape
  <2>1. TypeOK
    <3>1. row \in [Ids -> [status : Active \cup Terminal \cup {"none"},
                           rev : Locks, started : BOOLEAN]]
      BY <1>3, <1>4 DEF Absent
    <3>2. asg \in [Ids -> [status : Live \cup {"none"}, lock : Locks,
                           started : BOOLEAN]]
      BY <1>2, <1>4 DEF Live
    <3>3. run \in [phase : {"idle", "ready", "posted", "answered"},
                   batch : Seq(1 .. MaxCommands), answers : Seq(Answer)]
      BY <1>3 DEF Idle
    <3> QED
      BY <1>2, <1>3, <3>1, <3>2, <3>3, ConstantsAssumption DEF TypeOK
  <2>2. Lengths
    BY <1>3, ConstantsAssumption DEF Lengths, Idle
  <2>3. AnswersMatch
    BY <1>3 DEF AnswersMatch, Idle
  <2>4. Counted
    <3>1. AnsweredIn(known) = {} /\ Cardinality({}) = 0
      BY <1>1, FS_EmptySet DEF AnsweredIn
    <3>2. \A i \in Ids : asg[i].lock = 0
      BY <1>2
    <3> QED
      <4>1. moves + Cardinality(AnsweredIn(known)) = 0
        BY <1>3, <3>1
      <4>2. \A i \in Ids : asg[i].lock <= moves + Cardinality(AnsweredIn(known))
        BY <3>2, <4>1
      <4> QED
        BY <1>1, <4>2 DEF Counted
  <2> QED
    BY <2>1, <2>2, <2>3, <2>4 DEF Shape
<1>6. Behind
  <2>1. \A i \in Ids : row[i].rev = 0 /\ asg[i].lock = 0
    BY <1>2, <1>3 DEF Absent
  <2>2. RevisionNeverAhead
    BY <1>1, <2>1 DEF RevisionNeverAhead, Commands
  <2> QED
    BY <1>1, <1>3, <2>2 DEF Behind, AnswersBehind, BootBehind
<1>7. Draws
  BY <1>1, <1>3 DEF Draws, OneAccept, UnbornHasNoRevision, UnusedIsNew, Drawn
<1>8. BegunIsStarted
  BY <1>1, <1>2, <1>3 DEF BegunIsStarted, Begun, Absent
<1>9. BatchKept
  BY <1>3 DEF BatchKept, Range, Idle
<1>10. OneReport
  BY <1>3 DEF OneReport, QueuedReports
<1>11. CompletedForGood
  BY <1>1 DEF CompletedForGood
<1> QED
  BY <1>5, <1>6, <1>7, <1>8, <1>9, <1>10, <1>11 DEF Inductive

LEMMA StutterStep ==
    ASSUME Inductive, UNCHANGED vars PROVE Inductive'
<1>1. PhoneKeeps
  BY SameRows DEF vars, serverVars
<1> QED
  BY <1>1, QuietStep DEF vars

LEMMA NextInductive ==
    ASSUME Inductive, [Next]_vars PROVE Inductive'
<1>1. CASE Employee
  BY <1>1, EmployeeStep
<1>2. CASE Sync
  BY <1>2, StartRunStep, RecoverStep, ReconcileStep, SendStep, EndRunStep,
     ReceiveStep, FailStep, SessionEndsStep DEF Sync
<1>3. CASE Refresh
  BY <1>3, FetchStep, SaveStep DEF Refresh
<1>4. CASE Kill
  BY <1>4, KillStep
<1>5. CASE Handle
  BY <1>5, HandleStep
<1>6. CASE Dispatcher
  BY <1>6, DispatchStep DEF Dispatcher
<1>7. CASE UNCHANGED vars
  BY <1>7, StutterStep
<1> QED
  BY <1>1, <1>2, <1>3, <1>4, <1>5, <1>6, <1>7 DEF Next

\* What is known of one patrol request on one phone, its server and its
\* dispatcher, whatever is lost, killed, repeated or late.
THEOREM InductiveAlways == Spec => []Inductive
<1>1. Init => Inductive
  BY InitInductive
<1>2. Inductive /\ [Next]_vars => Inductive'
  BY NextInductive
<1> QED
  BY <1>1, <1>2, PTL DEF Spec

\* Rows, commands, batches, bootstraps and answers have the shape the two
\* databases give them; no revision outgrows the number of commands answered
\* and moves made.
THEOREM TypesHold == Spec => []TypeOK
<1>1. Inductive => TypeOK
  BY DEF Inductive, Shape
<1> QED
  BY <1>1, InductiveAlways, PTL

\* However often answers, bootstraps, kills and repetitions overtake each
\* other, the phone never has, nor bases a command on, a revision that the
\* server has not reached.
THEOREM RevisionsHold == Spec => []RevisionNeverAhead
<1>1. Inductive => RevisionNeverAhead
  BY DEF Inductive, Behind
<1> QED
  BY <1>1, InductiveAlways, PTL

\* completeAssignmentLocally makes no second report of a patrol while one is
\* queued, being sent or accepted, whatever the sync does in between.
THEOREM OneReportHolds == Spec => []OneReportUnderWay
<1>1. ASSUME Inductive, NEW i \in Ids PROVE Cardinality(QueuedReports(i)) <= 1
  <2>1. CASE QueuedReports(i) = {}
    BY <2>1, FS_EmptySet
  <2>2. CASE QueuedReports(i) # {}
    <3>1. PICK n \in QueuedReports(i) : TRUE
      BY <2>2
    <3>2. QueuedReports(i) = {n}
      BY <1>1, <3>1 DEF Inductive, OneReport
    <3> QED
      BY <3>2, FS_Singleton
  <2> QED
    BY <2>1, <2>2
<1>2. Inductive => OneReportUnderWay
  BY <1>1 DEF OneReportUnderWay, QueuedReports
<1> QED
  BY <1>2, InductiveAlways, PTL

\* The patrol a report belongs to stays on the phone: nothing that is begun
\* can be returned, and no answer or refresh removes its row.
THEOREM ReportsKeepTheirPatrols == Spec => []ReportKeepsItsPatrol
<1>1. Inductive => ReportKeepsItsPatrol
  BY DEF Inductive, BegunIsStarted, Working, ReportKeepsItsPatrol, Commands
<1> QED
  BY <1>1, InductiveAlways, PTL

\* A report the server accepted in time was made on the revision the patrol
\* had, and nothing has changed the patrol since.
THEOREM CompletionsHold == Spec => []CompletedAsPlanned
<1>1. Inductive => CompletedAsPlanned
  BY DEF Inductive, CompletedForGood, OnTime, CompletedAsPlanned, Commands
<1> QED
  BY <1>1, InductiveAlways, PTL
=============================================================================
