-------------------------- MODULE OutboxSyncProofs --------------------------
(***************************************************************************)
(* Theorems about OutboxSync: types, and the invariants that tie the       *)
(* phone's outbox, the requests under way and the server's tables          *)
(* together, for any set of commands, any number of requests and faults;   *)
(* and that the outbox implements ExactlyOnce.                             *)
(***************************************************************************)
EXTENDS OutboxRefinement, TLAPS

USE DEF Answers, Queued, Acked, Statuses

LEMMA FreePostType == FreePost \in PostType /\ FailedPost \in PostType
<1>1. FreePost \in PostType
  BY DEF FreePost, PostType
<1> QED
  BY <1>1 DEF FailedPost, PostType

LEMMA NewPostType ==
    ASSUME NEW B \in SUBSET Commands
    PROVE  NewPost(B) \in PostType
BY DEF NewPost, FreePost, PostType

\* The updates of the outbox keep the type of status.
LEMMA MovedType ==
    ASSUME TypeOK, NEW S, NEW From, NEW s \in Statuses
    PROVE  Moved(S, From, s) \in [Commands -> Statuses]
BY DEF TypeOK, Moved

LEMMA AppliedType ==
    ASSUME TypeOK, NEW S, NEW ans \in [Commands -> Answers \cup {"none"}]
    PROVE  Applied(S, ans) \in [Commands -> Statuses]
BY DEF TypeOK, Applied

LEMMA BatchType ==
    NextBatch \subseteq Commands /\ Confirmable(Unconfirmed) \subseteq Commands
BY ConstantsAssumption DEF NextBatch, Unblocked, Sendable, Confirmable, Unconfirmed

LEMMA HandledType ==
    ASSUME NEW r \in PostType, NEW c \in Commands, NEW a \in Answers,
           NEW new \in SUBSET Commands
    PROVE  /\ Handled(r, c, a, new) \in PostType
           /\ Handled(Flushed(r), c, a, new) \in PostType
BY DEF Handled, Flushed, PostType

LEMMA AnsweredType ==
    ASSUME NEW r \in PostType PROVE Answered(r) \in PostType
BY DEF Answered, PostType

LEMMA FaultType ==
    ASSUME TypeOK, Fault
    PROVE  faults' \in 0 .. MaxFaults
BY ConstantsAssumption DEF TypeOK, Fault

LEMMA RunEnds ==
    ASSUME EndRun
    PROVE  /\ pc' \in {"idle", "loop", "listed", "uploading", "posting"}
           /\ batch' \subseteq Commands
           /\ batchesLeft' \in 0 .. MaxBatches
           /\ cur' \in Slots \cup {None}
           /\ cur' # None <=> pc' = "posting"
BY ConstantsAssumption DEF EndRun

\* The bookkeeping of a POST that is over keeps the type of post.
LEMMA OverType ==
    ASSUME TypeOK, NEW p \in Slots
    PROVE  /\ Abandon(p) \in [Slots -> PostType]
           /\ Failed(p) \in [Slots -> PostType]
           /\ [post EXCEPT ![p] = FreePost] \in [Slots -> PostType]
BY FreePostType DEF TypeOK, Abandon, Failed

\* SaveChanges keeps the types of the server's tables.
LEMMA SavedType ==
    ASSUME TypeOK, NEW p \in Slots
    PROVE  /\ Saved(p) \in [Commands -> Answers \cup {"none"}]
           /\ EffectsSaved(p) \in [Commands -> Nat]
<1>1. post[p].ans \in [Commands -> Answers \cup {"none"}]
  BY DEF TypeOK, PostType
<1> QED
  BY <1>1 DEF TypeOK, Saved, EffectsSaved

LEMMA TypeStep == TypeOK /\ [Next]_vars => TypeOK'
<1> SUFFICES ASSUME TypeOK, [Next]_vars PROVE TypeOK'
  OBVIOUS
<1> USE ConstantsAssumption DEF TypeOK, serverVars, phoneVars
<1>1. ASSUME NEW c \in Commands, Enqueue(c) PROVE TypeOK'
  BY <1>1 DEF Enqueue
<1>2. ASSUME NEW c \in Commands, Age(c) PROVE TypeOK'
  BY <1>2 DEF Age
<1>3. CASE RecoverStale
  BY <1>3, MovedType DEF RecoverStale
<1>4. CASE ScreenReconcile
  BY <1>4, AppliedType DEF ScreenReconcile
<1>5. CASE StartSyncUnavailable
  BY <1>5, MovedType DEF StartSyncUnavailable
<1>6. CASE StartSync
  BY <1>6, MovedType, BatchType DEF StartSync
<1>7. CASE ListBatch
  BY <1>7, BatchType, RunEnds DEF ListBatch
<1>8. CASE MarkSending
  BY <1>8, MovedType DEF MarkSending
<1>9. CASE UploadFails
  BY <1>9, MovedType, FaultType, RunEnds DEF UploadFails
<1>10. ASSUME NEW p \in Slots, Post(p) PROVE TypeOK'
  BY <1>10, NewPostType DEF Post
<1>11. ASSUME NEW p \in Slots, Failover(p) PROVE TypeOK'
  <2>1. cur \in Slots /\ NewPost(batch) \in PostType
    BY <1>11, NewPostType DEF Failover
  <2>2. post' \in [Slots -> PostType]
    BY <1>11, <2>1, OverType DEF Failover
  <2> QED
    BY <1>11, <2>2, FaultType DEF Failover
<1>12. CASE Receive
  <2>1. cur \in Slots
    BY <1>12 DEF Receive
  <2>2. post[cur].ans \in [Commands -> Answers \cup {"none"}]
    BY <2>1 DEF PostType
  <2> QED
    BY <1>12, <2>1, <2>2, AppliedType, OverType DEF Receive
<1>13. CASE PostFails
  <2>1. cur \in Slots
    BY <1>13 DEF PostFails
  <2>2. status' \in [Commands -> Statuses]
    BY <1>13, MovedType, AppliedType DEF PostFails
  <2>3. post' \in [Slots -> PostType]
    BY <1>13, <2>1, OverType DEF PostFails
  <2> QED
    BY <1>13, <2>2, <2>3, FaultType, RunEnds DEF PostFails
<1>14. CASE SessionExpired
  <2>1. status' \in [Commands -> Statuses]
    BY <1>14, MovedType DEF SessionExpired
  <2>2. post' \in [Slots -> PostType]
    BY <1>14, OverType DEF SessionExpired
  <2> QED
    BY <1>14, <2>1, <2>2, FaultType, RunEnds DEF SessionExpired
<1>15. CASE TokensCleared
  BY <1>15, FaultType DEF TokensCleared
<1>16. CASE SignIn
  BY <1>16 DEF SignIn
<1>17. CASE SignOutCheck
  BY <1>17 DEF SignOutCheck
<1>18. CASE SignOutClear
  BY <1>18 DEF SignOutClear
<1>19. CASE Crash
  BY <1>19, OverType, FaultType, RunEnds DEF Crash
<1>20. ASSUME NEW p \in Slots, LoseRequest(p) PROVE TypeOK'
  BY <1>20, OverType, FaultType DEF LoseRequest
<1>21. ASSUME NEW p \in Slots, Commit(p) PROVE TypeOK'
  <2>1. post' \in [Slots -> PostType]
    BY <1>21, FreePostType, AnsweredType DEF Commit
  <2> QED
    BY <1>21, <2>1, SavedType DEF Commit
<1>22. ASSUME NEW p \in Slots, CommitClashes(p) PROVE TypeOK'
  BY <1>22, OverType DEF CommitClashes
<1>23. ASSUME NEW p \in Slots, ServerFails(p) PROVE TypeOK'
  BY <1>23, OverType, FaultType DEF ServerFails
<1>24. ASSUME NEW p \in Slots, NEW c \in Commands, AnswerKnown(c, p) PROVE TypeOK'
  BY <1>24, HandledType DEF AnswerKnown, Repeated
<1>25. ASSUME NEW p \in Slots, NEW c \in Commands, HandlePatrol(c, p) PROVE TypeOK'
  BY <1>25, HandledType DEF HandlePatrol, Verdicts
<1>26. ASSUME NEW p \in Slots, NEW c \in Commands, RefuseWork(c, p) PROVE TypeOK'
  BY <1>26, HandledType DEF RefuseWork
<1>27. ASSUME NEW p \in Slots, NEW c \in Commands, ApplyWork(c, p) PROVE TypeOK'
  <2>1. post' \in [Slots -> PostType]
    BY <1>27, HandledType DEF ApplyWork
  <2> QED
    BY <1>27, <2>1, SavedType DEF ApplyWork
<1>28. ASSUME NEW c \in Commands, DispatcherUndoes(c) PROVE TypeOK'
  BY <1>28, FaultType DEF DispatcherUndoes
<1>29. CASE UNCHANGED vars
  BY <1>29 DEF vars
<1> HIDE DEF TypeOK, serverVars, phoneVars
<1> QED
  BY <1>1, <1>2, <1>3, <1>4, <1>5, <1>6, <1>7, <1>8, <1>9, <1>10, <1>11,
     <1>12, <1>13, <1>14, <1>15, <1>16, <1>17, <1>18, <1>19, <1>20, <1>21,
     <1>22, <1>23, <1>24, <1>25, <1>26, <1>27, <1>28, <1>29
     DEF Next, Phone, Server, Dispatcher

\* Every variable keeps its type: statuses are those of outbox_commands and
\* mobile_outbox_operations, a slot holds a well formed request.
THEOREM TypeCorrect == Spec => []TypeOK
<1>1. Init => TypeOK
  <2> SUFFICES ASSUME Init PROVE TypeOK
    OBVIOUS
  <2>1. /\ status \in [Commands -> Statuses]
        /\ op \in [Commands -> Answers \cup {"none"}]
        /\ effects \in [Commands -> Nat]
        /\ post \in [Slots -> PostType]
    BY FreePostType DEF Init
  <2>2. batchesLeft \in 0 .. MaxBatches /\ faults \in 0 .. MaxFaults
    BY ConstantsAssumption DEF Init
  <2> QED
    BY <2>1, <2>2 DEF Init, TypeOK
<1>2. TypeOK /\ [Next]_vars => TypeOK'
  BY TypeStep
<1> QED
  BY <1>1, <1>2, PTL DEF Spec

-----------------------------------------------------------------------------
(* The inductive invariant *)

USE DEF PatrolCommands

\* What all steps but the server's own have in common: they leave the tables
\* of the server alone, make or drop requests without touching their content,
\* and write an answer into the outbox only if the server has stored it.
PostsKept ==
    \A p \in Slots : \/ post'[p] = post[p]
                     \/ post'[p] \in {FreePost, FailedPost}
                     \/ \E B \in SUBSET Commands : post'[p] = NewPost(B)

AnswersKept ==
    \A c \in Commands : \/ status'[c] = status[c]
                        \/ status'[c] \notin Answers
                        \/ Settled(status'[c], c)

Quiet == UNCHANGED <<op, effects>> /\ PostsKept /\ AnswersKept

LEMMA QuietKeepsInvariant ==
    ASSUME Inductive, Quiet, TypeOK'
    PROVE  Inductive'
<1>1. AnswerIsRecorded'
  BY DEF Inductive, Quiet, AnswersKept, AnswerIsRecorded, Settled
<1>2. PatrolEffectExactlyOnce' /\ AcceptedWorkIsDone'
  BY DEF Inductive, Quiet, PatrolEffectExactlyOnce, AcceptedWorkIsDone
<1>3. ASSUME NEW p \in Slots PROVE RequestOK(p)'
  <2>1. CASE post'[p] = post[p]
    BY <2>1 DEF Inductive, Quiet, RequestsOK, RequestOK, Settled
  <2>2. CASE post'[p] \in {FreePost, FailedPost}
    BY <2>2 DEF RequestOK, FreePost, FailedPost
  <2>3. ASSUME NEW B \in SUBSET Commands, post'[p] = NewPost(B)
        PROVE  RequestOK(p)'
    BY <2>3 DEF RequestOK, NewPost, FreePost
  <2> QED
    BY <2>1, <2>2, <2>3 DEF Quiet, PostsKept
<1> QED
  BY <1>1, <1>2, <1>3 DEF Inductive, RequestsOK

\* Moving rows of the outbox between the queued statuses gives no answer.
LEMMA MovedQuiet ==
    ASSUME NEW S, NEW From, NEW s \in Queued, NEW c \in Commands
    PROVE  Moved(S, From, s)[c] \in {status[c], s} /\ s \notin Answers
BY DEF Moved

\* What a GET confirms is settled.
LEMMA ConfirmedSettled ==
    ASSUME NEW S, NEW c \in Confirmable(S)
    PROVE  Settled(op[c], c)
BY DEF Confirmable, Settled, Agree

\* A POST that is over; the other slots are untouched.
LEMMA OverSlots ==
    ASSUME TypeOK, NEW p \in Slots, NEW q \in Slots
    PROVE  /\ Abandon(p)[q] \in {post[q], FreePost}
           /\ Failed(p)[q] \in {post[q], FreePost, FailedPost}
           /\ [post EXCEPT ![p] = FreePost][q] \in {post[q], FreePost}
BY DEF TypeOK, Abandon, Failed

\* No step of the phone or the network changes what the server has decided,
\* and the phone records no answer the server has not given.
LEMMA QuietSteps ==
    ASSUME Inductive,
           \/ Phone
           \/ \E p \in Slots : LoseRequest(p) \/ CommitClashes(p) \/ ServerFails(p)
           \/ Dispatcher \/ UNCHANGED vars
    PROVE  Quiet
<1> USE DEF Quiet, phoneVars, serverVars
<1>0. TypeOK
  BY DEF Inductive
<1>1. ASSUME NEW c \in Commands, Enqueue(c) PROVE Quiet
  BY <1>1, <1>0 DEF Enqueue, TypeOK, PostsKept, AnswersKept
<1>2. ASSUME NEW c \in Commands, Age(c) PROVE Quiet
  BY <1>2 DEF Age, PostsKept, AnswersKept
<1>3. CASE RecoverStale
  BY <1>3, MovedQuiet DEF RecoverStale, PostsKept, AnswersKept
<1>4. CASE ScreenReconcile
  BY <1>4, ConfirmedSettled DEF ScreenReconcile, Applied, PostsKept, AnswersKept
<1>5. CASE StartSyncUnavailable
  BY <1>5, MovedQuiet DEF StartSyncUnavailable, PostsKept, AnswersKept
<1>6. CASE StartSync
  BY <1>6, MovedQuiet, ConfirmedSettled DEF StartSync, PostsKept, AnswersKept
<1>7. CASE ListBatch
  BY <1>7 DEF ListBatch, PostsKept, AnswersKept
<1>8. CASE MarkSending
  BY <1>8, MovedQuiet DEF MarkSending, PostsKept, AnswersKept
<1>9. CASE UploadFails
  BY <1>9, MovedQuiet DEF UploadFails, PostsKept, AnswersKept
<1>10. ASSUME NEW p \in Slots, Post(p) PROVE Quiet
  BY <1>10, <1>0 DEF Post, TypeOK, PostsKept, AnswersKept
<1>11. ASSUME NEW p \in Slots, Failover(p) PROVE Quiet
  <2>1. cur \in Slots /\ batch \in SUBSET Commands
    BY <1>11, <1>0 DEF Failover, TypeOK
  <2>2. Abandon(cur) \in [Slots -> PostType]
    BY <2>1, <1>0, OverType
  <2> QED
    BY <1>11, <1>0, <2>1, <2>2, OverSlots DEF Failover, PostsKept, AnswersKept
<1>12. CASE Receive
  <2>1. cur \in Slots
    BY <1>12, <1>0 DEF Receive, TypeOK
  <2>2. \A c \in post[cur].cmds : Settled(post[cur].ans[c], c)
    BY <1>12, <2>1 DEF Inductive, RequestsOK, RequestOK, Receive
  <2> QED
    BY <1>12, <1>0, <2>1, <2>2, OverSlots
    DEF Receive, Applied, PostsKept, AnswersKept
<1>13. CASE PostFails
  <2>1. cur \in Slots
    BY <1>13, <1>0 DEF PostFails, TypeOK
  <2>2. PostsKept
    BY <1>13, <1>0, <2>1, OverSlots DEF PostFails, PostsKept
  <2>3. AnswersKept
    BY <1>13, MovedQuiet, ConfirmedSettled DEF PostFails, Applied, AnswersKept
  <2> QED
    BY <1>13, <2>2, <2>3 DEF PostFails
<1>14. CASE SessionExpired
  <2>1. PostsKept
    BY <1>14, <1>0, OverSlots DEF SessionExpired, PostsKept, TypeOK
  <2> QED
    BY <1>14, <2>1, MovedQuiet DEF SessionExpired, AnswersKept
<1>15. CASE TokensCleared
  BY <1>15 DEF TokensCleared, PostsKept, AnswersKept
<1>16. CASE SignIn
  BY <1>16 DEF SignIn, PostsKept, AnswersKept
<1>17. CASE SignOutCheck
  BY <1>17 DEF SignOutCheck, PostsKept, AnswersKept
<1>18. CASE SignOutClear
  BY <1>18 DEF SignOutClear, PostsKept, AnswersKept
<1>19. CASE Crash
  BY <1>19, <1>0, OverSlots DEF Crash, PostsKept, AnswersKept, TypeOK
<1>20. ASSUME NEW p \in Slots, LoseRequest(p) \/ CommitClashes(p) \/ ServerFails(p)
       PROVE  Quiet
  BY <1>20, <1>0, OverSlots
  DEF LoseRequest, CommitClashes, ServerFails, PostsKept, AnswersKept
<1>21. ASSUME NEW c \in Commands, DispatcherUndoes(c) PROVE Quiet
  BY <1>21 DEF DispatcherUndoes, PostsKept, AnswersKept
<1>22. CASE UNCHANGED vars
  BY <1>22 DEF vars, PostsKept, AnswersKept
<1> HIDE DEF Quiet
<1> QED
  BY <1>1, <1>2, <1>3, <1>4, <1>5, <1>6, <1>7, <1>8, <1>9, <1>10, <1>11,
     <1>12, <1>13, <1>14, <1>15, <1>16, <1>17, <1>18, <1>19, <1>20, <1>21,
     <1>22 DEF Phone, Dispatcher

\* A verdict, once stored, stays; an effect, once applied, stays.
ServerGrows ==
    /\ \A c \in Commands : op[c] # "none" => op'[c] = op[c]
    /\ \A c \in Commands : effects[c] > 0 => effects'[c] > 0

\* The requests a step of the server does not work on stay in step with the
\* tables, because the tables only grow.
LEMMA OtherRequests ==
    ASSUME Inductive, ServerGrows, NEW q \in Slots, post'[q] = post[q]
    PROVE  RequestOK(q)'
<1>1. post[q] \in PostType /\ RequestOK(q)
  BY DEF Inductive, TypeOK, RequestsOK
<1>2. ASSUME NEW c \in Commands, NEW a, Settled(a, c) PROVE Settled(a, c)'
  BY <1>2 DEF ServerGrows, Settled, Agree
<1> QED
  BY <1>1, <1>2 DEF RequestOK, PostType, ServerGrows

\* Passing over a command: the command is settled, or added with a verdict.
LEMMA HandledRequest ==
    ASSUME Inductive, NEW p \in Slots, NEW c \in post[p].todo,
           UNCHANGED <<status, op, effects>>, TypeOK', post[p].state = "sent",
           NEW a \in Answers, NEW new \in {{}, {c}},
           post' = [post EXCEPT ![p] = Handled(@, c, a, new)],
           new = {} => Settled(a, c),
           c \in WorkCommands /\ a = "accepted" => effects[c] > 0
    PROVE  Inductive'
<1>1. RequestOK(p) /\ post[p] \in PostType
  BY DEF Inductive, RequestsOK, TypeOK
<1>2. /\ post'[p].state = "sent"
      /\ post'[p].cmds = post[p].cmds
      /\ post'[p].todo = post[p].todo \ {c}
      /\ post'[p].added = post[p].added \cup new
      /\ \A d \in Commands : post'[p].ans[d] = IF d = c THEN a ELSE post[p].ans[d]
      /\ c \in Commands
  BY <1>1 DEF Inductive, TypeOK, PostType, Handled
<1>3. RequestOK(p)'
  <2>1. ASSUME NEW d \in post'[p].cmds \ (post'[p].todo \cup post'[p].added)
        PROVE  Settled(post[p].ans[d], d)'
    <3>1. CASE d = c
      BY <1>2, <2>1, <3>1 DEF Settled
    <3>2. CASE d # c
      BY <1>1, <1>2, <2>1, <3>2 DEF RequestOK, Settled, PostType
    <3> QED
      BY <3>1, <3>2
  <2>2. ASSUME NEW d \in post'[p].added
        PROVE  /\ post'[p].ans[d] \in Answers
               /\ d \in WorkCommands /\ post'[p].ans[d] = "accepted"
                    => effects'[d] > 0
    BY <1>1, <1>2, <2>2 DEF RequestOK, PostType
  <2>3. post'[p].added \cap post'[p].todo = {}
    BY <1>1, <1>2 DEF RequestOK
  <2> QED
    BY <1>2, <2>1, <2>2, <2>3 DEF RequestOK
<1>4. ASSUME NEW q \in Slots, q # p PROVE RequestOK(q)'
  <2>1. post'[q] = post[q]
    BY <1>4 DEF Inductive, TypeOK
  <2> QED
    BY <2>1, OtherRequests DEF ServerGrows
<1>5. AnswerIsRecorded' /\ PatrolEffectExactlyOnce' /\ AcceptedWorkIsDone'
  BY DEF Inductive, AnswerIsRecorded, PatrolEffectExactlyOnce, AcceptedWorkIsDone
<1> QED
  BY <1>3, <1>4, <1>5 DEF Inductive, RequestsOK

\* SaveChanges: every row added becomes a verdict, and the effects of the
\* accepted patrol commands become visible with their rows.
LEMMA SaveKeepsTables ==
    ASSUME Inductive, NEW p \in Slots, post[p].state = "sent", ~KeyTaken(p),
           op' = Saved(p), status' = status,
           \A c \in Commands : \/ effects'[c] = EffectsSaved(p)[c]
                               \/ /\ c \in WorkCommands
                                  /\ effects'[c] = EffectsSaved(p)[c] + 1
    PROVE  /\ ServerGrows
           /\ AnswerIsRecorded'
           /\ PatrolEffectExactlyOnce'
           /\ AcceptedWorkIsDone'
           /\ \A c \in post[p].added :
                 post[p].ans[c] \in Answers /\ Agree(post[p].ans[c], op'[c])
<1>1. /\ RequestOK(p)
      /\ post[p].added \subseteq Commands
      /\ post[p].ans \in [Commands -> Answers \cup {"none"}]
      /\ effects \in [Commands -> Nat]
      /\ op \in [Commands -> Answers \cup {"none"}]
  BY DEF Inductive, RequestsOK, TypeOK, PostType
<1>2. \A c \in post[p].added : op[c] = "none" /\ op'[c] = post[p].ans[c]
  BY <1>1 DEF KeyTaken, Saved
<1>3. \A c \in Commands \ post[p].added :
          op'[c] = op[c] /\ EffectsSaved(p)[c] = effects[c]
  BY <1>1 DEF Saved, EffectsSaved
<1>4. \A c \in Commands : EffectsSaved(p)[c] =
          IF c \in post[p].added /\ c \notin WorkCommands /\ post[p].ans[c] = "accepted"
          THEN effects[c] + 1 ELSE effects[c]
  BY DEF EffectsSaved
<1>5. \A c \in post[p].added :
          /\ post[p].ans[c] \in Answers
          /\ c \in WorkCommands /\ post[p].ans[c] = "accepted" => effects[c] > 0
  BY <1>1 DEF RequestOK
<1>6. ServerGrows
  BY <1>1, <1>2, <1>3, <1>4 DEF ServerGrows
<1>7. AnswerIsRecorded'
  <2> SUFFICES ASSUME NEW c \in Commands, status[c] \in Answers
               PROVE  Agree(status[c], op'[c])
    BY DEF AnswerIsRecorded, Agree
  <2>1. Agree(status[c], op[c])
    BY DEF Inductive, AnswerIsRecorded
  <2>2. op[c] # "none"
    BY <2>1 DEF Agree
  <2> QED
    BY <2>1, <2>2, <1>6 DEF ServerGrows
<1>8. PatrolEffectExactlyOnce'
  <2> SUFFICES ASSUME NEW c \in Commands, c \notin WorkCommands
               PROVE  effects'[c] = IF op'[c] = "accepted" THEN 1 ELSE 0
    BY DEF PatrolEffectExactlyOnce
  <2>1. effects[c] = IF op[c] = "accepted" THEN 1 ELSE 0
    BY DEF Inductive, PatrolEffectExactlyOnce
  <2>2. effects'[c] = EffectsSaved(p)[c]
    OBVIOUS
  <2> QED
    BY <2>1, <2>2, <1>2, <1>3, <1>4
<1>9. AcceptedWorkIsDone'
  <2> SUFFICES ASSUME NEW c \in WorkCommands, c \in Commands, op'[c] = "accepted"
               PROVE  effects'[c] > 0
    BY ConstantsAssumption DEF AcceptedWorkIsDone
  <2>1. op[c] = "accepted" => effects[c] > 0
    BY DEF Inductive, AcceptedWorkIsDone
  <2>2. effects[c] > 0
    BY <2>1, <1>2, <1>3, <1>5
  <2> QED
    BY <2>2, <1>1, <1>6 DEF ServerGrows
<1>10. \A c \in post[p].added :
          post[p].ans[c] \in Answers /\ Agree(post[p].ans[c], op'[c])
  BY <1>2, <1>5 DEF Agree
<1> QED
  BY <1>6, <1>7, <1>8, <1>9, <1>10

LEMMA CommitStep ==
    ASSUME Inductive, TypeOK', NEW p \in Slots, Commit(p)
    PROVE  Inductive'
<1>1. /\ RequestOK(p)
      /\ post[p] \in PostType
      /\ post[p].state = "sent"
      /\ post[p].todo = {}
  BY DEF Inductive, RequestsOK, TypeOK, Commit
<1>2. /\ ServerGrows
      /\ AnswerIsRecorded' /\ PatrolEffectExactlyOnce' /\ AcceptedWorkIsDone'
      /\ \A c \in post[p].added :
            post[p].ans[c] \in Answers /\ Agree(post[p].ans[c], op'[c])
  <2>1. op' = Saved(p) /\ effects' = EffectsSaved(p) /\ status' = status
    BY DEF Commit, phoneVars
  <2> QED
    BY <1>1, <2>1, SaveKeepsTables DEF Commit
<1>3. \A c \in post[p].cmds :
          post[p].ans[c] \in Answers /\ Agree(post[p].ans[c], op'[c])
  <2>1. ASSUME NEW c \in post[p].cmds, c \notin post[p].added
        PROVE  post[p].ans[c] \in Answers /\ Agree(post[p].ans[c], op'[c])
    BY <1>1, <1>2, <2>1 DEF RequestOK, Settled, Agree, ServerGrows, PostType
  <2> QED
    BY <1>2, <2>1
<1>4. RequestOK(p)'
  <2>1. CASE cur = p
    <3>1. /\ post'[p].state = "answered"
          /\ post'[p].cmds = post[p].cmds
          /\ post'[p].ans = post[p].ans
      BY <1>1, <2>1 DEF Commit, Answered, Inductive, TypeOK, PostType
    <3> QED
      BY <1>3, <3>1 DEF RequestOK, Settled
  <2>2. CASE cur # p
    BY <2>2 DEF Commit, FreePost, RequestOK, Inductive, TypeOK
  <2> QED
    BY <2>1, <2>2
<1>5. ASSUME NEW q \in Slots, q # p PROVE RequestOK(q)'
  <2>1. post'[q] = post[q]
    BY <1>5 DEF Commit, Inductive, TypeOK
  <2> QED
    BY <1>2, <2>1, OtherRequests
<1> QED
  BY <1>2, <1>4, <1>5 DEF Inductive, RequestsOK

LEMMA ApplyWorkStep ==
    ASSUME Inductive, TypeOK', NEW p \in Slots, NEW c \in Commands, ApplyWork(c, p)
    PROVE  Inductive'
<1>1. /\ RequestOK(p)
      /\ post[p] \in PostType
      /\ post[p].state = "sent"
      /\ c \in post[p].todo
      /\ EffectsSaved(p) \in [Commands -> Nat]
  BY SavedType DEF Inductive, RequestsOK, TypeOK, ApplyWork, IsNext
<1>2. /\ ServerGrows
      /\ AnswerIsRecorded' /\ PatrolEffectExactlyOnce' /\ AcceptedWorkIsDone'
      /\ \A d \in post[p].added :
            post[p].ans[d] \in Answers /\ Agree(post[p].ans[d], op'[d])
  <2>1. op' = Saved(p) /\ status' = status /\ ~KeyTaken(p) /\ c \in WorkCommands
    BY DEF ApplyWork, phoneVars
  <2>2. \A d \in Commands : \/ effects'[d] = EffectsSaved(p)[d]
                            \/ /\ d \in WorkCommands
                               /\ effects'[d] = EffectsSaved(p)[d] + 1
    BY <1>1, <2>1 DEF ApplyWork
  <2> QED
    BY <1>1, <2>1, <2>2, SaveKeepsTables
<1>3. effects'[c] > 0
  BY <1>1 DEF ApplyWork
<1>4. /\ post'[p].state = "sent"
      /\ post'[p].cmds = post[p].cmds
      /\ post'[p].todo = post[p].todo \ {c}
      /\ post'[p].added = {c}
      /\ \A d \in Commands :
            post'[p].ans[d] = IF d = c THEN "accepted" ELSE post[p].ans[d]
  BY <1>1 DEF ApplyWork, Handled, Flushed, Inductive, TypeOK, PostType
<1>5. ASSUME NEW d \in post[p].cmds \ post[p].todo
      PROVE  post[p].ans[d] \in Answers /\ Agree(post[p].ans[d], op'[d])
  <2>1. CASE d \in post[p].added
    BY <1>2, <2>1
  <2>2. CASE d \notin post[p].added
    BY <1>1, <1>2, <2>2 DEF RequestOK, Settled, Agree, ServerGrows, PostType
  <2> QED
    BY <2>1, <2>2
<1>6. RequestOK(p)'
  <2>1. ASSUME NEW d \in post'[p].cmds \ (post'[p].todo \cup post'[p].added)
        PROVE  post'[p].ans[d] \in Answers /\ Agree(post'[p].ans[d], op'[d])
    BY <1>1, <1>4, <1>5, <2>1 DEF PostType
  <2> QED
    BY <1>3, <1>4, <2>1 DEF RequestOK, Settled
<1>7. ASSUME NEW q \in Slots, q # p PROVE RequestOK(q)'
  <2>1. post'[q] = post[q]
    BY <1>7 DEF ApplyWork, Inductive, TypeOK
  <2> QED
    BY <1>2, <2>1, OtherRequests
<1> QED
  BY <1>2, <1>6, <1>7 DEF Inductive, RequestsOK

LEMMA InductiveInit == Init /\ TypeOK => Inductive
<1> SUFFICES ASSUME Init, TypeOK PROVE Inductive
  OBVIOUS
<1>1. AnswerIsRecorded
  BY DEF Init, AnswerIsRecorded
<1>2. PatrolEffectExactlyOnce /\ AcceptedWorkIsDone
  BY ConstantsAssumption DEF Init, PatrolEffectExactlyOnce, AcceptedWorkIsDone
<1>3. RequestsOK
  BY DEF Init, RequestsOK, RequestOK, FreePost
<1> QED
  BY <1>1, <1>2, <1>3 DEF Inductive

LEMMA InductiveStep ==
    ASSUME Inductive, TypeOK', [Next]_vars
    PROVE  Inductive'
<1>1. ASSUME NEW p \in Slots, NEW c \in Commands, AnswerKnown(c, p)
      PROVE  Inductive'
  <2>1. c \in post[p].todo /\ post[p].state = "sent"
    BY <1>1 DEF AnswerKnown, IsNext
  <2>2. Repeated(op[c]) \in Answers /\ Settled(Repeated(op[c]), c)
    BY <1>1 DEF AnswerKnown, Repeated, Settled, Agree, Inductive, TypeOK
  <2>3. /\ post' = [post EXCEPT ![p] = Handled(@, c, Repeated(op[c]), {})]
        /\ UNCHANGED <<status, op, effects>>
    BY <1>1 DEF AnswerKnown, phoneVars, serverVars
  <2>4. c \in WorkCommands /\ Repeated(op[c]) = "accepted" => effects[c] > 0
    BY DEF Repeated
  <2> QED
    BY <2>1, <2>2, <2>3, <2>4, HandledRequest
<1>2. ASSUME NEW p \in Slots, NEW c \in Commands, HandlePatrol(c, p)
      PROVE  Inductive'
  <2>1. /\ c \in post[p].todo /\ post[p].state = "sent" /\ c \notin WorkCommands
        /\ UNCHANGED <<status, op, effects>>
    BY <1>2 DEF HandlePatrol, IsNext, phoneVars, serverVars
  <2>2. PICK v \in Answers : post' = [post EXCEPT ![p] = Handled(@, c, v, {c})]
    BY <1>2 DEF HandlePatrol, Verdicts
  <2> QED
    BY <2>1, <2>2, HandledRequest
<1>3. ASSUME NEW p \in Slots, NEW c \in Commands, RefuseWork(c, p)
      PROVE  Inductive'
  <2>1. /\ c \in post[p].todo /\ post[p].state = "sent"
        /\ UNCHANGED <<status, op, effects>>
        /\ post' = [post EXCEPT ![p] = Handled(@, c, "refused", {c})]
    BY <1>3 DEF RefuseWork, IsNext, phoneVars, serverVars
  <2> QED
    BY <2>1, HandledRequest
<1>4. CASE Quiet
  BY <1>4, QuietKeepsInvariant
<1> QED
  BY <1>1, <1>2, <1>3, <1>4, QuietSteps, CommitStep, ApplyWorkStep DEF Next, Server

\* However requests are lost, repeated, answered late or cut short by a
\* crash, the phone, the requests and the server's tables stay in step.
THEOREM InductiveCorrect == Spec => []Inductive
<1>1. TypeOK /\ Inductive /\ TypeOK' /\ [Next]_vars => Inductive'
  BY InductiveStep
<1> QED
  BY <1>1, InductiveInit, TypeCorrect, PTL DEF Spec

\* What the phone shows for an answered command is what the server stored.
THEOREM AnswersAreRecorded == Spec => []AnswerIsRecorded
<1>1. Inductive => AnswerIsRecorded
  BY DEF Inductive
<1> QED
  BY <1>1, InductiveCorrect, PTL

\* SaveOutbox applies a patrol command once, and exactly if it accepts it.
THEOREM PatrolExactlyOnce == Spec => []PatrolEffectExactlyOnce
<1>1. Inductive => PatrolEffectExactlyOnce
  BY DEF Inductive
<1> QED
  BY <1>1, InductiveCorrect, PTL

\* A work command stored as accepted has been carried out.
THEOREM AcceptedWorkDone == Spec => []AcceptedWorkIsDone
<1>1. Inductive => AcceptedWorkIsDone
  BY DEF Inductive
<1> QED
  BY <1>1, InductiveCorrect, PTL

-----------------------------------------------------------------------------
(* Answers are final *)

\* Only signing out takes an answered command out of its answer.
AnsweredStays ==
    \A c \in Commands :
        status[c] \in Answers => status'[c] \in Answers \cup {"deleted"}

LEMMA MovedStays ==
    ASSUME NEW S, NEW From \in SUBSET Queued, NEW s, NEW c \in Commands,
           status[c] \in Answers
    PROVE  Moved(S, From, s)[c] = status[c]
BY DEF Moved

LEMMA AnsweredStaysInStep ==
    ASSUME Inductive, [Next]_vars
    PROVE  AnsweredStays
<1> USE DEF phoneVars
<1>0. TypeOK
  BY DEF Inductive
<1>1. ASSUME NEW c \in Commands, Enqueue(c) PROVE AnsweredStays
  BY <1>1, <1>0 DEF Enqueue, AnsweredStays, TypeOK
<1>2. ASSUME NEW c \in Commands, Age(c) PROVE AnsweredStays
  BY <1>2 DEF Age, AnsweredStays
<1>3. CASE RecoverStale
  BY <1>3, MovedStays DEF RecoverStale, AnsweredStays
<1>4. CASE ScreenReconcile
  BY <1>4 DEF ScreenReconcile, Applied, AnsweredStays, Confirmable
<1>5. CASE StartSyncUnavailable
  BY <1>5, MovedStays DEF StartSyncUnavailable, AnsweredStays
<1>6. CASE StartSync
  BY <1>6, MovedStays DEF StartSync, AnsweredStays, Confirmable
<1>7. CASE MarkSending
  BY <1>7, MovedStays DEF MarkSending, AnsweredStays
<1>8. CASE UploadFails
  BY <1>8, MovedStays DEF UploadFails, AnsweredStays
<1>9. CASE Receive
  <2>1. cur \in Slots
    BY <1>9, <1>0 DEF Receive, TypeOK
  <2>2. \A c \in post[cur].cmds : post[cur].ans[c] \in Answers
    BY <1>9, <2>1 DEF Inductive, RequestsOK, RequestOK, Receive, Settled
  <2> QED
    BY <1>9, <2>2 DEF Receive, Applied, AnsweredStays
<1>10. CASE PostFails
  BY <1>10, MovedStays DEF PostFails, Applied, AnsweredStays, Confirmable
<1>11. CASE SessionExpired
  BY <1>11, MovedStays DEF SessionExpired, AnsweredStays
<1>12. CASE SignOutClear
  BY <1>12 DEF SignOutClear, AnsweredStays
<1>13. CASE UNCHANGED status
  BY <1>13 DEF AnsweredStays
<1>14. ASSUME NEW p \in Slots,
              \/ Post(p) \/ Failover(p) \/ LoseRequest(p) \/ Commit(p)
              \/ CommitClashes(p) \/ ServerFails(p)
              \/ \E c \in Commands : \/ AnswerKnown(c, p) \/ HandlePatrol(c, p)
                                     \/ RefuseWork(c, p) \/ ApplyWork(c, p)
       PROVE  UNCHANGED status
  BY <1>14 DEF Post, Failover, LoseRequest, Commit, CommitClashes, ServerFails,
               AnswerKnown, HandlePatrol, RefuseWork, ApplyWork
<1>15. ListBatch \/ TokensCleared \/ SignIn \/ SignOutCheck \/ Crash
       \/ Dispatcher \/ UNCHANGED vars => UNCHANGED status
  BY DEF ListBatch, TokensCleared, SignIn, SignOutCheck, Crash, Dispatcher,
         DispatcherUndoes, vars
<1> QED
  BY <1>1, <1>2, <1>3, <1>4, <1>5, <1>6, <1>7, <1>8, <1>9, <1>10, <1>11,
     <1>12, <1>13, <1>14, <1>15 DEF Next, Phone, Server

LEMMA VerdictStaysInStep ==
    ASSUME Inductive, [Next]_vars, NEW c \in Commands, op[c] # "none"
    PROVE  op'[c] = op[c]
<1>1. CASE Quiet
  BY <1>1 DEF Quiet
<1>2. ASSUME NEW p \in Slots,
             Commit(p) \/ \E d \in Commands : ApplyWork(d, p)
      PROVE  op'[c] = op[c]
  BY <1>2 DEF Commit, ApplyWork, Saved, KeyTaken
<1>3. ASSUME NEW p \in Slots,
             \E d \in Commands : \/ AnswerKnown(d, p) \/ HandlePatrol(d, p)
                                 \/ RefuseWork(d, p)
      PROVE  op'[c] = op[c]
  BY <1>3 DEF AnswerKnown, HandlePatrol, RefuseWork, serverVars
<1> QED
  BY <1>1, <1>2, <1>3, QuietSteps DEF Next, Server

\* A stored verdict never changes, and an answered command is never reopened
\* or answered otherwise.
THEOREM FinalAnswers == Spec => AnswersAreFinal
<1>1. ASSUME Inductive, Inductive', [Next]_vars, NEW c \in Commands
      PROVE  /\ op[c] # "none" => op'[c] = op[c]
             /\ status[c] \in Answers =>
                  \/ status'[c] = "deleted"
                  \/ Agree(status[c], status'[c])
  <2>1. ASSUME status[c] \in Answers, status'[c] # "deleted"
        PROVE  Agree(status[c], status'[c])
    <3>1. Agree(status[c], op[c]) /\ op[c] # "none"
      BY <1>1, <2>1 DEF Inductive, AnswerIsRecorded, Agree
    <3>2. status'[c] \in Answers
      BY <1>1, <2>1, AnsweredStaysInStep DEF AnsweredStays
    <3>3. Agree(status'[c], op[c])
      BY <1>1, <3>1, <3>2, VerdictStaysInStep DEF Inductive, AnswerIsRecorded
    <3> QED
      BY <3>1, <3>3 DEF Agree
  <2> QED
    BY <1>1, <2>1, VerdictStaysInStep
<1>2. Inductive /\ Inductive' /\ [Next]_vars =>
        [\A c \in Commands :
            /\ op[c] # "none" => op'[c] = op[c]
            /\ status[c] \in Answers =>
                  \/ status'[c] = "deleted"
                  \/ Agree(status[c], status'[c])]_vars
  BY <1>1
<1> QED
  BY <1>2, InductiveCorrect, PTL DEF Spec, AnswersAreFinal

-----------------------------------------------------------------------------
(* The refinement of ExactlyOnce *)

\* Nothing is on its way that the user has not created.
Created ==
    /\ \A c \in batch : status[c] # "none"
    /\ \A p \in Slots : \A c \in UNION {post[p].cmds, post[p].todo, post[p].added} :
          status[c] # "none"

\* No step takes a command out of the outbox but signing out, which takes out
\* all, and none brings one in but the user's own.
SameCommands ==
    \A c \in Commands : /\ status'[c] = "none" <=> status[c] = "none"
                        /\ status'[c] = "deleted" <=> status[c] = "deleted"

LEMMA MovedSame ==
    ASSUME NEW S, NEW From \in SUBSET Queued, NEW s \in Queued, NEW c \in Commands
    PROVE  /\ Moved(S, From, s)[c] = "none" <=> status[c] = "none"
           /\ Moved(S, From, s)[c] = "deleted" <=> status[c] = "deleted"
BY DEF Moved

LEMMA AppliedSame ==
    ASSUME NEW S, NEW ans, \A c \in S : status[c] # "none" /\ ans[c] \in Answers,
           NEW c \in Commands
    PROVE  /\ Applied(S, ans)[c] = "none" <=> status[c] = "none"
           /\ Applied(S, ans)[c] = "deleted" <=> status[c] = "deleted"
BY DEF Applied

LEMMA SameInStep ==
    ASSUME Inductive, Created, [Next]_vars
    PROVE  \/ SameCommands
           \/ SignOutClear
           \/ \E c \in Commands : Enqueue(c)
<1> USE DEF phoneVars, SameCommands
<1>1. CASE UNCHANGED status
  BY <1>1
<1>2. CASE RecoverStale
  BY <1>2, MovedSame DEF RecoverStale
<1>3. CASE ScreenReconcile
  <2>1. PICK G \in SUBSET Confirmable(Unconfirmed) : status' = Applied(G, op)
    BY <1>3 DEF ScreenReconcile
  <2>2. \A c \in G : status[c] # "none" /\ op[c] \in Answers
    BY DEF Confirmable, Unconfirmed
  <2> QED
    BY <2>1, <2>2, AppliedSame
<1>4. CASE StartSyncUnavailable
  BY <1>4, MovedSame DEF StartSyncUnavailable
<1>5. CASE StartSync
  <2>1. PICK G \in SUBSET Confirmable(Unconfirmed) :
           status' = [c \in Commands |->
                         IF c \in G THEN op[c]
                         ELSE Moved(aged, {"sending"}, "retryLater")[c]]
    BY <1>5 DEF StartSync
  <2>2. \A c \in G : /\ status[c] \notin {"none", "deleted"}
                     /\ op[c] \notin {"none", "deleted"}
    BY DEF Confirmable, Unconfirmed
  <2> QED
    BY <2>1, <2>2, MovedSame
<1>6. CASE MarkSending
  BY <1>6, MovedSame DEF MarkSending
<1>7. CASE UploadFails
  BY <1>7, MovedSame DEF UploadFails
<1>8. CASE Receive
  <2>1. cur \in Slots
    BY <1>8 DEF Receive, Inductive, TypeOK
  <2>2. \A c \in post[cur].cmds : status[c] # "none" /\ post[cur].ans[c] \in Answers
    BY <1>8, <2>1 DEF Created, Inductive, RequestsOK, RequestOK, Receive, Settled
  <2> QED
    BY <1>8, <2>2, AppliedSame DEF Receive
<1>9. CASE PostFails
  <2>1. PICK G \in SUBSET Confirmable(batch) :
           status' = [c \in Commands |->
                         IF c \in G THEN Applied(G, op)[c]
                         ELSE Moved(batch, {"sending"}, "retryLater")[c]]
    BY <1>9 DEF PostFails
  <2>2. \A c \in G : status[c] # "none" /\ op[c] \in Answers
    BY DEF Confirmable, Created
  <2> QED
    BY <2>1, <2>2, AppliedSame, MovedSame
<1>10. CASE SessionExpired
  BY <1>10, MovedSame DEF SessionExpired
<1>11. ASSUME NEW p \in Slots,
              \/ Post(p) \/ Failover(p) \/ LoseRequest(p) \/ Commit(p)
              \/ CommitClashes(p) \/ ServerFails(p)
              \/ \E c \in Commands : \/ AnswerKnown(c, p) \/ HandlePatrol(c, p)
                                     \/ RefuseWork(c, p) \/ ApplyWork(c, p)
       PROVE  UNCHANGED status
  BY <1>11 DEF Post, Failover, LoseRequest, Commit, CommitClashes, ServerFails,
               AnswerKnown, HandlePatrol, RefuseWork, ApplyWork
<1>12. ListBatch \/ TokensCleared \/ SignIn \/ SignOutCheck \/ Crash
       \/ Dispatcher \/ UNCHANGED vars => UNCHANGED status
  BY DEF ListBatch, TokensCleared, SignIn, SignOutCheck, Crash, Dispatcher,
         DispatcherUndoes, vars
<1>13. ASSUME NEW c \in Commands, Age(c) PROVE UNCHANGED status
  BY <1>13 DEF Age
<1> QED
  BY <1>1, <1>2, <1>3, <1>4, <1>5, <1>6, <1>7, <1>8, <1>9, <1>10, <1>11, <1>12,
     <1>13 DEF Next, Phone, Server

\* A request is as it was, or new, or its commands have been moved on.
Made(q) ==
    \/ post'[q] \in {post[q], FreePost, FailedPost, NewPost(batch)}
    \/ /\ post'[q].cmds \subseteq post[q].cmds /\ post'[q].todo \subseteq post[q].todo
       /\ post'[q].added \subseteq post[q].added \cup post[q].todo

\* What a step puts into the batch or a request was created before.
LEMMA NothingFromNowhere ==
    ASSUME Inductive, Created, [Next]_vars
    PROVE  /\ \A c \in batch' : status[c] # "none"
           /\ \A p \in Slots :
                 \A c \in UNION {post'[p].cmds, post'[p].todo, post'[p].added} :
                    status[c] # "none"
<1> USE DEF phoneVars
<1>0. TypeOK
  BY DEF Inductive
<1>1. \A c \in batch' : status[c] # "none"
  <2>1. CASE UNCHANGED batch \/ batch' = {}
    BY <2>1 DEF Created
  <2>2. CASE batch' = NextBatch
    BY <2>2 DEF NextBatch, Unblocked, Sendable
  <2>3. ListBatch \/ UploadFails \/ Receive \/ PostFails \/ SessionExpired \/ Crash =>
           batch' \in {batch, {}, NextBatch}
    BY DEF ListBatch, UploadFails, Receive, PostFails, SessionExpired, Crash, EndRun
  <2>4. ASSUME NEW c \in Commands, Enqueue(c) \/ Age(c) PROVE UNCHANGED batch
    BY <2>4 DEF Enqueue, Age
  <2>5. \/ RecoverStale \/ ScreenReconcile \/ StartSyncUnavailable \/ StartSync \/ MarkSending
        \/ TokensCleared \/ SignIn \/ SignOutCheck \/ SignOutClear \/ Dispatcher
        \/ UNCHANGED vars
        => UNCHANGED batch
    BY DEF RecoverStale, ScreenReconcile, StartSyncUnavailable, StartSync, MarkSending,
           TokensCleared, SignIn, SignOutCheck, SignOutClear, Dispatcher,
           DispatcherUndoes, vars
  <2>6. ASSUME NEW p \in Slots,
               \/ Post(p) \/ Failover(p) \/ LoseRequest(p) \/ Commit(p)
               \/ CommitClashes(p) \/ ServerFails(p)
               \/ \E c \in Commands : \/ AnswerKnown(c, p) \/ HandlePatrol(c, p)
                                      \/ RefuseWork(c, p) \/ ApplyWork(c, p)
        PROVE  UNCHANGED batch
    BY <2>6 DEF Post, Failover, LoseRequest, Commit, CommitClashes, ServerFails,
                AnswerKnown, HandlePatrol, RefuseWork, ApplyWork
  <2> QED
    BY <2>1, <2>2, <2>3, <2>4, <2>5, <2>6 DEF Next, Phone, Server
<1>2. \A q \in Slots : Made(q)
  <2>1. ASSUME UNCHANGED post PROVE \A q \in Slots : Made(q)
    BY <2>1 DEF Made
  <2>2. ASSUME NEW p \in Slots, Post(p) PROVE \A q \in Slots : Made(q)
    BY <2>2, <1>0 DEF Post, Made, TypeOK
  <2>3. ASSUME NEW p \in Slots, Failover(p) PROVE \A q \in Slots : Made(q)
    <3>1. cur \in Slots
      BY <2>3, <1>0 DEF Failover, TypeOK
    <3>2. Abandon(cur) \in [Slots -> PostType]
      BY <3>1, <1>0, OverType
    <3> QED
      BY <2>3, <1>0, <3>1, <3>2, OverSlots DEF Failover, Made
  <2>4. CASE Receive \/ PostFails
    <3>1. cur \in Slots
      BY <2>4, <1>0 DEF Receive, PostFails, TypeOK
    <3>2. post' = [post EXCEPT ![cur] = FreePost] \/ post' = Abandon(cur)
      BY <2>4 DEF Receive, PostFails
    <3>3. \A q \in Slots : post'[q] \in {post[q], FreePost}
      BY <1>0, <3>1, <3>2, OverSlots
    <3> QED
      BY <3>3 DEF Made
  <2>5. CASE SessionExpired \/ Crash
    <3>1. CASE cur = None
      BY <2>5, <3>1 DEF SessionExpired, Crash, Made
    <3>2. CASE cur # None
      <4>1. cur \in Slots
        BY <1>0, <3>2 DEF TypeOK
      <4>2. post' = [post EXCEPT ![cur] = FreePost] \/ post' = Abandon(cur)
        BY <2>5, <3>2 DEF SessionExpired, Crash
      <4>3. \A q \in Slots : post'[q] \in {post[q], FreePost}
        BY <1>0, <4>1, <4>2, OverSlots
      <4> QED
        BY <4>3 DEF Made
    <3> QED
      BY <3>1, <3>2
  <2>6. ASSUME NEW p \in Slots, LoseRequest(p) \/ CommitClashes(p) \/ ServerFails(p)
        PROVE  \A q \in Slots : Made(q)
    BY <2>6, <1>0, OverSlots DEF LoseRequest, CommitClashes, ServerFails, Made
  <2>7. ASSUME NEW p \in Slots, Commit(p) PROVE \A q \in Slots : Made(q)
    <3>1. post'[p] \in {Answered(post[p]), FreePost} /\ \A q \in Slots \ {p} : post'[q] = post[q]
      BY <2>7, <1>0 DEF Commit, TypeOK
    <3>2. Made(p)
      BY <1>0, <3>1 DEF Made, Answered, TypeOK, PostType
    <3> QED
      BY <3>1, <3>2 DEF Made
  <2>8. ASSUME NEW p \in Slots, NEW c \in Commands,
               \/ AnswerKnown(c, p) \/ HandlePatrol(c, p)
               \/ RefuseWork(c, p) \/ ApplyWork(c, p)
        PROVE  \A q \in Slots : Made(q)
    <3>1. c \in post[p].todo /\ post[p] \in PostType
      BY <2>8, <1>0 DEF AnswerKnown, HandlePatrol, RefuseWork, ApplyWork, IsNext, TypeOK
    <3>2. PICK a \in Answers \cup {"none"}, new \in {{}, {c}} :
             post' \in {[post EXCEPT ![p] = Handled(post[p], c, a, new)],
                        [post EXCEPT ![p] = Handled(Flushed(post[p]), c, a, new)]}
      <4>1. CASE AnswerKnown(c, p)
        BY <4>1, <1>0 DEF AnswerKnown, Repeated, TypeOK
      <4>2. CASE HandlePatrol(c, p)
        BY <4>2 DEF HandlePatrol, Verdicts
      <4>3. CASE RefuseWork(c, p)
        BY <4>3 DEF RefuseWork
      <4>4. CASE ApplyWork(c, p)
        BY <4>4 DEF ApplyWork
      <4> QED
        BY <2>8, <4>1, <4>2, <4>3, <4>4
    <3>3. Made(p)
      <4>1. \/ post'[p] = Handled(post[p], c, a, new)
            \/ post'[p] = Handled(Flushed(post[p]), c, a, new)
        BY <1>0, <3>2 DEF TypeOK
      <4>2. /\ post'[p].cmds = post[p].cmds
            /\ post'[p].todo = post[p].todo \ {c}
            /\ post'[p].added \in {new, post[p].added \cup new}
        BY <3>1, <4>1 DEF Handled, Flushed, PostType
      <4> QED
        BY <3>1, <3>2, <4>2 DEF Made
    <3>4. \A q \in Slots \ {p} : post'[q] = post[q]
      BY <1>0, <3>2 DEF TypeOK
    <3> QED
      BY <3>3, <3>4 DEF Made
  <2>9. ASSUME NEW c \in Commands, Enqueue(c) \/ Age(c) PROVE UNCHANGED post
    BY <2>9 DEF Enqueue, Age
  <2>10. \/ RecoverStale \/ ScreenReconcile \/ StartSyncUnavailable \/ StartSync
         \/ ListBatch \/ MarkSending \/ UploadFails \/ TokensCleared \/ SignIn
         \/ SignOutCheck \/ SignOutClear \/ Dispatcher \/ UNCHANGED vars
         => UNCHANGED post
    BY DEF RecoverStale, ScreenReconcile, StartSyncUnavailable, StartSync, ListBatch,
           MarkSending, UploadFails, TokensCleared, SignIn, SignOutCheck, SignOutClear,
           Dispatcher, DispatcherUndoes, vars
  <2> QED
    BY <2>1, <2>2, <2>3, <2>4, <2>5, <2>6, <2>7, <2>8, <2>9, <2>10 DEF Next, Phone, Server
<1>3. ASSUME NEW q \in Slots,
             NEW c \in UNION {post'[q].cmds, post'[q].todo, post'[q].added}
      PROVE  status[c] # "none"
  <2>1. Made(q) /\ \A d \in UNION {post[q].cmds, post[q].todo, post[q].added} : status[d] # "none"
    BY <1>2 DEF Created
  <2>2. CASE post'[q] \in {FreePost, FailedPost}
    BY <1>3, <2>2 DEF FailedPost, FreePost
  <2>3. CASE post'[q] = NewPost(batch)
    BY <1>3, <2>3 DEF NewPost, FreePost, Created
  <2> QED
    BY <1>3, <2>1, <2>2, <2>3 DEF Made
<1> QED
  BY <1>1, <1>3

LEMMA CreatedStep ==
    ASSUME Inductive, Created, [Next]_vars
    PROVE  Created'
<1>1. ASSUME NEW c, c \in Commands, status[c] # "none" PROVE status'[c] # "none"
  <2>1. SignOutClear => status'[c] # "none"
    BY <1>1 DEF SignOutClear
  <2>2. ASSUME NEW d \in Commands, Enqueue(d) PROVE status'[c] # "none"
    BY <1>1, <2>2 DEF Enqueue, Inductive, TypeOK
  <2> QED
    BY <1>1, <2>1, <2>2, SameInStep DEF SameCommands
<1>2. TypeOK'
  BY TypeStep DEF Inductive
<1>3. /\ batch' \subseteq Commands
      /\ \A p \in Slots : /\ post'[p].cmds \subseteq Commands
                          /\ post'[p].todo \subseteq Commands
                          /\ post'[p].added \subseteq Commands
  BY <1>2 DEF TypeOK, PostType
<1> QED
  BY <1>1, <1>3, NothingFromNowhere DEF Created

LEMMA OutcomeOf ==
    ASSUME NEW a \in Answers, NEW b \in Answers \cup {"none"}, Agree(a, b)
    PROVE  /\ Outcome(b) # "none"
           /\ Knowledge(a) = Promise!Said(Outcome(b))
BY DEF Agree, Outcome, Knowledge, Promise!Said

LEMMA KnowledgeOf ==
    ASSUME NEW s \in Statuses
    PROVE  /\ s \in Acked => Knowledge(s) = "success"
           /\ s = "refused" => Knowledge(s) = "refused"
           /\ s = "deleted" => Knowledge(s) = "forgotten"
           /\ s \in {"none"} \cup Queued => Knowledge(s) = "none"
BY DEF Knowledge

LEMMA OutcomeType ==
    ASSUME NEW v \in Answers \cup {"none"}
    PROVE  /\ Outcome(v) = "none" <=> v = "none"
           /\ v # "none" => Outcome(v) \in Promise!Outcomes
           /\ Outcome(v) = "applied" <=> v = "accepted"
BY DEF Outcome, Promise!Outcomes

\* The books of ExactlyOnce.
Submitted == {c \in PatrolCommands : status[c] # "none"}
Verdict   == [c \in PatrolCommands |-> Outcome(op[c])]
Done      == [c \in PatrolCommands |-> effects[c]]
Told      == [c \in PatrolCommands |-> Knowledge(status[c])]

\* A step that leaves the server's tables alone and the commands in the outbox
\* tells the user what has been decided.
LEMMA TellStep ==
    ASSUME Inductive, Inductive', UNCHANGED <<op, effects>>, SameCommands, AnsweredStays,
           NEW S, S = {c \in PatrolCommands : status'[c] \in Answers}
    PROVE  Promise!Tell(S)
<1>1. /\ status \in [Commands -> Statuses] /\ status' \in [Commands -> Statuses]
      /\ op \in [Commands -> Answers \cup {"none"}]
  BY DEF Inductive, TypeOK
<1>2. Submitted' = Submitted /\ S \subseteq Submitted
  BY DEF SameCommands, Submitted
<1>3. ASSUME NEW c \in S
      PROVE  /\ Outcome(op[c]) # "none"
             /\ Knowledge(status'[c]) = Promise!Said(Outcome(op[c]))
             /\ Knowledge(status[c]) \in {"none", Promise!Said(Outcome(op[c]))}
  <2>1. Agree(status'[c], op[c])
    BY DEF Inductive, AnswerIsRecorded
  <2>2. status[c] \in Answers => Agree(status[c], op[c])
    BY DEF Inductive, AnswerIsRecorded
  <2>3. status[c] \in Statuses \ {"none", "deleted"}
    BY <1>1 DEF SameCommands
  <2> QED
    BY <1>1, <2>1, <2>2, <2>3, OutcomeOf, KnowledgeOf
<1>4. ASSUME NEW c \in PatrolCommands, c \notin S
      PROVE  Knowledge(status'[c]) = Knowledge(status[c])
  <2>1. status'[c] \notin Answers /\ status[c] \notin Answers
    BY <1>4 DEF AnsweredStays, SameCommands
  <2> QED
    BY <1>1, <2>1, KnowledgeOf DEF SameCommands
<1>5. Told' = [c \in PatrolCommands |-> IF c \in S THEN Promise!Said(Verdict[c]) ELSE Told[c]]
  BY <1>3, <1>4 DEF Told, Verdict
<1> QED
  BY <1>2, <1>3, <1>5 DEF Promise!Tell, Submitted, Verdict, Done, Told

\* SaveChanges decides the commands whose rows it inserts.
LEMMA DecideStep ==
    ASSUME Inductive, Inductive', Created, NEW p \in Slots,
           Commit(p) \/ \E c \in Commands : ApplyWork(c, p),
           NEW S, S = post[p].added \cap PatrolCommands
    PROVE  Promise!Decide(S)
<1>1. /\ op' = Saved(p) /\ ~KeyTaken(p) /\ status' = status
      /\ post[p].state = "sent"
      /\ \A c \in PatrolCommands : effects'[c] = EffectsSaved(p)[c]
  <2>1. EffectsSaved(p) \in [Commands -> Nat]
    BY SavedType DEF Inductive
  <2> QED
    BY <2>1 DEF Commit, ApplyWork, IsNext, phoneVars
<1>2. /\ op \in [Commands -> Answers \cup {"none"}] /\ effects \in [Commands -> Nat]
      /\ \A c \in post[p].added : post[p].ans[c] \in Answers
  BY <1>1 DEF Inductive, TypeOK, RequestsOK, RequestOK
<1>3. /\ S \subseteq Submitted
      /\ \A c \in S : op[c] = "none" /\ op'[c] = post[p].ans[c]
      /\ \A c \in PatrolCommands \ S : op'[c] = op[c]
  BY <1>1 DEF Created, Submitted, KeyTaken, Saved
<1> DEFINE v == [c \in S |-> Outcome(post[p].ans[c])]
<1>4. v \in [S -> Promise!Outcomes] /\ \A c \in S : Verdict[c] = "none"
  BY <1>2, <1>3, OutcomeType DEF Verdict
<1>5. Verdict' = [c \in PatrolCommands |-> IF c \in S THEN v[c] ELSE Verdict[c]]
  BY <1>3 DEF Verdict
<1>6. Done' = [c \in PatrolCommands |->
                 IF c \in S /\ v[c] = "applied" THEN Done[c] + 1 ELSE Done[c]]
  <2>1. ASSUME NEW c \in PatrolCommands
        PROVE  effects'[c] = IF c \in S /\ v[c] = "applied" THEN effects[c] + 1 ELSE effects[c]
    BY <1>1, <1>2, OutcomeType DEF EffectsSaved
  <2> QED
    BY <2>1 DEF Done
<1>7. Submitted' = Submitted /\ Told' = Told
  BY <1>1 DEF Submitted, Told
<1> QED
  BY <1>3, <1>4, <1>5, <1>6, <1>7 DEF Promise!Decide, Submitted, Verdict, Done, Told

LEMMA ForgetStep ==
    ASSUME Inductive, SignOutClear
    PROVE  Promise!Forget
<1>1. status \in [Commands -> Statuses] /\ UNCHANGED <<op, effects>>
  BY DEF Inductive, TypeOK, SignOutClear, serverVars
<1>2. \A c \in Commands : status'[c] = IF status[c] = "none" THEN "none" ELSE "deleted"
  BY DEF SignOutClear
<1>3. Told' = [c \in PatrolCommands |-> IF c \in Submitted THEN "forgotten" ELSE Told[c]]
  BY <1>1, <1>2, KnowledgeOf DEF Told, Submitted
<1>4. Submitted' = Submitted
  BY <1>2 DEF Submitted
<1> QED
  BY <1>1, <1>3, <1>4 DEF Promise!Forget, Submitted, Verdict, Done, Told

LEMMA SubmitStep ==
    ASSUME Inductive, NEW c \in Commands, Enqueue(c)
    PROVE  IF c \in PatrolCommands THEN Promise!Submit(c)
           ELSE UNCHANGED <<Submitted, Verdict, Done, Told>>
<1>1. /\ status \in [Commands -> Statuses] /\ UNCHANGED <<op, effects>>
      /\ status[c] = "none" /\ status' = [status EXCEPT ![c] = "pending"]
  BY DEF Inductive, TypeOK, Enqueue, serverVars
<1>2. Told' = Told
  BY <1>1, KnowledgeOf DEF Told
<1>3. Submitted' = IF c \in PatrolCommands THEN Submitted \cup {c} ELSE Submitted
  BY <1>1 DEF Submitted
<1> QED
  BY <1>1, <1>2, <1>3 DEF Promise!Submit, Submitted, Verdict, Done, Told

\* The outbox keeps its promise, for any commands, slots, batches and faults: each
\* patrol command is decided once, its effect and its verdict become visible
\* together, and the phone is told that verdict and no other, until the user
\* signs out (outbox_commands, SaveOutbox, mobile_outbox_operations).
THEOREM KeepsThePromise == Spec => ImplementsExactlyOnce
<1>1. Init => Promise!Init /\ Created
  <2> SUFFICES ASSUME Init PROVE Promise!Init /\ Created
    OBVIOUS
  <2>1. \A c \in PatrolCommands : /\ status[c] = "none" /\ op[c] = "none" /\ effects[c] = 0
    BY DEF Init
  <2>2. Outcome("none") = "none" /\ Knowledge("none") = "none"
    BY OutcomeType, KnowledgeOf
  <2>3. Promise!Init
    BY <2>1, <2>2 DEF Promise!Init
  <2>4. Created
    BY DEF Init, Created, FreePost
  <2> QED
    BY <2>3, <2>4
<1>2. Inductive /\ Created /\ [Next]_vars => Created'
  BY CreatedStep
<1>3. Inductive /\ Inductive' /\ Created /\ [Next]_vars => [Promise!Next]_(Promise!vars)
  <2> SUFFICES ASSUME Inductive, Inductive', Created, [Next]_vars
               PROVE  Promise!Next \/ UNCHANGED Promise!vars
    OBVIOUS
  <2>1. ASSUME NEW p \in Slots, Commit(p) \/ \E c \in Commands : ApplyWork(c, p)
        PROVE  Promise!Next
    <3>1. PICK S \in SUBSET PatrolCommands : S = post[p].added \cap PatrolCommands
      OBVIOUS
    <3>2. Promise!Decide(S)
      BY <2>1, <3>1, DecideStep
    <3> QED
      BY <3>2 DEF Promise!Next
  <2>2. CASE SignOutClear
    BY <2>2, ForgetStep DEF Promise!Next
  <2>3. ASSUME NEW c \in Commands, Enqueue(c)
        PROVE  Promise!Next \/ UNCHANGED Promise!vars
    <3>1. CASE c \in PatrolCommands
      BY <2>3, <3>1, SubmitStep DEF Promise!Next
    <3>2. CASE c \notin PatrolCommands
      BY <2>3, <3>2, SubmitStep DEF Promise!vars, Submitted, Verdict, Done, Told
    <3> QED
      BY <3>1, <3>2
  <2>4. ASSUME UNCHANGED <<op, effects>>, SameCommands PROVE Promise!Next
    <3>1. PICK S \in SUBSET PatrolCommands :
             S = {c \in PatrolCommands : status'[c] \in Answers}
      OBVIOUS
    <3>2. Promise!Tell(S)
      BY <2>4, <3>1, AnsweredStaysInStep, TellStep
    <3> QED
      BY <3>2 DEF Promise!Next
  <2>5. \/ UNCHANGED <<op, effects>>
        \/ \E p \in Slots : Commit(p) \/ \E c \in Commands : ApplyWork(c, p)
    <3>1. Quiet => UNCHANGED <<op, effects>>
      BY DEF Quiet
    <3>2. ASSUME NEW p \in Slots, NEW c \in Commands,
                 AnswerKnown(c, p) \/ HandlePatrol(c, p) \/ RefuseWork(c, p)
          PROVE  UNCHANGED <<op, effects>>
      BY <3>2 DEF AnswerKnown, HandlePatrol, RefuseWork, serverVars
    <3> QED
      BY <3>1, <3>2, QuietSteps DEF Next, Server
  <2> QED
    BY <2>1, <2>2, <2>3, <2>4, <2>5, SameInStep
<1> QED
  BY <1>1, <1>2, <1>3, InductiveCorrect, PTL DEF Spec, ImplementsExactlyOnce, Promise!Spec
=============================================================================
