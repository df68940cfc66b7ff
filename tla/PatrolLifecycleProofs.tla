------------------------ MODULE PatrolLifecycleProofs ------------------------
(***************************************************************************)
(* Theorems about PatrolLifecycle, for any number of assignments, requests *)
(* and transactions, and batches of any length: what is in a change        *)
(* tracker agrees with the tables, or its commit fails; the rows of        *)
(* patrol_requests mirror those of assignments; and the tables, read as a  *)
(* book, keep PatrolLedger.                                                *)
(***************************************************************************)
EXTENDS PatrolRefinement, TLAPS

USE DEF NotBegun, Open, Closed, Persisted

-----------------------------------------------------------------------------
(* Values in a change tracker *)

Trackable == Row \cup {NoRow("untracked")}

LEMMA NoRowType ==
    ASSUME NEW s \in {"unused", "removed"} PROVE NoRow(s) \in Row
BY ConstantsAssumption DEF NoRow, Row

\* A row keeps its type when it moves.
LEMMA MovedType ==
    ASSUME NEW row \in Row, MayMove(row), NEW s \in Persisted
    PROVE  /\ Moved(row, s) \in Row
           /\ Moved(row, s).status = s
           /\ Moved(row, s).lock = row.lock + 1
           /\ Moved(row, s).started = row.started
           /\ Started(row, s) \in Row
           /\ Started(row, s).status = s
           /\ Started(row, s).lock = row.lock + 1
           /\ Started(row, s).started = TRUE
<1>1. /\ Moved(row, s).status = s
      /\ Moved(row, s).lock = row.lock + 1
      /\ Moved(row, s).started = row.started
  BY DEF Row, Moved
<1>2. row.lock + 1 \in 0 .. MaxLock
  BY ConstantsAssumption DEF Row, MayMove
<1>3. Moved(row, s) \in Row
  BY <1>2 DEF Row, Moved
<1>4. /\ Started(row, s).status = s
      /\ Started(row, s).lock = row.lock + 1
      /\ Started(row, s).started = TRUE
      /\ Started(row, s) \in Row
  BY <1>1, <1>3 DEF Row, Started
<1> QED
  BY <1>1, <1>3, <1>4

LEMMA RowSeenType ==
    ASSUME TypeOK, NEW x \in TxType, NEW i \in Assignments
    PROVE  RowSeen(x, i) \in Trackable
BY DEF TypeOK, TxType, RowSeen, Trackable

\* A query, field by field.
LEMMA FetchedFields ==
    ASSUME TypeOK, NEW x \in TxType,
           NEW I \in SUBSET Assignments, NEW R \in SUBSET Requests
    PROVE  LET y == Fetched(x, I, R) IN
           /\ y \in TxType
           /\ y.phase = x.phase /\ y.known = x.known
           /\ y.reported = x.reported /\ y.left = x.left
           /\ \A i \in Assignments :
                 IF i \in I /\ x.base[i].status = "untracked"
                 THEN y.base[i] = asg[i] /\ y.mine[i] = asg[i]
                 ELSE y.base[i] = x.base[i] /\ y.mine[i] = x.mine[i]
           /\ \A r \in Requests :
                 IF r \in R /\ x.baseReq[r] = "untracked"
                 THEN y.baseReq[r] = req[r] /\ y.mineReq[r] = req[r]
                 ELSE y.baseReq[r] = x.baseReq[r] /\ y.mineReq[r] = x.mineReq[r]
BY DEF TypeOK, TxType, Fetched

\* A change to assignment i and its request, field by field.
LEMMA ChangedFields ==
    ASSUME TypeOK, NEW x \in TxType, NEW i \in Assignments,
           NEW row \in Row, NEW s \in ReqStatus
    PROVE  LET y == Changed(x, i, row, s) IN
           /\ y \in TxType
           /\ y.phase = x.phase /\ y.known = x.known
           /\ y.reported = x.reported /\ y.left = x.left
           /\ y.base[i] = IF x.base[i].status = "untracked"
                          THEN asg[i] ELSE x.base[i]
           /\ y.mine[i] = row
           /\ \A j \in Assignments \ {i} :
                 y.base[j] = x.base[j] /\ y.mine[j] = x.mine[j]
           /\ y.mineReq[RequestOf[i]] = s
           /\ \A r \in Requests \ {RequestOf[i]} :
            y.baseReq[r] = x.baseReq[r] /\ y.mineReq[r] = x.mineReq[r]
<1> DEFINE f == Fetched(x, {i}, {RequestOf[i]})
<1>1. /\ RequestOf[i] \in Requests
      /\ {i} \in SUBSET Assignments
      /\ {RequestOf[i]} \in SUBSET Requests
  BY ConstantsAssumption
<1>2. /\ f \in TxType
      /\ f.phase = x.phase /\ f.known = x.known
      /\ f.reported = x.reported /\ f.left = x.left
      /\ \A j \in Assignments :
            IF j \in {i} /\ x.base[j].status = "untracked"
            THEN f.base[j] = asg[j] /\ f.mine[j] = asg[j]
            ELSE f.base[j] = x.base[j] /\ f.mine[j] = x.mine[j]
      /\ \A r \in Requests :
            IF r \in {RequestOf[i]} /\ x.baseReq[r] = "untracked"
            THEN f.baseReq[r] = req[r] /\ f.mineReq[r] = req[r]
            ELSE f.baseReq[r] = x.baseReq[r] /\ f.mineReq[r] = x.mineReq[r]
  BY <1>1, FetchedFields, Zenon
<1>3. Changed(x, i, row, s) =
         [f EXCEPT !.mine[i] = row, !.mineReq[RequestOf[i]] = s]
  BY DEF Changed
<1> HIDE DEF f
<1> DEFINE y == Changed(x, i, row, s)
<1>4. /\ y.phase = f.phase /\ y.known = f.known
      /\ y.reported = f.reported /\ y.left = f.left
      /\ y.base = f.base /\ y.baseReq = f.baseReq
      /\ y.mine = [f.mine EXCEPT ![i] = row]
      /\ y.mineReq = [f.mineReq EXCEPT ![RequestOf[i]] = s]
  BY <1>2, <1>3 DEF TxType
<1>6. y \in TxType
  <2>1. /\ [f.mine EXCEPT ![i] = row]
              \in [Assignments -> Row \cup {NoRow("untracked")}]
        /\ [f.mineReq EXCEPT ![RequestOf[i]] = s]
              \in [Requests -> ReqStatus \cup {"untracked"}]
    BY <1>1, <1>2 DEF TxType
  <2> QED
    BY <1>2, <1>3, <2>1 DEF TxType
<1> HIDE DEF y
<1>5. /\ y.mine[i] = row
      /\ y.mineReq[RequestOf[i]] = s
      /\ \A j \in Assignments \ {i} : y.mine[j] = f.mine[j]
      /\ \A r \in Requests \ {RequestOf[i]} : y.mineReq[r] = f.mineReq[r]
  BY <1>1, <1>2, <1>4 DEF TxType
<1> QED
  BY <1>2, <1>4, <1>5, <1>6 DEF y

-----------------------------------------------------------------------------
(* One transaction *)

LEMMA FreeTxOK == FreeTx \in TxType /\ TrackerOK(FreeTx)
<1>1. FreeTx \in TxType
  BY ConstantsAssumption DEF FreeTx, TxType, ReqStatus
<1>2. ASSUME NEW i \in Assignments PROVE TrackedRowOK(FreeTx, i)
  BY DEF FreeTx, TrackedRowOK
<1>3. ASSUME NEW r \in Requests PROVE TrackedRequestOK(FreeTx, r)
  BY DEF FreeTx, TrackedRequestOK
<1> QED
  BY <1>2, <1>3, <1>1 DEF TrackerOK, FreeTx

\* A step that changes nothing but the tracker of t, and what is noted of
\* batches.
LEMMA NotedStep ==
    ASSUME Inductive, NEW t \in Txs, NEW x \in TxType, TrackerOK(x),
           x.phase = "free" => x = FreeTx,
           tx' = [tx EXCEPT ![t] = x], UNCHANGED <<asg, req, reports>>,
           again' \subseteq Requests
    PROVE  Inductive'
<1>1. TypeOK'
  BY DEF Inductive, TypeOK
<1>2. (RowsOK /\ OneAssignmentPerRequest /\ ReportsMatch /\ CancelledRequests)'
  BY DEF Inductive, RowsOK, OneAssignmentPerRequest, ReportsMatch,
         CancelledRequests, CancelledIn, Live
<1>3. ASSUME NEW u \in Txs PROVE TrackerOK(tx[u])'
  <2>1. tx'[u] = IF u = t THEN x ELSE tx[u]
    BY DEF Inductive, TypeOK
  <2>2. TrackerOK(tx[u])
    BY DEF Inductive
  <2>3. TrackerOK(tx'[u])
    BY <2>1, <2>2
  <2>4. ASSUME NEW i \in Assignments PROVE TrackedRowOK(tx[u], i)'
    <3>1. TrackedRowOK(tx'[u], i)
      BY <2>3 DEF TrackerOK
    <3>2. Intended(tx[u], i)' <=> Intended(tx'[u], i)
      BY DEF Intended, Live, CancelledIn
    <3>3. Since(tx[u].base[i], asg[i])' <=> Since(tx'[u].base[i], asg'[i])
      BY DEF Since, Live
    <3>4. Live(tx[u].base[i])' <=> Live(tx'[u].base[i])
      BY DEF Live
    <3> QED
      BY <3>1, <3>2, <3>3, <3>4 DEF TrackedRowOK
  <2>5. ASSUME NEW i \in tx'[u].known PROVE asg'[i].status # "unused"
    BY <2>3, <2>5 DEF TrackerOK
  <2>6. ASSUME NEW r \in Requests PROVE TrackedRequestOK(tx[u], r)'
    <3>1. TrackedRequestOK(tx'[u], r)
      BY <2>3 DEF TrackerOK
    <3> QED
      BY <3>1 DEF TrackedRequestOK, CancelledIn
  <2> QED
    BY <2>4, <2>5, <2>6 DEF TrackerOK
<1>4. FreeSlots'
  BY DEF Inductive, TypeOK, FreeSlots
<1> QED
  BY <1>1, <1>2, <1>3, <1>4 DEF Inductive

LEMMA TrackerStep ==
    ASSUME Inductive, NEW t \in Txs, NEW x \in TxType, TrackerOK(x),
           x.phase = "free" => x = FreeTx,
           tx' = [tx EXCEPT ![t] = x], UNCHANGED <<asg, req, reports, again>>
    PROVE  Inductive'
<1>1. again' \subseteq Requests
  BY DEF Inductive, TypeOK
<1> QED
  BY <1>1, NotedStep

\* A query of rows that are in the table keeps a tracker in agreement with it.
LEMMA FetchedOK ==
    ASSUME Inductive, NEW x \in TxType, TrackerOK(x),
           NEW I \in SUBSET Assignments, NEW R \in SUBSET Requests,
           \A i \in I : x.base[i].status = "untracked" => Live(asg[i])
    PROVE  TrackerOK(Fetched(x, I, R))
<1> DEFINE y == Fetched(x, I, R)
<1>1. /\ y.phase = x.phase /\ y.known = x.known /\ y.reported = x.reported
      /\ \A i \in Assignments :
            IF i \in I /\ x.base[i].status = "untracked"
            THEN y.base[i] = asg[i] /\ y.mine[i] = asg[i]
            ELSE y.base[i] = x.base[i] /\ y.mine[i] = x.mine[i]
      /\ \A r \in Requests :
            IF r \in R /\ x.baseReq[r] = "untracked"
            THEN y.baseReq[r] = req[r] /\ y.mineReq[r] = req[r]
            ELSE y.baseReq[r] = x.baseReq[r] /\ y.mineReq[r] = x.mineReq[r]
  BY FetchedFields, Zenon DEF Inductive
<1> HIDE DEF y
<1>2. ASSUME NEW i \in Assignments PROVE TrackedRowOK(y, i)
  <2>1. TrackedRowOK(x, i)
    BY DEF TrackerOK
  <2>2. CASE i \in I /\ x.base[i].status = "untracked"
    <3>1. y.base[i] = asg[i] /\ y.mine[i] = asg[i] /\ Live(asg[i])
      BY <1>1, <2>2
    <3>2. i \notin y.reported
      BY <1>1, <2>1, <2>2 DEF TrackedRowOK, NoRow, Live
    <3> QED
      BY <3>1, <3>2 DEF TrackedRowOK, Since, Intended
  <2>3. CASE ~(i \in I /\ x.base[i].status = "untracked")
    BY <1>1, <2>1, <2>3 DEF TrackedRowOK, Since, Intended
  <2> QED
    BY <2>2, <2>3
<1>3. ASSUME NEW r \in Requests, y.mineReq[r] = "cancelled"
      PROVE  TrackedRequestOK(y, r)
  <2>1. CASE req[r] = "cancelled"
    BY <1>3, <2>1 DEF Inductive, CancelledRequests, TrackedRequestOK
  <2>2. CASE x.mineReq[r] = "cancelled"
    <3>1. CASE CancelledIn(r)
      BY <1>3, <3>1 DEF TrackedRequestOK
    <3>2. ASSUME x.phase = "web",
                 NEW i \in Of(r), x.mine[i].status = "cancelled"
          PROVE  TrackedRequestOK(y, r)
      <4>1. i \in Assignments /\ TrackedRowOK(x, i)
        BY DEF Of, TrackerOK
      <4>2. x.base[i].status # "untracked"
        BY <3>2, <4>1 DEF TrackedRowOK, NoRow, Live
      <4> QED
        BY <1>1, <1>3, <3>2, <4>1, <4>2 DEF TrackedRequestOK
    <3> QED
      BY <2>2, <3>1, <3>2 DEF TrackerOK, TrackedRequestOK
  <2> QED
    BY <1>1, <1>3, <2>1, <2>2
<1>4. \A r \in Requests : TrackedRequestOK(y, r)
  <2>1. ASSUME NEW r \in Requests, y.mineReq[r] = "untracked"
        PROVE  y.baseReq[r] = "untracked"
    BY <1>1, <2>1 DEF TrackerOK, TrackedRequestOK, Inductive, TypeOK, ReqStatus
  <2> QED
    BY <1>3, <2>1 DEF TrackedRequestOK
<1> QED
  BY <1>1, <1>2, <1>4 DEF y, TrackerOK

\* A tracker that differs from x in the row of i and the status of its
\* request is in agreement if it is in these two.
LEMMA RowChangedOK ==
    ASSUME NEW x \in TxType, TrackerOK(x), x.phase # "web",
           NEW i \in Assignments, NEW y \in TxType,
           y.known = x.known,
           \A j \in Assignments \ {i} :
              /\ y.base[j] = x.base[j]
              /\ y.mine[j] = x.mine[j]
              /\ j \in y.reported <=> j \in x.reported,
           TrackedRowOK(y, i),
           \A r \in Requests \ {RequestOf[i]} :
            y.baseReq[r] = x.baseReq[r] /\ y.mineReq[r] = x.mineReq[r],
           TrackedRequestOK(y, RequestOf[i])
    PROVE  TrackerOK(y)
<1>1. ASSUME NEW j \in Assignments \ {i} PROVE TrackedRowOK(y, j)
  <2>1. TrackedRowOK(x, j)
    BY DEF TrackerOK
  <2> QED
    BY <2>1 DEF TrackedRowOK, Since, Intended
<1>2. ASSUME NEW r \in Requests \ {RequestOf[i]} PROVE TrackedRequestOK(y, r)
  BY DEF TrackerOK, TrackedRequestOK
<1> QED
  BY <1>1, <1>2 DEF TrackerOK

\* One more command handled.
LEMMA CountedOK ==
    ASSUME NEW x \in TxType, TrackerOK(x), x.left > 0
    PROVE  LET y == [x EXCEPT !.left = @ - 1] IN
           y \in TxType /\ TrackerOK(y) /\ y.phase = x.phase
<1> DEFINE y == [x EXCEPT !.left = @ - 1]
<1>1. y \in TxType
  BY ConstantsAssumption DEF TxType
<1>2. TrackerOK(y)
  <2>1. /\ y.base = x.base /\ y.mine = x.mine
        /\ y.baseReq = x.baseReq /\ y.mineReq = x.mineReq
        /\ y.phase = x.phase /\ y.known = x.known /\ y.reported = x.reported
    BY DEF TxType
  <2> HIDE DEF y
  <2> QED
    BY <2>1 DEF TrackerOK, TrackedRowOK, TrackedRequestOK, Since, Intended
<1>3. y.phase = x.phase
  BY DEF TxType
<1> QED
  BY <1>1, <1>2, <1>3

LEMMA HandledStep ==
    ASSUME Inductive, NEW t \in Txs, NEW x \in TxType, TrackerOK(x),
           x.left = tx[t].left, x.phase = tx[t].phase, Handled(t, x)
    PROVE  Inductive'
<1> DEFINE y == [x EXCEPT !.left = @ - 1]
<1>1. /\ tx' = [tx EXCEPT ![t] = y] /\ UNCHANGED <<asg, req, reports, again>>
      /\ x.phase = "batch" /\ x.left > 0
  BY DEF Handled
<1>2. y \in TxType /\ TrackerOK(y) /\ y.phase = x.phase
  BY <1>1, CountedOK
<1> HIDE DEF y
<1> QED
  BY <1>1, <1>2, TrackerStep

LEMMA BatchFacts ==
    ASSUME Inductive, NEW t \in Txs
    PROVE  /\ TypeOK
           /\ tx[t] \in TxType
           /\ TrackerOK(tx[t])
           /\ \A i \in Assignments : TrackedRowOK(tx[t], i)
           /\ \A r \in Requests : TrackedRequestOK(tx[t], r)
BY DEF Inductive, TypeOK, TrackerOK

\* The row a handler sees is open: then the row it has read was open, too.
LEMMA OpenSeen ==
    ASSUME Inductive, NEW x \in TxType, TrackerOK(x), x.phase = "batch",
           NEW i \in Assignments, RowSeen(x, i).status \in Open
    PROVE  LET row == RowSeen(x, i)
               b == IF x.base[i].status = "untracked" THEN asg[i] ELSE x.base[i]
           IN  /\ row \in Row
               /\ i \notin x.reported
               /\ \/ b = NoRow("unused") /\ i \notin x.known
                  \/ /\ b \in Row
                     /\ Live(b)
                     /\ b.status \in Open
                     /\ Since(b, asg[i])
                     /\ row.lock >= b.lock
                     /\ b.started => row.started
<1>1. TrackedRowOK(x, i)
  BY DEF TrackerOK
<1>2. RowSeen(x, i) \in Row
  BY RowSeenType DEF Inductive, Trackable, NoRow
<1>3. asg[i] \in Row /\ x.base[i] \in Trackable /\ x.mine[i] \in Trackable
  BY DEF Inductive, TypeOK, TxType, Trackable
<1>4. CASE x.base[i].status = "untracked"
  BY <1>1, <1>2, <1>3, <1>4
     DEF TrackedRowOK, RowSeen, Since, NoRow, Live, Row
<1>5. CASE x.base[i] = NoRow("unused")
  BY <1>1, <1>2, <1>5 DEF TrackedRowOK, RowSeen, NoRow, Live
<1>6. CASE Live(x.base[i])
  <2>1. RowSeen(x, i) = x.mine[i] /\ x.base[i].status # "untracked"
    BY <1>6 DEF RowSeen, Live
  <2>2. Since(x.base[i], asg[i]) /\ Intended(x, i) /\ x.base[i] \in Row
    BY <1>1, <1>3, <1>6 DEF TrackedRowOK, NoRow, Live, Trackable
  <2>3. i \notin x.reported /\ x.base[i].status \in Open
    BY <2>1, <2>2 DEF Intended
  <2>4. x.mine[i].lock >= x.base[i].lock
    BY <2>1, <2>2, <1>2 DEF Intended, Row, NoRow
  <2>5. x.base[i].started => x.mine[i].started
    BY <2>1, <2>2 DEF Intended, NoRow
  <2> QED
    BY <1>2, <1>6, <2>1, <2>2, <2>3, <2>4, <2>5
<1> QED
  BY <1>1, <1>4, <1>5, <1>6 DEF TrackedRowOK, NoRow

\* An open assignment goes on: accepted, started, paused, resumed, handed off.
LEMMA AdvanceStep ==
    ASSUME Inductive, NEW t \in Txs, NEW i \in Assignments,
           tx[t].phase = "batch", RowSeen(tx[t], i).status \in Open,
           NEW row \in Row, row.status \in Open,
           row.lock > RowSeen(tx[t], i).lock,
           RowSeen(tx[t], i).started => row.started,
           NEW s \in Open,
           Handled(t, Changed(tx[t], i, row, s))
    PROVE  Inductive'
<1> DEFINE x == tx[t]
           y == Changed(x, i, row, s)
           b == IF x.base[i].status = "untracked" THEN asg[i] ELSE x.base[i]
<1>1. TypeOK /\ x \in TxType /\ TrackerOK(x)
  BY BatchFacts
<1>2. s \in ReqStatus /\ RequestOf[i] \in Requests
  BY ConstantsAssumption DEF ReqStatus
<1>3. /\ y \in TxType
      /\ y.phase = x.phase /\ y.known = x.known
      /\ y.reported = x.reported /\ y.left = x.left
      /\ y.base[i] = b
      /\ y.mine[i] = row
      /\ \A j \in Assignments \ {i} :
            y.base[j] = x.base[j] /\ y.mine[j] = x.mine[j]
      /\ y.mineReq[RequestOf[i]] = s
      /\ \A r \in Requests \ {RequestOf[i]} :
            y.baseReq[r] = x.baseReq[r] /\ y.mineReq[r] = x.mineReq[r]
  BY <1>1, <1>2, ChangedFields
<1>4. /\ RowSeen(x, i) \in Row
      /\ i \notin x.reported
      /\ \/ b = NoRow("unused") /\ i \notin x.known
         \/ /\ b \in Row
            /\ Live(b)
            /\ b.status \in Open
            /\ Since(b, asg[i])
            /\ RowSeen(x, i).lock >= b.lock
            /\ b.started => RowSeen(x, i).started
  BY <1>1, OpenSeen, Zenon
<1> HIDE DEF x, y, b
<1>5. TrackedRowOK(y, i)
  <2>1. CASE b = NoRow("unused") /\ i \notin x.known
    BY <1>3, <1>4, <2>1 DEF TrackedRowOK
  <2>2. CASE b # NoRow("unused")
    <3>1. row.lock > b.lock
      BY <1>4, <2>2 DEF Row, x
    <3>2. b.started => row.started
      BY <1>4, <2>2 DEF x
    <3>3. Intended(y, i)
      BY <1>3, <1>4, <2>2, <3>1, <3>2 DEF Intended, Live
    <3> QED
      BY <1>3, <1>4, <2>2, <3>3 DEF TrackedRowOK
  <2> QED
    BY <1>4, <2>1, <2>2 DEF NoRow, Live
<1>6. TrackedRequestOK(y, RequestOf[i])
  BY <1>3 DEF TrackedRequestOK
<1>7. TrackerOK(y)
  BY <1>1, <1>3, <1>5, <1>6, RowChangedOK DEF x
<1> QED
  BY <1>1, <1>3, <1>7, HandledStep DEF x, y

\* A query that changes nothing: of the row of i, or of a request's navigation.
LEMMA QueryStep ==
    ASSUME Inductive, NEW t \in Txs,
           NEW I \in SUBSET Assignments, NEW R \in SUBSET Requests,
           \A i \in I : tx[t].base[i].status = "untracked" => Live(asg[i]),
           Handled(t, Fetched(tx[t], I, R))
    PROVE  Inductive'
<1>1. TypeOK /\ tx[t] \in TxType /\ TrackerOK(tx[t])
  BY BatchFacts
<1>2. /\ Fetched(tx[t], I, R) \in TxType
      /\ Fetched(tx[t], I, R).left = tx[t].left
      /\ Fetched(tx[t], I, R).phase = tx[t].phase
  BY <1>1, FetchedFields
<1>3. TrackerOK(Fetched(tx[t], I, R))
  BY <1>1, FetchedOK
<1> QED
  BY <1>2, <1>3, HandledStep

LEMMA LookAtStep ==
    ASSUME Inductive, NEW t \in Txs, NEW i \in Assignments,
           NEW w \in BOOLEAN, LookAt(t, i, w)
    PROVE  Inductive'
<1> DEFINE R == IF w THEN {RequestOf[i]} ELSE {}
<1>1. R \in SUBSET Requests /\ {i} \in SUBSET Assignments
  BY ConstantsAssumption
<1>2. Live(asg[i]) /\ Handled(t, Fetched(tx[t], {i}, R))
  BY DEF LookAt
<1> HIDE DEF R
<1> QED
  BY <1>1, <1>2, QueryStep

LEMMA LookAtRequestStep ==
    ASSUME Inductive, NEW t \in Txs, NEW r \in Requests, LookAtRequest(t, r)
    PROVE  Inductive'
<1> DEFINE I == Navigation(tx[t], r)
<1>1. I \in SUBSET Assignments /\ {r} \in SUBSET Requests
  BY DEF Navigation, Tracked, Of
<1>2. \A i \in I : tx[t].base[i].status = "untracked" => Live(asg[i])
  BY DEF Navigation, Tracked, Of
<1>3. Handled(t, Fetched(tx[t], I, {r}))
  BY DEF LookAtRequest
<1> HIDE DEF I
<1> QED
  BY <1>1, <1>2, <1>3, QueryStep

\* Changed rows and requests together; y is the tracker after the command.
LEMMA ChangeOK ==
    ASSUME Inductive, NEW t \in Txs, NEW i \in Assignments,
           tx[t].phase = "batch", NEW row \in Row, NEW s \in ReqStatus,
           NEW y \in TxType,
           LET c == Changed(tx[t], i, row, s) IN
           /\ y.phase = c.phase /\ y.known = c.known /\ y.left = c.left
           /\ y.mine = c.mine /\ y.baseReq = c.baseReq /\ y.mineReq = c.mineReq
           /\ \A j \in Assignments \ {i} :
                 /\ y.base[j] = c.base[j]
                 /\ j \in y.reported <=> j \in c.reported,
           TrackedRowOK(y, i),
           s = "cancelled" => CancelledIn(RequestOf[i])
    PROVE  TrackerOK(y) /\ y.left = tx[t].left /\ y.phase = tx[t].phase
<1> DEFINE x == tx[t]
           c == Changed(x, i, row, s)
<1>1. TypeOK /\ x \in TxType /\ TrackerOK(x)
  BY BatchFacts
<1>2. /\ c.phase = x.phase /\ c.known = x.known
      /\ c.reported = x.reported /\ c.left = x.left
      /\ \A j \in Assignments \ {i} :
            c.base[j] = x.base[j] /\ c.mine[j] = x.mine[j]
      /\ c.mineReq[RequestOf[i]] = s
      /\ \A r \in Requests \ {RequestOf[i]} :
            c.baseReq[r] = x.baseReq[r] /\ c.mineReq[r] = x.mineReq[r]
  BY <1>1, ChangedFields
<1>3. /\ y.phase = c.phase /\ y.known = c.known /\ y.left = c.left
      /\ y.mine = c.mine /\ y.baseReq = c.baseReq /\ y.mineReq = c.mineReq
      /\ \A j \in Assignments \ {i} :
            /\ y.base[j] = c.base[j]
            /\ j \in y.reported <=> j \in c.reported
  OBVIOUS
<1>4. /\ x.phase # "web"
      /\ x.left = tx[t].left /\ x.phase = tx[t].phase
  OBVIOUS
<1> HIDE DEF c, x
<1>5. TrackedRequestOK(y, RequestOf[i])
  BY <1>2, <1>3 DEF TrackedRequestOK, ReqStatus
<1>6. TrackerOK(y)
  BY <1>1, <1>2, <1>3, <1>4, <1>5, RowChangedOK
<1> QED
  BY <1>2, <1>3, <1>4, <1>6

LEMMA ChangeStep ==
    ASSUME Inductive, NEW t \in Txs, NEW i \in Assignments,
           tx[t].phase = "batch", NEW row \in Row, NEW s \in ReqStatus,
           NEW y \in TxType,
           LET c == Changed(tx[t], i, row, s) IN
           /\ y.phase = c.phase /\ y.known = c.known /\ y.left = c.left
           /\ y.mine = c.mine /\ y.baseReq = c.baseReq /\ y.mineReq = c.mineReq
           /\ \A j \in Assignments \ {i} :
                 /\ y.base[j] = c.base[j]
                 /\ j \in y.reported <=> j \in c.reported,
           TrackedRowOK(y, i),
           s = "cancelled" => CancelledIn(RequestOf[i]),
           Handled(t, y)
    PROVE  Inductive'
<1>1. TrackerOK(y) /\ y.left = tx[t].left /\ y.phase = tx[t].phase
  BY ChangeOK
<1> QED
  BY <1>1, HandledStep

\* A new assignment: take and accept.
LEMMA AddStep ==
    ASSUME Inductive, NEW t \in Txs, NEW i \in Assignments,
           tx[t].phase = "batch", MayAdd(t, i),
           NEW row \in Row, row.status \in Open, NEW s \in Open,
           Handled(t, Added(tx[t], i, row, s))
    PROVE  Inductive'
<1> DEFINE x == tx[t]
           c == Changed(x, i, row, s)
           y == Added(x, i, row, s)
<1>1. TypeOK /\ x \in TxType /\ TrackedRowOK(x, i) /\ TrackerOK(x)
  BY BatchFacts
<1>2. s \in ReqStatus
  BY DEF ReqStatus
<1>3. c \in TxType /\ c.known = x.known /\ c.reported = x.reported
      /\ c.mine[i] = row
  BY <1>1, <1>2, ChangedFields
<1>4. i \notin x.reported /\ i \notin x.known
  <2>1. x.base[i].status = "untracked"
    BY DEF MayAdd, Navigation, Tracked, Of
  <2>2. asg[i].status = "unused"
    BY DEF MayAdd
  <2> QED
    BY <1>1, <2>1, <2>2 DEF TrackedRowOK, TrackerOK, NoRow, Live
<1> HIDE DEF c, x
<1>5. y = [c EXCEPT !.base[i] = NoRow("unused")]
  BY DEF Added, c, x
<1> HIDE DEF y
<1>6. NoRow("unused") \in Row
  BY NoRowType
<1>7. /\ y.phase = c.phase /\ y.known = c.known /\ y.left = c.left
      /\ y.mine = c.mine /\ y.baseReq = c.baseReq /\ y.mineReq = c.mineReq /\ y.reported = c.reported
      /\ y.base = [c.base EXCEPT ![i] = NoRow("unused")]
  BY <1>3, <1>5 DEF TxType
<1>8. y \in TxType
  BY <1>3, <1>5, <1>6 DEF TxType
<1>9. /\ y.base[i] = NoRow("unused")
      /\ \A j \in Assignments \ {i} : y.base[j] = c.base[j]
  BY <1>3, <1>7 DEF TxType
<1>10. TrackedRowOK(y, i)
  BY <1>3, <1>4, <1>7, <1>9 DEF TrackedRowOK
<1>11. LET d == Changed(tx[t], i, row, s) IN
       /\ y.phase = d.phase /\ y.known = d.known /\ y.left = d.left
       /\ y.mine = d.mine /\ y.baseReq = d.baseReq /\ y.mineReq = d.mineReq
       /\ \A j \in Assignments \ {i} :
             /\ y.base[j] = d.base[j]
             /\ j \in y.reported <=> j \in d.reported
  BY <1>7, <1>9 DEF c, x
<1>12. Handled(t, y) /\ s # "cancelled"
  BY DEF y, x
<1> QED
  BY <1>2, <1>8, <1>10, <1>11, <1>12, ChangeStep

\* The commands that move an open assignment.
LEMMA MovesStep ==
    ASSUME Inductive, NEW t \in Txs, NEW i \in Assignments,
           \/ AcceptExisting(t, i)
           \/ Start(t, i)
           \/ Pause(t, i)
           \/ Resume(t, i)
           \/ Handoff(t, i)
    PROVE  Inductive'
<1> DEFINE x == tx[t]
           row == RowSeen(x, i)
<1>1. TypeOK /\ x \in TxType /\ TrackerOK(x)
  BY BatchFacts
<1>2. row.status \in Open /\ MayMove(row) /\ x.phase = "batch"
  BY DEF AcceptExisting, Start, Pause, Resume, Handoff, Found, Live, Handled
<1>3. row \in Row
  BY <1>1, <1>2, OpenSeen
<1>4. \/ \E s \in Open : Handled(t, Changed(x, i, Moved(row, s), s))
      \/ Handled(t, Changed(x, i, Started(row, "inProgress"), "inProgress"))
  BY DEF AcceptExisting, Start, Pause, Resume, Handoff
<1> HIDE DEF x, row
<1>5. ASSUME NEW s \in Open, Handled(t, Changed(x, i, Moved(row, s), s))
      PROVE  Inductive'
  <2> DEFINE new == Moved(row, s)
  <2>1. /\ new \in Row /\ new.status \in Open
        /\ new.lock = row.lock + 1 /\ new.started = row.started
    BY <1>2, <1>3, MovedType
  <2>2. Handled(t, Changed(x, i, new, s))
    BY <1>5
  <2> HIDE DEF new
  <2>3. new.lock > row.lock /\ (row.started => new.started)
    BY <1>3, <2>1 DEF Row
  <2> QED
    BY <1>2, <2>1, <2>2, <2>3, AdvanceStep DEF x, row
<1>6. CASE Handled(t, Changed(x, i, Started(row, "inProgress"), "inProgress"))
  <2> DEFINE new == Started(row, "inProgress")
  <2>1. /\ new \in Row /\ new.status \in Open
        /\ new.lock = row.lock + 1 /\ new.started
    BY <1>2, <1>3, MovedType
  <2>2. Handled(t, Changed(x, i, new, "inProgress"))
    BY <1>6
  <2> HIDE DEF new
  <2>3. new.lock > row.lock /\ (row.started => new.started)
    BY <1>3, <2>1 DEF Row
  <2> QED
    BY <1>2, <2>1, <2>2, <2>3, AdvanceStep DEF x, row
<1> QED
  BY <1>4, <1>5, <1>6

LEMMA NewStep ==
    ASSUME Inductive, NEW t \in Txs, NEW i \in Assignments,
           Take(t, i) \/ AcceptNew(t, i)
    PROVE  Inductive'
<1>1. tx[t].phase = "batch" /\ MayAdd(t, i)
  BY DEF Take, AcceptNew, Handled
<1>2. CASE Take(t, i)
  <2> DEFINE row == [status |-> "inProgress", lock |-> 1, started |-> TRUE]
  <2>1. row \in Row /\ row.status \in Open
    BY ConstantsAssumption DEF Row
  <2>2. Handled(t, Added(tx[t], i, row, "inProgress"))
    BY <1>2 DEF Take
  <2> HIDE DEF row
  <2> QED
    BY <1>1, <2>1, <2>2, AddStep
<1>3. CASE AcceptNew(t, i)
  <2> DEFINE row == [status |-> "accepted", lock |-> 1, started |-> FALSE]
  <2>1. row \in Row /\ row.status \in Open
    BY ConstantsAssumption DEF Row
  <2>2. Handled(t, Added(tx[t], i, row, "accepted"))
    BY <1>3 DEF AcceptNew
  <2> HIDE DEF row
  <2> QED
    BY <1>1, <2>1, <2>2, AddStep
<1> QED
  BY <1>2, <1>3

\* Changed itself meets the premises ChangeStep has about y.
LEMMA PlainChangeStep ==
    ASSUME Inductive, NEW t \in Txs, NEW i \in Assignments,
           tx[t].phase = "batch", NEW row \in Row, NEW s \in Open,
           TrackedRowOK(Changed(tx[t], i, row, s), i),
           Handled(t, Changed(tx[t], i, row, s))
    PROVE  Inductive'
<1>1. TypeOK /\ tx[t] \in TxType /\ s \in ReqStatus /\ s # "cancelled"
  BY BatchFacts DEF ReqStatus
<1>2. Changed(tx[t], i, row, s) \in TxType
  BY <1>1, ChangedFields
<1> QED
  BY <1>1, <1>2, ChangeStep

\* A command of an assignment returned in the same batch.
LEMMA AfterReturnStep ==
    ASSUME Inductive, NEW t \in Txs, NEW i \in Assignments, NEW s \in Open,
           AfterReturn(t, i, s)
    PROVE  Inductive'
<1> DEFINE x == tx[t]
           row == x.mine[i]
           c == Changed(x, i, row, s)
<1>1. TypeOK /\ x \in TxType /\ TrackedRowOK(x, i)
  BY BatchFacts
<1>2. /\ row.status = "removed" /\ x.phase = "batch" /\ x.left > 0
      /\ tx' = [tx EXCEPT ![t] = [c EXCEPT !.left = @ - 1]]
      /\ UNCHANGED <<asg, req, reports>>
      /\ again' = again \cup {RequestOf[i]}
  BY DEF AfterReturn
<1>3. row \in Row /\ x.base[i].status # "untracked"
  BY <1>1, <1>2 DEF TrackedRowOK, TxType, NoRow, Live
<1>4. s \in ReqStatus /\ s # "cancelled"
  BY DEF ReqStatus
<1>5. /\ c \in TxType /\ c.phase = x.phase /\ c.known = x.known
      /\ c.reported = x.reported
      /\ c.base[i] = x.base[i]
      /\ c.mine[i] = x.mine[i]
  <2> HIDE DEF x, row
  <2>1. c.mine[i] = row
    BY <1>1, <1>3, <1>4, ChangedFields
  <2> QED
    BY <1>1, <1>3, <1>4, <2>1, ChangedFields DEF row
<1>6. TrackedRowOK(c, i)
  <2> HIDE DEF x, c
  <2> QED
    BY <1>1, <1>5 DEF TrackedRowOK, Since, Intended
<1>7. TrackerOK(c) /\ c.left = x.left
  BY <1>2, <1>3, <1>4, <1>5, <1>6, ChangeOK
<1> HIDE DEF c
<1> DEFINE y == [c EXCEPT !.left = @ - 1]
<1>8. y \in TxType /\ TrackerOK(y) /\ y.phase = c.phase
  BY <1>2, <1>5, <1>7, CountedOK
<1>9. again' \subseteq Requests
  BY <1>1, <1>2, ConstantsAssumption DEF TypeOK
<1> HIDE DEF y
<1>10. tx' = [tx EXCEPT ![t] = y] /\ y.phase # "free"
  BY <1>2, <1>5, <1>8 DEF y
<1> QED
  BY <1>2, <1>8, <1>9, <1>10, NotedStep

LEMMA ReleaseStep ==
    ASSUME Inductive, NEW t \in Txs, NEW i \in Assignments, Release(t, i)
    PROVE  Inductive'
<1> DEFINE x == tx[t]
           b == IF x.base[i].status = "untracked" THEN asg[i] ELSE x.base[i]
           y == Changed(x, i, NoRow("removed"), "assigned")
<1>1. TypeOK /\ x \in TxType /\ TrackerOK(x)
  BY BatchFacts
<1>2. /\ RowSeen(x, i).status \in Open
      /\ ~RowSeen(x, i).started
      /\ i \in x.known
      /\ x.phase = "batch"
      /\ Handled(t, Changed(tx[t], i, NoRow("removed"), "assigned"))
  BY DEF Release, Found, Handled
<1>3. /\ i \notin x.reported
      /\ Live(b) /\ b.status \in Open /\ Since(b, asg[i])
      /\ b.started => RowSeen(x, i).started
  BY <1>1, <1>2, OpenSeen
<1>4. NoRow("removed") \in Row /\ "assigned" \in ReqStatus
  BY NoRowType DEF ReqStatus
<1>5. /\ y.phase = x.phase /\ y.known = x.known
      /\ y.reported = x.reported
      /\ y.base[i] = b
      /\ y.mine[i] = NoRow("removed")
  BY <1>1, <1>4, ChangedFields
<1>6. TrackedRowOK(y, i)
  <2> HIDE DEF x, y, b
  <2> QED
    BY <1>2, <1>3, <1>5 DEF TrackedRowOK, Intended
<1> QED
  BY <1>2, <1>4, <1>6, PlainChangeStep

\* A tracked row that is completed or cancelled, and not yet reported in this
\* batch, was so when it was read, and is so now.
LEMMA ClosedSeen ==
    ASSUME Inductive, NEW x \in TxType, TrackerOK(x), x.phase = "batch",
           NEW i \in Assignments, Live(asg[i]), i \notin x.reported,
           RowSeen(x, i).status \in Closed
    PROVE  LET b == IF x.base[i].status = "untracked"
                    THEN asg[i] ELSE x.base[i]
           IN  /\ b = RowSeen(x, i)
               /\ b \in Row /\ Live(b) /\ Since(b, asg[i])
               /\ asg[i].status = b.status
<1>1. TrackedRowOK(x, i)
  BY DEF TrackerOK
<1>2. asg[i] \in Row /\ x.base[i] \in Trackable /\ x.mine[i] \in Trackable
  BY DEF Inductive, TypeOK, TxType, Trackable
<1>3. CASE x.base[i].status = "untracked"
  BY <1>2, <1>3 DEF RowSeen, Since
<1>4. CASE x.base[i] = NoRow("unused")
  BY <1>1, <1>4 DEF TrackedRowOK, RowSeen, NoRow, Live
<1>5. CASE Live(x.base[i])
  <2>1. RowSeen(x, i) = x.mine[i] /\ x.base[i].status # "untracked"
    BY <1>5 DEF RowSeen, Live
  <2>2. Since(x.base[i], asg[i]) /\ Intended(x, i) /\ x.base[i] \in Row
    BY <1>1, <1>2, <1>5 DEF TrackedRowOK, NoRow, Live, Trackable
  <2>3. x.mine[i] = x.base[i]
    BY <2>1, <2>2 DEF Intended, NoRow
  <2>4. asg[i].status = x.base[i].status
    BY <2>1, <2>2, <2>3 DEF Since, NoRow, Live
  <2> QED
    BY <1>5, <2>1, <2>2, <2>3, <2>4
<1> QED
  BY <1>1, <1>3, <1>4, <1>5 DEF TrackedRowOK, NoRow

\* The row a report is accepted for is not completed, or a report of it would
\* be there.
LEMMA ReportSeen ==
    ASSUME Inductive, NEW t \in Txs, NEW i \in Assignments,
           tx[t].phase = "batch", MayReport(t, i)
    PROVE  RowSeen(tx[t], i).status \in Open \cup {"cancelled"}
<1>1. TypeOK /\ tx[t] \in TxType /\ TrackerOK(tx[t])
  BY BatchFacts
<1>2. /\ Live(asg[i]) /\ Live(RowSeen(tx[t], i))
      /\ i \notin tx[t].reported /\ reports[i] = 0
  BY DEF MayReport, Found
<1>3. ASSUME RowSeen(tx[t], i).status = "completed" PROVE FALSE
  <2>1. asg[i].status = "completed"
    BY <1>1, <1>2, <1>3, ClosedSeen
  <2> QED
    BY <1>2, <2>1 DEF Inductive, ReportsMatch
<1> QED
  BY <1>2, <1>3 DEF Live

\* The tracker after a report, in agreement if the row of i is.
LEMMA ReportStep ==
    ASSUME Inductive, NEW t \in Txs, NEW i \in Assignments,
           tx[t].phase = "batch", MayReport(t, i), NEW s \in Closed,
           s = "completed" => RowSeen(tx[t], i).status \in Open,
           s = "cancelled" => CancelledIn(RequestOf[i]),
           Handled(t, Reported(tx[t], i, s))
    PROVE  Inductive'
<1> DEFINE x == tx[t]
           seen == RowSeen(x, i)
           row == Started(seen, s)
           b == IF x.base[i].status = "untracked" THEN asg[i] ELSE x.base[i]
           c == Changed(x, i, row, s)
           y == Reported(x, i, s)
<1>1. TypeOK /\ x \in TxType /\ TrackerOK(x) /\ x.phase = "batch"
  BY BatchFacts
<1>2. /\ Live(asg[i]) /\ Live(seen) /\ MayMove(seen) /\ i \in x.known
      /\ i \notin x.reported /\ reports[i] = 0
      /\ seen.status \in Open \cup {"cancelled"}
      /\ s = "completed" => seen.status \in Open
  BY ReportSeen DEF MayReport, Found
<1>3. seen \in Row /\ s \in ReqStatus /\ s \in Persisted
  BY <1>1, <1>2, RowSeenType DEF Trackable, NoRow, Live, ReqStatus
<1>4. /\ row \in Row /\ row.status = s
      /\ row.lock = seen.lock + 1 /\ row.started = TRUE
  <2> HIDE DEF seen
  <2> QED
    BY <1>2, <1>3, MovedType
<1>5. /\ b \in Row /\ Live(b) /\ Since(b, asg[i]) /\ seen.lock >= b.lock
      /\ b.status \in Open \/ (b.status = "cancelled" /\ s = "cancelled")
  <2>1. CASE seen.status \in Open
    <3>1. /\ b = NoRow("unused") /\ i \notin x.known
          \/ /\ b \in Row
             /\ Live(b)
             /\ b.status \in Open
             /\ Since(b, asg[i])
             /\ seen.lock >= b.lock
      BY <1>1, <2>1, OpenSeen
    <3> QED
      BY <1>2, <3>1
  <2>2. CASE seen.status = "cancelled"
    <3>1. b = seen /\ b \in Row /\ Live(b) /\ Since(b, asg[i])
      BY <1>1, <1>2, <2>2, ClosedSeen
    <3>2. s = "cancelled"
      BY <1>2, <2>2
    <3>3. seen.lock >= b.lock
      BY <3>1 DEF Row
    <3> QED
      BY <2>2, <3>1, <3>2, <3>3
  <2> QED
    BY <1>2, <2>1, <2>2
<1>6. c \in TxType /\ c.phase = x.phase /\ c.known = x.known
      /\ c.reported = x.reported /\ c.base[i] = b /\ c.mine[i] = row
  BY <1>1, <1>3, <1>4, ChangedFields
<1>7. y = [c EXCEPT !.reported = @ \cup {i}]
  BY DEF Reported
<1>8. Handled(t, y) /\ (s = "cancelled" => CancelledIn(RequestOf[i]))
  OBVIOUS
<1>9. c = Changed(tx[t], i, row, s) /\ x.phase = tx[t].phase
  OBVIOUS
<1> HIDE DEF x, row, seen, b, c, y
<1>10. /\ y \in TxType
       /\ y.phase = c.phase /\ y.known = c.known /\ y.left = c.left
       /\ y.mine = c.mine /\ y.baseReq = c.baseReq /\ y.mineReq = c.mineReq /\ y.base = c.base
       /\ y.reported = c.reported \cup {i}
  BY <1>6, <1>7 DEF TxType
<1>11. TrackedRowOK(y, i)
  <2>1. row.lock > b.lock
    BY <1>3, <1>4, <1>5 DEF Row
  <2>2. Intended(y, i)
    BY <1>2, <1>4, <1>5, <1>6, <1>8, <1>10, <2>1 DEF Intended, Live
  <2> QED
    BY <1>5, <1>6, <1>10, <2>2 DEF TrackedRowOK
<1>12. LET d == Changed(tx[t], i, row, s) IN
       /\ y.phase = d.phase /\ y.known = d.known /\ y.left = d.left
       /\ y.mine = d.mine /\ y.baseReq = d.baseReq /\ y.mineReq = d.mineReq
       /\ \A j \in Assignments \ {i} :
             /\ y.base[j] = d.base[j]
             /\ j \in y.reported <=> j \in d.reported
  BY <1>9, <1>10
<1> QED
  BY <1>1, <1>3, <1>4, <1>8, <1>9, <1>10, <1>11, <1>12, ChangeStep

LEMMA CompleteStep ==
    ASSUME Inductive, NEW t \in Txs, NEW i \in Assignments, Complete(t, i)
    PROVE  Inductive'
<1>1. tx[t].phase = "batch" /\ MayReport(t, i)
  BY DEF Complete, Handled
<1>2. RowSeen(tx[t], i).status \in Open
  BY <1>1, ReportSeen DEF Complete, CancelledByDispatcher
<1>3. Handled(t, Reported(tx[t], i, "completed"))
  BY DEF Complete
<1> QED
  BY <1>1, <1>2, <1>3, ReportStep

\* Whatever the handler has seen cancelled, an assignment of it is.
LEMMA CompleteLateStep ==
    ASSUME Inductive, NEW t \in Txs, NEW i \in Assignments, CompleteLate(t, i)
    PROVE  Inductive'
<1> DEFINE x == tx[t]
           r == RequestOf[i]
<1>1. x.phase = "batch" /\ MayReport(t, i)
  BY DEF CompleteLate, Handled
<1>2. TypeOK /\ x \in TxType /\ TrackerOK(x) /\ r \in Requests
  BY BatchFacts, ConstantsAssumption
<1>3. CASE RowSeen(x, i).status = "cancelled"
  <2>1. asg[i].status = "cancelled"
    BY <1>1, <1>2, <1>3, ClosedSeen DEF MayReport, Found
  <2> QED
    BY <1>1, <2>1, ReportStep DEF CompleteLate, CancelledIn, Of
<1>4. CASE ReqSeen(x, r) = "cancelled"
  <2>1. CancelledIn(r)
    BY <1>1, <1>2, <1>4
       DEF ReqSeen, TrackerOK, TrackedRequestOK, Inductive, CancelledRequests
  <2> QED
    BY <1>1, <2>1, ReportStep DEF CompleteLate
<1> QED
  BY <1>3, <1>4 DEF CompleteLate, CancelledByDispatcher

-----------------------------------------------------------------------------
(* The dispatcher *)

\* y is the tracker of a web request before SaveChanges.
LEMMA WebChangeStep ==
    ASSUME Inductive, NEW t \in Txs, NEW i \in Assignments,
           NEW row \in Row, NEW s \in ReqStatus, NEW y \in TxType,
           LET c == Changed(FreeTx, i, row, s) IN
           /\ y.known = c.known
           /\ y.mine = c.mine /\ y.baseReq = c.baseReq /\ y.mineReq = c.mineReq
           /\ \A j \in Assignments \ {i} :
                 /\ y.base[j] = c.base[j]
                 /\ j \in y.reported <=> j \in c.reported,
           y.phase = "web",
           TrackedRowOK(y, i),
           s = "cancelled" => row.status = "cancelled",
           tx' = [tx EXCEPT ![t] = y], UNCHANGED <<asg, req, reports, again>>
    PROVE  Inductive'
<1> DEFINE x == FreeTx
           c == Changed(x, i, row, s)
<1>1. TypeOK /\ x \in TxType /\ TrackerOK(x) /\ x.phase # "web"
  BY FreeTxOK DEF Inductive, FreeTx
<1>2. /\ c.known = x.known /\ c.reported = x.reported
      /\ c.mine[i] = row
      /\ \A j \in Assignments \ {i} :
            c.base[j] = x.base[j] /\ c.mine[j] = x.mine[j]
      /\ c.mineReq[RequestOf[i]] = s
      /\ \A r \in Requests \ {RequestOf[i]} :
            c.baseReq[r] = x.baseReq[r] /\ c.mineReq[r] = x.mineReq[r]
  BY <1>1, ChangedFields
<1>3. /\ y.known = c.known
      /\ y.mine = c.mine /\ y.baseReq = c.baseReq /\ y.mineReq = c.mineReq
      /\ \A j \in Assignments \ {i} :
            /\ y.base[j] = c.base[j]
            /\ j \in y.reported <=> j \in c.reported
  OBVIOUS
<1> HIDE DEF c, x
<1>4. TrackedRequestOK(y, RequestOf[i])
  BY <1>2, <1>3 DEF TrackedRequestOK, Of, ReqStatus
<1>5. TrackerOK(y)
  BY <1>1, <1>2, <1>3, <1>4, RowChangedOK
<1> QED
  BY <1>5, TrackerStep

LEMMA WebMoveStep ==
    ASSUME Inductive, NEW t \in Txs, NEW i \in Assignments,
           WebStart(t, i) \/ WebCancel(t, i) \/ WebComplete(t, i)
    PROVE  Inductive'
<1> DEFINE x == FreeTx
           a == asg[i]
<1>1. /\ TypeOK /\ x \in TxType /\ a \in Row
      /\ x.base[i].status = "untracked" /\ x.reported = {}
  BY FreeTxOK DEF Inductive, TypeOK, FreeTx, NoRow
<1>2. a.status \in Open /\ MayMove(a)
  BY DEF WebStart, WebCancel, WebComplete
<1>3. reports[i] = 0
  BY <1>2 DEF Inductive, ReportsMatch
<1>4. UNCHANGED <<asg, req, reports, again>>
  BY DEF WebStart, WebCancel, WebComplete, Web
\* The three handlers differ in the new row n and the report.
<1>5. ASSUME NEW n \in Row, NEW s \in ReqStatus, NEW y,
             n.lock = a.lock + 1, n.status \in Open \cup Closed,
             a.started => n.started,
             s = "cancelled" => n.status = "cancelled",
             \/ /\ n.status \in Open \cup {"cancelled"}
                /\ y = [Changed(x, i, n, s) EXCEPT !.phase = "web"]
             \/ /\ n.status = "completed" /\ n.started
                /\ y = [Changed(x, i, n, s)
                          EXCEPT !.reported = {i}, !.phase = "web"],
             tx' = [tx EXCEPT ![t] = y]
      PROVE  Inductive'
  <2> DEFINE c == Changed(x, i, n, s)
  <2>1. /\ c \in TxType /\ c.known = x.known /\ c.reported = {}
        /\ c.base[i] = a /\ c.mine[i] = n
    BY <1>1, <1>5, ChangedFields
  <2>2. \/ y = [c EXCEPT !.phase = "web"] /\ n.status \in Open \cup {"cancelled"}
        \/ /\ y = [c EXCEPT !.reported = {i}, !.phase = "web"]
           /\ n.status = "completed" /\ n.started
    BY <1>5
  <2> HIDE DEF c, x, a
  <2>3. /\ y \in TxType /\ y.phase = "web" /\ y.known = c.known
        /\ y.base = c.base /\ y.mine = c.mine /\ y.baseReq = c.baseReq /\ y.mineReq = c.mineReq
        /\ \/ y.reported = {} /\ n.status \in Open \cup {"cancelled"}
           \/ y.reported = {i} /\ n.status = "completed" /\ n.started
    <3>1. CASE /\ y = [c EXCEPT !.phase = "web"]
               /\ n.status \in Open \cup {"cancelled"}
      <4>1. y \in TxType
        BY <2>1, <3>1 DEF TxType
      <4> QED
        BY <2>1, <3>1, <4>1 DEF TxType
    <3>2. CASE /\ y = [c EXCEPT !.reported = {i}, !.phase = "web"]
               /\ n.status = "completed" /\ n.started
      <4>1. y \in TxType
        BY <2>1, <3>2 DEF TxType
      <4> QED
        BY <2>1, <3>2, <4>1 DEF TxType
    <3> QED
      BY <2>2, <3>1, <3>2
  <2>4. TrackedRowOK(y, i)
    <3>1. n.lock > a.lock
      BY <1>1, <1>5 DEF Row
    <3>2. Since(a, asg[i])
      BY DEF Since, a
    <3>3. Intended(y, i)
      BY <1>2, <1>3, <1>5, <2>1, <2>3, <3>1 DEF Intended, Live
    <3> QED
      BY <1>2, <2>1, <2>3, <3>2, <3>3 DEF TrackedRowOK, Live
  <2>5. LET d == Changed(FreeTx, i, n, s) IN
        /\ y.known = d.known
        /\ y.mine = d.mine /\ y.baseReq = d.baseReq /\ y.mineReq = d.mineReq
        /\ \A j \in Assignments \ {i} :
              /\ y.base[j] = d.base[j]
              /\ j \in y.reported <=> j \in d.reported
    BY <2>1, <2>3 DEF c, x
  <2> QED
    BY <1>4, <1>5, <2>3, <2>4, <2>5, WebChangeStep
<1>6. \A s \in Persisted :
         /\ Moved(a, s) \in Row /\ Moved(a, s).status = s
         /\ Moved(a, s).lock = a.lock + 1 /\ Moved(a, s).started = a.started
         /\ Started(a, s) \in Row /\ Started(a, s).status = s
         /\ Started(a, s).lock = a.lock + 1 /\ Started(a, s).started = TRUE
  BY <1>1, <1>2, MovedType
<1>7. {"inProgress", "cancelled", "completed"} \subseteq ReqStatus
  BY DEF ReqStatus
<1>8. CASE WebStart(t, i)
  <2> DEFINE n == Started(a, "inProgress")
             y == [Changed(x, i, n, "inProgress")
                     EXCEPT !.phase = "web"]
  <2>1. tx' = [tx EXCEPT ![t] = y]
    BY <1>8 DEF WebStart, Web
  <2>2. /\ n \in Row /\ n.status = "inProgress"
        /\ n.lock = a.lock + 1 /\ n.started
    BY <1>6
  <2> HIDE DEF n, x, a
  <2> QED
    BY <1>5, <1>7, <2>1, <2>2
<1>9. CASE WebCancel(t, i)
  <2> DEFINE n == Moved(a, "cancelled")
             y == [Changed(x, i, n, "cancelled")
                     EXCEPT !.phase = "web"]
  <2>1. tx' = [tx EXCEPT ![t] = y]
    BY <1>9 DEF WebCancel, Web
  <2>2. /\ n \in Row /\ n.status = "cancelled"
        /\ n.lock = a.lock + 1 /\ n.started = a.started
    BY <1>6
  <2> HIDE DEF n, x, a
  <2> QED
    BY <1>5, <1>7, <2>1, <2>2
<1>10. CASE WebComplete(t, i)
  <2> DEFINE n == Started(a, "completed")
             y == [Changed(x, i, n, "completed")
                     EXCEPT !.reported = {i}, !.phase = "web"]
  <2>1. tx' = [tx EXCEPT ![t] = y]
    BY <1>3, <1>10 DEF WebComplete, Web
  <2>2. /\ n \in Row /\ n.status = "completed"
        /\ n.lock = a.lock + 1 /\ n.started
    BY <1>6
  <2> HIDE DEF n, x, a
  <2> QED
    BY <1>5, <1>7, <2>1, <2>2
<1> QED
  BY <1>8, <1>9, <1>10

LEMMA WebAddStep ==
    ASSUME Inductive, NEW t \in Txs, NEW i \in Assignments, NEW s \in NotBegun,
           CreateRequest(t, i, s) \/ Assign(t, i, s)
    PROVE  Inductive'
<1> DEFINE row == [status |-> s, lock |-> 0, started |-> FALSE]
           x == FreeTx
           c == Changed(x, i, row, "assigned")
           y == [[c EXCEPT !.base[i] = NoRow("unused")] EXCEPT !.phase = "web"]
<1>1. TypeOK /\ x \in TxType /\ x.known = {} /\ x.reported = {}
  BY FreeTxOK DEF Inductive, FreeTx
<1>2. row \in Row /\ "assigned" \in ReqStatus /\ row.status \in Open
  BY ConstantsAssumption DEF Row, ReqStatus
<1>3. tx' = [tx EXCEPT ![t] = y] /\ UNCHANGED <<asg, req, reports, again>>
  BY DEF CreateRequest, Assign, Web, Added
<1> HIDE DEF row, x
<1>4. c \in TxType /\ c.known = {} /\ c.reported = {} /\ c.mine[i] = row
  BY <1>1, <1>2, ChangedFields
<1>5. NoRow("unused") \in Row
  BY NoRowType
<1>6. c = Changed(FreeTx, i, row, "assigned")
  BY DEF x
<1> HIDE DEF c
<1>7. /\ y.phase = "web" /\ y.known = c.known /\ y.reported = c.reported
      /\ y.mine = c.mine /\ y.baseReq = c.baseReq /\ y.mineReq = c.mineReq
      /\ y.base = [c.base EXCEPT ![i] = NoRow("unused")]
  BY <1>4 DEF TxType
<1>8. y \in TxType
  BY <1>4, <1>5 DEF TxType
<1> HIDE DEF y
<1>9. /\ y.base[i] = NoRow("unused")
      /\ \A j \in Assignments \ {i} : y.base[j] = c.base[j]
  BY <1>4, <1>7 DEF TxType
<1>10. TrackedRowOK(y, i)
  BY <1>2, <1>4, <1>7, <1>9 DEF TrackedRowOK
<1>11. LET d == Changed(FreeTx, i, row, "assigned") IN
       /\ y.known = d.known
       /\ y.mine = d.mine /\ y.baseReq = d.baseReq /\ y.mineReq = d.mineReq
       /\ \A j \in Assignments \ {i} :
             /\ y.base[j] = d.base[j]
             /\ j \in y.reported <=> j \in d.reported
  BY <1>6, <1>7, <1>9
<1> QED
  BY <1>2, <1>3, <1>7, <1>8, <1>10, <1>11, WebChangeStep

-----------------------------------------------------------------------------
(* SaveChanges *)

\* What a commit of x does to a row: nothing, insert it, delete it, or move it
\* from the values that x has read.
RowSaved(x, i) ==
    LET old == asg[i]
        new == asg'[i]
    IN  \/ new = old /\ i \notin x.reported
        \/ /\ old.status = "unused" /\ new.status \in Open
           /\ i \notin x.reported
           /\ \A j \in Of(RequestOf[i]) \ {i} : ~Live(asg'[j])
        \/ /\ old.status \in Open /\ new = NoRow("removed")
           /\ ~old.started
           /\ i \notin x.reported
        \/ /\ Live(old) /\ Live(new)
           /\ new.lock > old.lock
           /\ old.started => new.started
           /\ IF i \in x.reported
              THEN /\ new.started
                   /\ reports[i] = 0
                   /\ \/ old.status \in Open /\ new.status = "completed"
                      \/ old.status = "cancelled" /\ new.status = "cancelled"
              ELSE /\ old.status \in Open
                   /\ new.status \in Open \cup {"cancelled"}

LEMMA SavedRows ==
    ASSUME Inductive, NEW t \in Txs, Save(t), NEW i \in Assignments
    PROVE  /\ RowSaved(tx[t], i)
           /\ asg'[i] \in Row
           /\ reports'[i] = IF i \in tx[t].reported
                            THEN reports[i] + 1 ELSE reports[i]
<1> DEFINE x == tx[t]
<1>1. /\ TypeOK /\ x \in TxType /\ TrackedRowOK(x, i)
      /\ ~KeyTaken(x) /\ ~MovedOn(x)
      /\ asg' = Written(x)
  BY BatchFacts DEF Save
<1>2. asg'[i] = IF x.mine[i] # x.base[i] THEN x.mine[i] ELSE asg[i]
  BY <1>1 DEF Written, Dirty
<1>3. reports'[i] = IF i \in x.reported THEN reports[i] + 1 ELSE reports[i]
  BY DEF Save
<1>4. asg[i] \in Row /\ x.base[i] \in Trackable /\ x.mine[i] \in Trackable
  BY <1>1 DEF TypeOK, TxType, Trackable
<1>5. i \in Dirty(x) <=> x.mine[i] # x.base[i]
  BY DEF Dirty
<1> HIDE DEF x
<1>6. CASE x.mine[i] = x.base[i]
  <2>1. i \notin x.reported
    BY <1>1, <1>4, <1>6 DEF TrackedRowOK, Intended, Trackable, Row, NoRow, Live
  <2>2. asg'[i] = asg[i]
    BY <1>2, <1>6
  <2> QED
    BY <1>3, <1>4, <2>1, <2>2 DEF RowSaved, x
<1>7. CASE x.mine[i] # x.base[i] /\ x.base[i] = NoRow("unused")
  <2>1. x.base[i].status = "unused"
    BY <1>7 DEF NoRow
  <2>2. i \in Dirty(x) /\ asg'[i] = x.mine[i]
    BY <1>2, <1>5, <1>7
  <2>3. /\ asg[i].status = "unused"
        /\ \A j \in Of(RequestOf[i]) \ {i} : ~Live(asg'[j])
    BY <1>1, <2>1, <2>2 DEF KeyTaken
  <2>4. x.mine[i].status \in Open /\ i \notin x.reported
    BY <1>1, <1>7 DEF TrackedRowOK, NoRow, Live
  <2>5. asg'[i] \in Row
    BY <1>4, <2>2, <2>4 DEF Trackable, NoRow
  <2> QED
    BY <1>3, <2>2, <2>3, <2>4, <2>5 DEF RowSaved, x
<1>8. CASE x.mine[i] # x.base[i] /\ Live(x.base[i])
  <2>1. i \in Dirty(x) /\ asg'[i] = x.mine[i]
    BY <1>2, <1>5, <1>8
  <2>2. Live(asg[i]) /\ asg[i].lock = x.base[i].lock
    BY <1>1, <1>8, <2>1 DEF MovedOn
  <2>3. Since(x.base[i], asg[i]) /\ Intended(x, i)
    BY <1>1, <1>8 DEF TrackedRowOK, NoRow, Live
  <2>4. x.base[i] \in Row
    BY <1>4, <1>8 DEF Trackable, NoRow, Live
  <2>5. asg[i] = x.base[i]
    BY <1>4, <2>2, <2>3, <2>4 DEF Since, NoRow, Live, Row
  <2>6. asg'[i] \in Row
    BY <1>4, <1>8, <2>1, <2>3 DEF Intended, Trackable, NoRow, Live
  <2>7. CancelledIn(RequestOf[i]) => asg[i].status = "cancelled"
    BY <2>2 DEF CancelledIn, Of, Live, Inductive, OneAssignmentPerRequest
  <2>8. RowSaved(x, i)
    BY <1>8, <2>1, <2>2, <2>3, <2>5, <2>7 DEF Intended, RowSaved
  <2> QED
    BY <1>3, <2>6, <2>8 DEF x
<1>9. x.base[i] = NoRow("untracked") => x.mine[i] = x.base[i]
  BY <1>1 DEF TrackedRowOK, NoRow, Live
<1> QED
  BY <1>1, <1>6, <1>7, <1>8, <1>9 DEF TrackedRowOK

\* A cancelled assignment stays cancelled.
LEMMA CancelledStays ==
    ASSUME Inductive, NEW t \in Txs, Save(t), NEW r \in Requests, CancelledIn(r)
    PROVE  CancelledIn(r)'
<1> PICK i \in Of(r) : asg[i].status = "cancelled"
  BY DEF CancelledIn
<1>1. i \in Assignments
  BY DEF Of
<1>2. RowSaved(tx[t], i)
  BY <1>1, SavedRows
<1>3. asg'[i].status = "cancelled"
  BY <1>2 DEF RowSaved
<1> QED
  BY <1>3 DEF CancelledIn, Of

LEMMA SaveKeepsTables ==
    ASSUME Inductive, NEW t \in Txs, Save(t)
    PROVE  (TypeOK /\ RowsOK /\ OneAssignmentPerRequest /\ ReportsMatch
              /\ CancelledRequests)'
<1> DEFINE x == tx[t]
<1>1. TypeOK /\ x \in TxType /\ TrackerOK(x)
  BY BatchFacts
<1>2. \A i \in Assignments :
         /\ RowSaved(x, i)
         /\ asg'[i] \in Row
         /\ reports'[i] = IF i \in x.reported
                          THEN reports[i] + 1 ELSE reports[i]
  BY SavedRows
<1>3. TypeOK'
  <2>1. asg' \in [Assignments -> Row]
    BY <1>2 DEF Save, Written
  <2>2. req' \in [Requests -> ReqStatus]
    <3>1. ASSUME NEW r \in Requests, x.mineReq[r] # x.baseReq[r]
          PROVE  x.mineReq[r] # "untracked"
      BY <1>1, <3>1 DEF TrackerOK, TrackedRequestOK
    <3> QED
      BY <1>1, <3>1 DEF Save, TypeOK, TxType
  <2>3. reports' \in [Assignments -> Nat]
    BY <1>1, <1>2 DEF Save, TypeOK
  <2>4. tx' \in [Txs -> TxType]
    BY <1>1, FreeTxOK DEF Save, TypeOK
  <2>5. again' \subseteq Requests
    BY <1>1 DEF Save, TypeOK
  <2> QED
    BY <2>1, <2>2, <2>3, <2>4, <2>5 DEF TypeOK
<1> HIDE DEF x
<1>4. RowsOK'
  <2>1. ASSUME NEW i \in Assignments
        PROVE  Live(asg'[i])
                 \/ asg'[i] \in {NoRow("unused"), NoRow("removed")}
    BY <1>2 DEF Inductive, RowsOK, RowSaved, Live
  <2> QED
    BY <2>1 DEF RowsOK, Live
<1>5. OneAssignmentPerRequest'
  <2>1. ASSUME NEW i \in Assignments, NEW j \in Assignments, i # j,
               RequestOf[i] = RequestOf[j], Live(asg'[i]), Live(asg'[j])
        PROVE  FALSE
    <3>1. i \in Of(RequestOf[j]) /\ j \in Of(RequestOf[i])
      BY <2>1 DEF Of
    <3>2. Live(asg[i])
      BY <1>2, <2>1, <3>1 DEF RowSaved, NoRow, Live
    <3>3. Live(asg[j])
      BY <1>2, <2>1, <3>1 DEF RowSaved, NoRow, Live
    <3> QED
      BY <2>1, <3>2, <3>3 DEF Inductive, OneAssignmentPerRequest
  <2> QED
    BY <2>1 DEF OneAssignmentPerRequest, Live
<1>6. ReportsMatch'
  <2>1. ASSUME NEW i \in Assignments
        PROVE  /\ asg'[i].status = "completed" => reports'[i] = 1
               /\ asg'[i].status = "cancelled" => reports'[i] \in {0, 1}
               /\ asg'[i].status \notin Closed => reports'[i] = 0
    <3>1. /\ asg[i].status = "completed" => reports[i] = 1
          /\ asg[i].status = "cancelled" => reports[i] \in {0, 1}
          /\ asg[i].status \notin Closed => reports[i] = 0
      BY DEF Inductive, ReportsMatch
    <3> QED
      BY <1>2, <3>1 DEF RowSaved, NoRow, Live
  <2> QED
    BY <2>1 DEF ReportsMatch
<1>7. CancelledRequests'
  <2>1. ASSUME NEW r \in Requests, req'[r] = "cancelled"
        PROVE  CancelledIn(r)'
    <3>1. CASE CancelledIn(r)
      BY <3>1, CancelledStays
    <3>2. CASE ~CancelledIn(r)
      <4>1. req[r] # "cancelled"
        BY <3>2 DEF Inductive, CancelledRequests
      <4>2. x.mineReq[r] = "cancelled"
        BY <2>1, <4>1 DEF Save, x
      <4>3. PICK i \in Of(r) : x.mine[i].status = "cancelled"
        BY <1>1, <3>2, <4>2 DEF TrackerOK, TrackedRequestOK
      <4>4. i \in Assignments
        BY DEF Of
      <4>5. asg'[i].status = "cancelled"
        <5>1. asg'[i] = IF x.mine[i] # x.base[i] THEN x.mine[i] ELSE asg[i]
          BY <4>4 DEF Save, Written, Dirty, x
        <5>2. CASE x.mine[i] = x.base[i]
          <6>1. Since(x.base[i], asg[i])
            BY <1>1, <4>3, <4>4, <5>2
               DEF TrackerOK, TrackedRowOK, NoRow, Live
          <6>2. asg[i].status = "cancelled"
            BY <4>3, <5>2, <6>1 DEF Since
          <6> QED
            BY <5>1, <5>2, <6>2
        <5> QED
          BY <4>3, <5>1, <5>2
      <4> QED
        BY <4>5 DEF CancelledIn, Of
    <3> QED
      BY <3>1, <3>2
  <2> QED
    BY <2>1 DEF CancelledRequests
<1> QED
  BY <1>3, <1>4, <1>5, <1>6, <1>7

\* The commit of another transaction shows in what this one has read.
LEMMA SaveKeepsOthers ==
    ASSUME Inductive, NEW t \in Txs, Save(t),
           NEW y \in TxType, TrackerOK(y)
    PROVE  /\ \A i \in Assignments : TrackedRowOK(y, i)'
           /\ \A i \in y.known : asg'[i].status # "unused"
           /\ \A r \in Requests : TrackedRequestOK(y, r)'
<1>1. ASSUME NEW i \in Assignments PROVE TrackedRowOK(y, i)'
  <2> DEFINE b == y.base[i]
             a == asg[i]
             n == asg'[i]
  <2>1. TrackedRowOK(y, i)
    BY DEF TrackerOK
  <2>2. /\ RowSaved(tx[t], i) /\ a \in Row /\ n \in Row
        /\ reports'[i] = IF i \in tx[t].reported
                         THEN reports[i] + 1 ELSE reports[i]
    BY SavedRows DEF Inductive, TypeOK
  <2>3. CASE ~Live(b)
    BY <2>1, <2>3 DEF TrackedRowOK
  <2>4. CASE Live(b)
    <3>1. Since(b, a) /\ Intended(y, i) /\ b \in Row
      BY <2>1, <2>4 DEF TrackedRowOK, NoRow, Live, TxType
    <3>2. \/ n = a /\ i \notin tx[t].reported
          \/ n # b /\ Since(b, n)
      <4>1. CASE n = a /\ i \notin tx[t].reported
        BY <4>1
      <4>2. CASE a.status = "unused"
        BY <2>4, <3>1, <4>2 DEF Since, NoRow, Live
      <4>3. CASE a.status \in Open /\ n = NoRow("removed")
        BY <2>4, <3>1, <4>3 DEF Since, NoRow, Live
      <4>4. CASE Live(a) /\ Live(n) /\ n.lock > a.lock
        <5>1. n.lock > b.lock
          BY <2>2, <3>1, <4>4 DEF Since, NoRow, Live, Row
        <5>2. ASSUME b.status \in Closed PROVE n.status = b.status
          <6>1. a.status = b.status
            BY <3>1, <4>4, <5>2 DEF Since
          <6>2. a.status = "completed" => reports[i] = 1
            BY DEF Inductive, ReportsMatch
          <6>3. n = a \/ (i \in tx[t].reported /\ reports[i] = 0
                            /\ n.status = "cancelled")
            BY <2>2, <4>4, <5>2, <6>1 DEF RowSaved
          <6> QED
            BY <5>2, <6>1, <6>2, <6>3
        <5>3. n # b
          BY <3>1, <5>1 DEF Row
        <5> QED
          BY <4>4, <5>1, <5>2, <5>3 DEF Since
      <4> QED
        BY <2>2, <4>1, <4>2, <4>3, <4>4 DEF RowSaved
    <3>3. Since(b, n)
      BY <3>1, <3>2
    <3>4. n = b => a = b /\ reports'[i] = reports[i]
      BY <2>2, <3>2
    <3>5. CancelledIn(RequestOf[i]) => CancelledIn(RequestOf[i])'
      BY CancelledStays, ConstantsAssumption
    <3> HIDE DEF n, a
    <3>6. Intended(y, i)'
      BY <3>1, <3>4, <3>5 DEF Intended, n, a
    <3>7. Since(y.base[i], asg[i])'
      BY <3>3 DEF Since, Live, n
    <3> QED
      BY <2>4, <3>6, <3>7 DEF TrackedRowOK, Live
  <2> QED
    BY <2>3, <2>4
<1>2. ASSUME NEW i \in y.known PROVE asg'[i].status # "unused"
  <2>1. i \in Assignments /\ asg[i].status # "unused"
    BY DEF TrackerOK, TxType
  <2> QED
    BY <2>1, SavedRows DEF RowSaved, NoRow, Live
<1>3. ASSUME NEW r \in Requests PROVE TrackedRequestOK(y, r)'
  <2>1. TrackedRequestOK(y, r)
    BY DEF TrackerOK
  <2>2. CancelledIn(r) => CancelledIn(r)'
    BY CancelledStays
  <2> QED
    BY <2>1, <2>2 DEF TrackedRequestOK, Of
<1> QED
  BY <1>1, <1>2, <1>3

LEMMA SaveStep ==
    ASSUME Inductive, NEW t \in Txs, Save(t)
    PROVE  Inductive'
<1>1. (TypeOK /\ RowsOK /\ OneAssignmentPerRequest /\ ReportsMatch
         /\ CancelledRequests)'
  BY SaveKeepsTables
<1>2. ASSUME NEW y \in TxType, TrackerOK(y)
      PROVE  /\ \A i \in Assignments : TrackedRowOK(y, i)'
             /\ \A i \in y.known : asg'[i].status # "unused"
             /\ \A r \in Requests : TrackedRequestOK(y, r)'
  BY <1>2, SaveKeepsOthers
<1>3. FreeSlots'
  BY DEF Save, Inductive, TypeOK, FreeSlots
<1>4. ASSUME NEW u \in Txs PROVE TrackerOK(tx[u])'
  <2> PICK y \in TxType : y = tx'[u] /\ TrackerOK(y)
    BY FreeTxOK DEF Save, Inductive, TypeOK
  <2>1. /\ \A i \in Assignments : TrackedRowOK(y, i)'
        /\ \A i \in y.known : asg'[i].status # "unused"
        /\ \A r \in Requests : TrackedRequestOK(y, r)'
    BY <1>2
  <2>2. ASSUME NEW i \in Assignments PROVE TrackedRowOK(tx[u], i)'
    BY <2>1 DEF TrackedRowOK, Since, Intended, CancelledIn, Live
  <2>3. ASSUME NEW r \in Requests PROVE TrackedRequestOK(tx[u], r)'
    BY <2>1 DEF TrackedRequestOK, CancelledIn
  <2> QED
    BY <2>1, <2>2, <2>3 DEF TrackerOK
<1> QED
  BY <1>1, <1>3, <1>4 DEF Inductive

LEMMA AbortStep ==
    ASSUME Inductive, NEW t \in Txs, Abort(t) PROVE Inductive'
BY FreeTxOK, TrackerStep DEF Abort

LEMMA OpenBatchStep ==
    ASSUME Inductive, NEW t \in Txs, NEW a \in Accounts, OpenBatch(t, a)
    PROVE  Inductive'
<1> DEFINE K == {i \in Assignments : Live(asg[i])}
           y == [FreeTx EXCEPT !.phase = "batch", !.bound = Bound[a],
                               !.known = K, !.left = BatchLimit]
<1>1. tx[t] = FreeTx
  BY DEF OpenBatch, Inductive, FreeSlots
<1>2. tx' = [tx EXCEPT ![t] = y] /\ UNCHANGED <<asg, req, reports, again>>
  BY <1>1 DEF OpenBatch, Inductive, TypeOK
<1>3. Bound[a] \in SUBSET Employees /\ BatchLimit \in 0 .. BatchLimit
  BY ConstantsAssumption
<1>4. K \in SUBSET Assignments /\ \A i \in K : asg[i].status # "unused"
  BY DEF Live
<1> HIDE DEF K
<1>5. y \in TxType
  BY <1>3, <1>4, FreeTxOK DEF TxType
<1>6. TrackerOK(y)
  <2>1. ASSUME NEW i \in Assignments PROVE TrackedRowOK(y, i)
    BY DEF FreeTx, TrackedRowOK
  <2>2. ASSUME NEW r \in Requests PROVE TrackedRequestOK(y, r)
    BY DEF FreeTx, TrackedRequestOK
  <2>3. y.known = K
    BY DEF FreeTx
  <2> QED
    BY <1>4, <2>1, <2>2, <2>3 DEF TrackerOK
<1>7. y.phase = "batch"
  BY DEF FreeTx
<1> QED
  BY <1>2, <1>5, <1>6, <1>7, TrackerStep

-----------------------------------------------------------------------------
(* The theorems *)

LEMMA InitInductive == Init => Inductive
<1> SUFFICES ASSUME Init PROVE Inductive
  OBVIOUS
<1>1. TypeOK
  BY NoRowType, FreeTxOK DEF Init, TypeOK, ReqStatus
<1>2. /\ RowsOK /\ OneAssignmentPerRequest /\ ReportsMatch
      /\ CancelledRequests /\ FreeSlots
  BY DEF Init, RowsOK, OneAssignmentPerRequest, ReportsMatch,
         CancelledRequests, FreeSlots, NoRow, Live
<1>3. \A t \in Txs : TrackerOK(tx[t])
  BY FreeTxOK DEF Init
<1> QED
  BY <1>1, <1>2, <1>3 DEF Inductive

LEMMA NextInductive == Inductive /\ [Next]_vars => Inductive'
<1> SUFFICES ASSUME Inductive, [Next]_vars PROVE Inductive'
  OBVIOUS
<1>1. ASSUME NEW t \in Txs, Phone(t) PROVE Inductive'
  BY <1>1, OpenBatchStep, LookAtRequestStep, LookAtStep, NewStep, MovesStep,
     AfterReturnStep, ReleaseStep, CompleteStep, CompleteLateStep DEF Phone
<1>2. ASSUME NEW t \in Txs, Dispatcher(t) PROVE Inductive'
  BY <1>2, WebAddStep, WebMoveStep DEF Dispatcher
<1>3. ASSUME NEW t \in Txs, Save(t) PROVE Inductive'
  BY <1>3, SaveStep
<1>4. ASSUME NEW t \in Txs, Abort(t) PROVE Inductive'
  BY <1>4, AbortStep
<1>5. CASE UNCHANGED vars
  BY <1>5 DEF vars, Inductive, TypeOK, RowsOK, OneAssignmentPerRequest,
     ReportsMatch, CancelledRequests, FreeSlots, TrackerOK, TrackedRowOK,
     TrackedRequestOK, Since, Intended, CancelledIn, Live
<1> QED
  BY <1>1, <1>2, <1>3, <1>4, <1>5 DEF Next

\* In every state the tables are consistent (one assignment for a request, a
\* report for a completed assignment and none for an open one), and every
\* change tracker of SaveOutbox or EfPatrolStore agrees with the tables up to
\* changes that its commit would notice.
THEOREM InductiveCorrect == Spec => []Inductive
<1> QED
  BY InitInductive, NextInductive, PTL DEF Spec

\* Rows and requests have their types, and lock versions stay in range.
THEOREM TypeCorrect == Spec => []TypeOK
<1>1. Inductive => TypeOK
  BY DEF Inductive
<1> QED
  BY <1>1, InductiveCorrect, PTL

\* A request never has two assignments: two phones taking it, or a phone and
\* a dispatcher, end with one.
THEOREM OneAssignment == Spec => []OneAssignmentPerRequest
<1>1. Inductive => OneAssignmentPerRequest
  BY DEF Inductive
<1> QED
  BY <1>1, InductiveCorrect, PTL

\* Only a commit touches the tables.
LEMMA OnlySave ==
    ASSUME [Next]_vars
    PROVE  UNCHANGED <<asg, req, reports>> \/ \E t \in Txs : Save(t)
<1>1. ASSUME NEW t \in Txs, Phone(t) PROVE UNCHANGED <<asg, req, reports>>
  BY <1>1 DEF Phone, OpenBatch, LookAt, LookAtRequest, Take, AcceptNew,
     AcceptExisting, AfterReturn, Release, Start, Pause, Resume, Handoff,
     Complete, CompleteLate, Handled
<1>2. ASSUME NEW t \in Txs, Dispatcher(t)
      PROVE  UNCHANGED <<asg, req, reports>>
  BY <1>2 DEF Dispatcher, CreateRequest, Assign, WebStart, WebCancel,
     WebComplete, Web
<1>3. ASSUME NEW t \in Txs, Abort(t) PROVE UNCHANGED <<asg, req, reports>>
  BY <1>3 DEF Abort
<1> QED
  BY <1>1, <1>2, <1>3 DEF Next, vars

\* Every committed change of an assignment raises its lock_version.
THEOREM ChangesMoveLock == Spec => EveryChangeMovesLock
<1>1. Inductive /\ [Next]_vars =>
         [\A i \in Assignments :
             Live(asg[i]) /\ Live(asg'[i]) /\ asg'[i] # asg[i]
                => asg'[i].lock > asg[i].lock]_vars
  <2> SUFFICES ASSUME Inductive, [Next]_vars,
                      NEW i \in Assignments,
                      Live(asg[i]), Live(asg'[i]), asg'[i] # asg[i]
               PROVE  asg'[i].lock > asg[i].lock
    OBVIOUS
  <2>1. PICK t \in Txs : Save(t)
    BY OnlySave
  <2>2. RowSaved(tx[t], i)
    BY <2>1, SavedRows
  <2> QED
    BY <2>2 DEF RowSaved, NoRow, Live
<1> QED
  BY <1>1, InductiveCorrect, PTL DEF Spec, EveryChangeMovesLock

-----------------------------------------------------------------------------
(* The refinement of PatrolLedger *)

Page == [i \in Assignments |-> Entry(asg[i], reports[i])]

\* The entries of rows that do not contradict each other.
LEMMA Entries ==
    ASSUME NEW row, NEW n
    PROVE  /\ row = NoRow("unused") /\ n = 0 => Entry(row, n) = "none"
           /\ row = NoRow("removed") /\ n = 0 => Entry(row, n) = "returned"
           /\ row.status \in Open /\ n = 0 /\ ~row.started
                 => Entry(row, n) = "taken"
           /\ row.status \in Open /\ n = 0 /\ row.started
                 => Entry(row, n) = "underway"
           /\ row.status = "completed" /\ n = 1 => Entry(row, n) = "done"
           /\ row.status = "cancelled" /\ n = 0
                 => Entry(row, n) = "cancelled"
           /\ row.status = "cancelled" /\ n = 1 => Entry(row, n) = "late"
<1>1. CASE row.status \in Open
  BY <1>1 DEF Entry, NoRow
<1>2. CASE row.status \in Closed
  BY <1>2 DEF Entry, NoRow
<1>3. CASE row.status = "unused"
  BY <1>3 DEF Entry, NoRow
<1>4. CASE row.status = "removed"
  BY <1>4 DEF Entry, NoRow
<1> QED
  BY <1>1, <1>2, <1>3, <1>4 DEF NoRow

\* Every row has an entry; the entry tells whether it is in the table.
LEMMA PageOK ==
    ASSUME Inductive, NEW i \in Assignments
    PROVE  /\ Page[i] \in Ledger!Entries
           /\ Page[i] \notin {"none", "returned"} => Live(asg[i])
<1>1. /\ Live(asg[i]) \/ asg[i] \in {NoRow("unused"), NoRow("removed")}
      /\ asg[i].status = "completed" => reports[i] = 1
      /\ asg[i].status = "cancelled" => reports[i] \in {0, 1}
      /\ asg[i].status \notin Closed => reports[i] = 0
  BY DEF Inductive, RowsOK, ReportsMatch
<1>2. Page[i] = Entry(asg[i], reports[i])
  BY DEF Page
<1>3. asg[i] \in {NoRow("unused"), NoRow("removed")} =>
         Page[i] \in {"none", "returned"}
  BY <1>1, <1>2, Entries DEF NoRow
<1>4. Live(asg[i]) =>
         Page[i] \in {"taken", "underway", "done", "cancelled", "late"}
  BY <1>1, <1>2, Entries DEF Live
<1> QED
  BY <1>1, <1>3, <1>4 DEF Ledger!Entries

\* A commit enters lines that the book allows.
LEMMA SaveIsEdge ==
    ASSUME Inductive, NEW t \in Txs, Save(t), NEW i \in Assignments,
           Page'[i] # Page[i]
    PROVE  <<Page[i], Page'[i]>> \in Ledger!Edges
<1> DEFINE a == asg[i]
           n == asg'[i]
           k == reports[i]
           l == reports'[i]
<1>1. /\ RowSaved(tx[t], i)
      /\ l = IF i \in tx[t].reported THEN k + 1 ELSE k
  BY SavedRows
<1>2. /\ Live(a) \/ a \in {NoRow("unused"), NoRow("removed")}
      /\ a.status = "completed" => k = 1
      /\ a.status = "cancelled" => k \in {0, 1}
      /\ a.status \notin Closed => k = 0
  BY DEF Inductive, RowsOK, ReportsMatch
<1>3. Page[i] = Entry(a, k) /\ Page'[i] = Entry(n, l)
  BY DEF Page, Entry
<1> HIDE DEF a, n, k, l
<1>4. CASE n = a /\ i \notin tx[t].reported
  <2>1. k = l
    BY <1>1, <1>4
  <2> QED
    BY <1>3, <1>4, <2>1
<1>5. CASE a.status = "unused" /\ n.status \in Open /\ i \notin tx[t].reported
  <2>1. a = NoRow("unused")
    BY <1>2, <1>5 DEF NoRow, Live
  <2>2. k = 0 /\ l = 0
    BY <1>1, <1>2, <1>5
  <2>3. Entry(a, k) = "none" /\ Entry(n, l) \in {"taken", "underway"}
    BY <1>5, <2>1, <2>2, Entries
  <2> QED
    BY <1>3, <2>3 DEF Ledger!Edges
<1>6. CASE /\ a.status \in Open /\ n = NoRow("removed") /\ ~a.started
           /\ i \notin tx[t].reported
  <2>1. k = 0 /\ l = 0
    BY <1>1, <1>2, <1>6
  <2>2. Entry(a, k) = "taken" /\ Entry(n, l) = "returned"
    BY <1>6, <2>1, Entries
  <2> QED
    BY <1>3, <2>2 DEF Ledger!Edges
<1>7. CASE /\ a.status \in Open
           /\ n.status \in Open \cup {"cancelled"}
           /\ a.started => n.started
           /\ i \notin tx[t].reported
  <2>1. k = 0 /\ l = 0
    BY <1>1, <1>2, <1>7
  <2>2. \/ Entry(a, k) = "taken" /\ ~a.started
        \/ Entry(a, k) = "underway" /\ n.started
    BY <1>7, <2>1, Entries
  <2>3. CASE n.status = "cancelled"
    <3>1. Entry(n, l) = "cancelled"
      BY <2>1, <2>3, Entries
    <3> QED
      BY <1>3, <2>2, <3>1 DEF Ledger!Edges
  <2>4. CASE n.status \in Open
    <3>1. \/ Entry(n, l) = "taken" /\ ~n.started
          \/ Entry(n, l) = "underway"
      BY <2>1, <2>4, Entries
    <3> QED
      BY <1>3, <2>2, <3>1 DEF Ledger!Edges
  <2> QED
    BY <1>7, <2>3, <2>4
<1>8. CASE /\ i \in tx[t].reported
           /\ n.started /\ k = 0
           /\ \/ a.status \in Open /\ n.status = "completed"
              \/ a.status = "cancelled" /\ n.status = "cancelled"
  <2>1. l = 1
    BY <1>1, <1>8
  <2>2. CASE a.status \in Open /\ n.status = "completed"
    <3>1. Entry(a, k) \in {"taken", "underway"} /\ Entry(n, l) = "done"
      BY <1>8, <2>1, <2>2, Entries
    <3> QED
      BY <1>3, <3>1 DEF Ledger!Edges
  <2>3. CASE a.status = "cancelled" /\ n.status = "cancelled"
    <3>1. Entry(a, k) = "cancelled" /\ Entry(n, l) = "late"
      BY <1>8, <2>1, <2>3, Entries
    <3> QED
      BY <1>3, <3>1 DEF Ledger!Edges
  <2> QED
    BY <1>8, <2>2, <2>3
<1>9. \/ n = a /\ i \notin tx[t].reported
      \/ a.status = "unused" /\ n.status \in Open /\ i \notin tx[t].reported
      \/ /\ a.status \in Open /\ n = NoRow("removed") /\ ~a.started
         /\ i \notin tx[t].reported
      \/ /\ a.status \in Open
         /\ n.status \in Open \cup {"cancelled"}
         /\ a.started => n.started
         /\ i \notin tx[t].reported
      \/ /\ i \in tx[t].reported
         /\ n.started /\ k = 0
         /\ \/ a.status \in Open /\ n.status = "completed"
            \/ a.status = "cancelled" /\ n.status = "cancelled"
  BY <1>1 DEF RowSaved, a, n, k
<1> QED
  BY <1>4, <1>5, <1>6, <1>7, <1>8, <1>9

\* The tables implement the book: whatever phones and dispatchers do, a patrol
\* that has begun is never returned, a closed one never reopened or reported
\* twice, a completed one has its report, and a request is in one pair of
\* hands (SaveOutbox and EfPatrolStore).
THEOREM ImplementsLedger == Spec => KeepsTheLedger
<1>1. Init => Ledger!Init
  <2> SUFFICES ASSUME Init PROVE Page = [i \in Assignments |-> "none"]
    BY DEF Ledger!Init, Page
  <2>1. ASSUME NEW i \in Assignments PROVE Entry(asg[i], reports[i]) = "none"
    BY Entries DEF Init
  <2> QED
    BY <2>1 DEF Page
<1>2. Inductive /\ Inductive' /\ [Next]_vars => [Ledger!Enter]_Page
  <2> SUFFICES ASSUME Inductive, Inductive', [Next]_vars, Page' # Page
               PROVE  Ledger!Enter
    OBVIOUS
  <2>1. PICK t \in Txs : Save(t)
    BY OnlySave DEF Page, Entry
  <2>2. \A i \in Assignments :
           /\ Page'[i] \in Ledger!Entries
           /\ Page'[i] \notin {"none", "returned"} => Live(asg'[i])
    <3>1. ASSUME NEW i \in Assignments
          PROVE  (/\ Page[i] \in Ledger!Entries
                  /\ Page[i] \notin {"none", "returned"} => Live(asg[i]))'
      BY PageOK, PTL
    <3> QED
      BY <3>1
  <2>3. \A i \in Assignments :
           Page'[i] # Page[i] => <<Page[i], Page'[i]>> \in Ledger!Edges
    BY <2>1, SaveIsEdge
  <2>4. OneAssignmentPerRequest'
    BY DEF Inductive
  <2>5. Ledger!InOneHand(Page')
    BY <2>2, <2>4 DEF Ledger!InOneHand, OneAssignmentPerRequest, Live
  <2>6. Page' \in [Assignments -> Ledger!Entries]
    BY <2>2 DEF Page
  <2> QED
    BY <2>3, <2>5, <2>6 DEF Ledger!Enter, Page
<1>3. Page = [i \in Assignments |-> Entry(asg[i], reports[i])]
  BY DEF Page
<1> QED
  BY <1>1, <1>2, InductiveCorrect, PTL
     DEF Spec, KeepsTheLedger, Ledger!Spec, Page

-----------------------------------------------------------------------------
(* The request mirrors its assignment *)

\* What a request says when its assignment is row.
Mirror(row) ==
    IF row.status \in NotBegun \cup {"removed"} THEN "assigned" ELSE row.status

\* Of the rows of one request a transaction tracks one and knows one, and if
\* the one it knows is still there it has not read the request without it.
KnownOnce(x, i) ==
    /\ x.base[i].status # "untracked" =>
          \A j \in Of(RequestOf[i]) \ {i} :
             /\ x.base[j].status = "untracked"
             /\ j \in x.known => ~Live(asg[j])
    /\ i \in x.known => \A j \in Of(RequestOf[i]) \ {i} : j \notin x.known
    /\ i \in x.known /\ Live(asg[i]) /\ x.baseReq[RequestOf[i]] # "untracked" =>
          x.base[i].status # "untracked"

\* A row is changed together with its request, whose original is what the
\* row's original demands.  It may be older, from a time without assignment,
\* if the row was read later: then all the batch can do is accept.
RowMirrored(x, i) ==
    LET r == RequestOf[i]
    IN  /\ x.base[i].status = "unused" => x.baseReq[r] \in {"none", "assigned"}
        /\ x.mine[i] # x.base[i] =>
              x.baseReq[r] # "untracked" /\ x.mineReq[r] = Mirror(x.mine[i])
        /\ Live(x.base[i]) /\ x.baseReq[r] # "untracked" =>
              \/ asg[i] # x.base[i]
              \/ x.baseReq[r] = Mirror(x.base[i])
              \/ /\ x.baseReq[r] = "assigned"
                 /\ i \notin x.known
                 /\ x.mine[i] = x.base[i] \/ x.mine[i].status = "accepted"

ReqMirrored(x, r) ==
    /\ x.baseReq[r] # "untracked" /\ Tracked(x, r) = {} => x.baseReq[r] = "assigned"
    /\ x.mineReq[r] # x.baseReq[r] => \E i \in Of(r) : x.mine[i] # x.base[i]
    /\ x.baseReq[r] \notin {"untracked", "none"} => req[r] # "none"

\* Of a request named again after a return only the rows are known.
TrackerMirrors(x) ==
    /\ \A i \in Assignments : KnownOnce(x, i)
    /\ \A i \in Assignments : RequestOf[i] \notin again => RowMirrored(x, i)
    /\ \A r \in Requests \ again : ReqMirrored(x, r)

Mirrors ==
    /\ RequestMirrors
    /\ ReleasedIsAvailable
    /\ \A t \in Txs : TrackerMirrors(tx[t])

\* RequestMirrors in terms of Mirror, and what there is without assignment.
LEMMA MirrorFacts ==
    ASSUME Inductive, Mirrors
    PROVE  /\ \A i \in Assignments : Live(asg[i]) /\ RequestOf[i] \notin again =>
                 req[RequestOf[i]] = Mirror(asg[i]) /\ req[RequestOf[i]] # "none"
           /\ \A r \in Requests \ again :
                 req[r] # "none" /\ (\A i \in Of(r) : ~Live(asg[i]))
                 => req[r] = "assigned"
           /\ \A i \in Assignments : asg[i].status = "unused" => asg[i] = NoRow("unused")
           /\ \A i \in Assignments : RequestOf[i] \in Requests /\ i \in Of(RequestOf[i])
           /\ \A i, j \in Assignments :
                 Live(asg[i]) /\ j \in Of(RequestOf[i]) \ {i} => ~Live(asg[j])
<1>1. \A i \in Assignments : Live(asg[i]) /\ RequestOf[i] \notin again =>
         req[RequestOf[i]] = Mirror(asg[i]) /\ req[RequestOf[i]] # "none"
  BY DEF Mirrors, RequestMirrors, Mirror, Live
<1>2. \A r \in Requests \ again :
         req[r] # "none" /\ (\A i \in Of(r) : ~Live(asg[i])) => req[r] = "assigned"
  BY DEF Mirrors, ReleasedIsAvailable, LiveOf
<1>3. \A i \in Assignments : asg[i].status = "unused" => asg[i] = NoRow("unused")
  <2> SUFFICES ASSUME NEW i \in Assignments, asg[i].status = "unused"
               PROVE  asg[i] = NoRow("unused")
    OBVIOUS
  <2>1. Live(asg[i]) \/ asg[i] \in {NoRow("unused"), NoRow("removed")}
    BY DEF Inductive, RowsOK
  <2>2. ~Live(asg[i])
    BY DEF Live
  <2>3. NoRow("removed").status = "removed"
    BY DEF NoRow
  <2> QED
    BY <2>1, <2>2, <2>3
<1>4. \A i \in Assignments : RequestOf[i] \in Requests /\ i \in Of(RequestOf[i])
  BY ConstantsAssumption DEF Of
<1>5. \A i, j \in Assignments :
         Live(asg[i]) /\ j \in Of(RequestOf[i]) \ {i} => ~Live(asg[j])
  BY DEF Inductive, OneAssignmentPerRequest, Of
<1> QED
  BY <1>1, <1>2, <1>3, <1>4, <1>5

LEMMA FreeMirrors == TrackerMirrors(FreeTx)
<1>1. /\ \A i \in Assignments : FreeTx.base[i].status = "untracked"
                                /\ FreeTx.mine[i] = FreeTx.base[i]
      /\ \A r \in Requests : FreeTx.baseReq[r] = "untracked"
                             /\ FreeTx.mineReq[r] = "untracked"
      /\ FreeTx.known = {}
  BY DEF FreeTx, NoRow
<1> HIDE DEF FreeTx
<1>2. ASSUME NEW i \in Assignments PROVE KnownOnce(FreeTx, i) /\ RowMirrored(FreeTx, i)
  <2>1. RequestOf[i] \in Requests
    BY ConstantsAssumption
  <2> QED
    BY <1>1, <2>1 DEF KnownOnce, RowMirrored, Live
<1>3. ASSUME NEW r \in Requests PROVE ReqMirrored(FreeTx, r)
  BY <1>1, <1>3 DEF ReqMirrored
<1> QED
  BY <1>2, <1>3 DEF TrackerMirrors

\* Nothing here looks at the rest of a tracker.
LEMMA SameMirrors ==
    ASSUME NEW x, NEW y, TrackerMirrors(x),
           y.base = x.base, y.mine = x.mine, y.baseReq = x.baseReq,
           y.mineReq = x.mineReq, y.known = x.known
    PROVE  TrackerMirrors(y)
BY DEF TrackerMirrors, KnownOnce, RowMirrored, ReqMirrored, Tracked

LEMMA MirrorStep ==
    ASSUME Inductive, Mirrors, NEW t \in Txs, NEW x, TrackerMirrors(x),
           tx' = [tx EXCEPT ![t] = x], UNCHANGED <<asg, req, again>>
    PROVE  Mirrors'
<1>1. ASSUME NEW u \in Txs PROVE TrackerMirrors(tx[u])'
  <2> PICK y : y = tx'[u] /\ TrackerMirrors(y)
    BY DEF Mirrors, Inductive, TypeOK
  <2> QED
    BY DEF TrackerMirrors, KnownOnce, RowMirrored, ReqMirrored, Tracked, Of, Live
<1> QED
  BY <1>1 DEF Mirrors, RequestMirrors, ReleasedIsAvailable, LiveOf, Of, Live

\* A known row that is still there is the only one of its request.
LEMMA KnownAlone ==
    ASSUME Inductive, Mirrors, NEW x, TrackerMirrors(x),
           NEW i \in Assignments, i \in x.known, Live(asg[i]),
           NEW j \in Of(RequestOf[i]), x.base[j].status # "untracked"
    PROVE  j = i
<1>1. j \in Assignments /\ i \in Of(RequestOf[j])
  BY DEF Of
<1>2. KnownOnce(x, j)
  BY <1>1 DEF TrackerMirrors
<1> QED
  BY <1>1, <1>2 DEF KnownOnce

LEMMA UntrackedSame ==
    ASSUME NEW x, TrackerOK(x), NEW i \in Assignments, x.base[i].status = "untracked"
    PROVE  x.mine[i] = x.base[i]
BY DEF TrackerOK, TrackedRowOK, NoRow, Live

LEMMA FetchedMirrors ==
    ASSUME Inductive, Mirrors, NEW x \in TxType, TrackerOK(x), TrackerMirrors(x),
           NEW r \in Requests, NEW I \in SUBSET Of(r), NEW R \in {{}, {r}},
           r \notin again => req[r] # "none",
           \A i \in I : x.base[i].status = "untracked" => Live(asg[i]) /\ Tracked(x, r) = {},
           \A i \in Of(r) : Live(asg[i]) => i \in I \/ Tracked(x, r) # {}
    PROVE  TrackerMirrors(Fetched(x, I, R))
<1> DEFINE y == Fetched(x, I, R)
<1>1. TypeOK /\ I \in SUBSET Assignments /\ R \in SUBSET Requests
  BY DEF Inductive, Of
<1>2. /\ y \in TxType /\ y.known = x.known
      /\ \A i \in Assignments :
            IF i \in I /\ x.base[i].status = "untracked"
            THEN y.base[i] = asg[i] /\ y.mine[i] = asg[i]
            ELSE y.base[i] = x.base[i] /\ y.mine[i] = x.mine[i]
      /\ \A q \in Requests :
            IF q \in R /\ x.baseReq[q] = "untracked"
            THEN y.baseReq[q] = req[q] /\ y.mineReq[q] = req[q]
            ELSE y.baseReq[q] = x.baseReq[q] /\ y.mineReq[q] = x.mineReq[q]
  BY <1>1, FetchedFields
<1> HIDE DEF y
<1>3. \A i \in Assignments :
         KnownOnce(x, i) /\ (RequestOf[i] \notin again => RowMirrored(x, i))
  BY DEF TrackerMirrors
<1>4. \A q \in Requests \ again : ReqMirrored(x, q)
  BY DEF TrackerMirrors
<1>5. \A i \in Of(r) : i \in Assignments /\ RequestOf[i] = r /\ Of(RequestOf[i]) = Of(r)
  BY DEF Of
<1>6. \A i \in Of(r) : x.base[i].status # "untracked" <=> i \in Tracked(x, r)
  BY DEF Tracked
<1>7. req[r] # "untracked"
  BY <1>1 DEF TypeOK, ReqStatus
<1>8. ASSUME NEW i \in Assignments, i \notin Of(r)
      PROVE  KnownOnce(y, i) /\ (RequestOf[i] \notin again => RowMirrored(y, i))
  <2>1. /\ RequestOf[i] \in Requests \ {r}
        /\ \A j \in Of(RequestOf[i]) : j \in Assignments /\ j \notin I
    BY <1>8, ConstantsAssumption DEF Of
  <2>2. /\ y.base[i] = x.base[i] /\ y.mine[i] = x.mine[i]
        /\ \A j \in Of(RequestOf[i]) : y.base[j] = x.base[j]
        /\ y.baseReq[RequestOf[i]] = x.baseReq[RequestOf[i]]
        /\ y.mineReq[RequestOf[i]] = x.mineReq[RequestOf[i]]
    BY <1>2, <1>8, <2>1
  <2> QED
    BY <1>2, <1>3, <2>2 DEF KnownOnce, RowMirrored
<1>9. ASSUME NEW i \in Of(r) PROVE KnownOnce(y, i)
  <2>1. KnownOnce(x, i) /\ i \in Assignments
    BY <1>3, <1>5
  <2>2. ASSUME y.base[i].status # "untracked", NEW j \in Of(r) \ {i}
        PROVE  y.base[j].status = "untracked" /\ (j \in x.known => ~Live(asg[j]))
    <3>1. CASE x.base[i].status # "untracked"
      <4>1. x.base[j].status = "untracked" /\ (j \in x.known => ~Live(asg[j]))
        BY <1>5, <2>1, <2>2, <3>1 DEF KnownOnce
      <4>2. j \notin I
        BY <1>6, <3>1, <4>1
      <4> QED
        BY <1>2, <1>5, <4>1, <4>2
    <3>2. CASE x.base[i].status = "untracked"
      <4>1. i \in I /\ Live(asg[i]) /\ Tracked(x, r) = {}
        BY <1>2, <2>1, <2>2, <3>2
      <4>2. ~Live(asg[j])
        BY <1>5, <2>1, <2>2, <4>1, MirrorFacts
      <4>3. x.base[j].status = "untracked" /\ j \notin I
        BY <1>6, <4>1, <4>2
      <4> QED
        BY <1>2, <1>5, <4>2, <4>3
    <3> QED
      BY <3>1, <3>2
  <2>3. ASSUME i \in x.known, Live(asg[i]), y.baseReq[r] # "untracked"
        PROVE  y.base[i].status # "untracked"
    <3>1. CASE x.baseReq[r] # "untracked"
      BY <1>2, <1>5, <2>1, <2>3, <3>1 DEF KnownOnce, Live
    <3>2. CASE i \in I
      BY <1>2, <2>1, <2>3, <3>2 DEF Live
    <3>3. CASE Tracked(x, r) # {}
      <4>1. PICK j \in Of(r) : x.base[j].status # "untracked"
        BY <1>6, <3>3 DEF Tracked
      <4>2. j = i
        BY <1>5, <2>1, <2>3, <4>1, KnownAlone
      <4> QED
        BY <1>2, <2>1, <2>3, <4>1, <4>2 DEF Live
    <3> QED
      BY <2>3, <3>2, <3>3
  <2> QED
    BY <1>2, <1>5, <2>1, <2>2, <2>3 DEF KnownOnce
<1>10. ASSUME NEW i \in Of(r), r \notin again PROVE RowMirrored(y, i)
  <2>1. /\ RowMirrored(x, i) /\ KnownOnce(x, i)
        /\ i \in Assignments /\ RequestOf[i] = r /\ r \in Requests \ again
    BY <1>3, <1>5, <1>10
  <2>2. CASE i \in I /\ x.base[i].status = "untracked"
    <3>1. y.base[i] = asg[i] /\ y.mine[i] = asg[i] /\ Live(asg[i]) /\ Tracked(x, r) = {}
      BY <1>2, <2>1, <2>2
    <3>2. CASE x.baseReq[r] # "untracked"
      <4>1. y.baseReq[r] = "assigned"
        BY <1>2, <1>4, <2>1, <3>1, <3>2 DEF ReqMirrored
      <4>2. i \notin x.known
        BY <2>1, <2>2, <3>1, <3>2 DEF KnownOnce
      <4> QED
        BY <1>2, <2>1, <3>1, <4>1, <4>2 DEF RowMirrored, Live
    <3>3. CASE x.baseReq[r] = "untracked"
      <4>1. y.baseReq[r] \in {"untracked", Mirror(asg[i])}
        BY <1>2, <2>1, <3>1, <3>3, MirrorFacts
      <4> QED
        BY <1>2, <2>1, <3>1, <4>1 DEF RowMirrored, Live
    <3> QED
      BY <3>2, <3>3
  <2>3. CASE ~(i \in I /\ x.base[i].status = "untracked")
    <3>1. y.base[i] = x.base[i] /\ y.mine[i] = x.mine[i]
      BY <1>2, <2>1, <2>3
    <3>2. CASE x.baseReq[r] # "untracked"
      BY <1>2, <2>1, <3>1, <3>2 DEF RowMirrored
    <3>3. CASE x.baseReq[r] = "untracked"
      <4>1. x.base[i].status # "unused" /\ x.mine[i] = x.base[i]
        BY <2>1, <3>3 DEF RowMirrored
      <4>2. y.baseReq[r] \in {"untracked", req[r]}
        BY <1>2, <3>3
      <4>3. Live(x.base[i]) /\ asg[i] = x.base[i] => req[r] = Mirror(x.base[i])
        BY <2>1, MirrorFacts
      <4> QED
        BY <2>1, <3>1, <4>1, <4>2, <4>3 DEF RowMirrored
    <3> QED
      BY <3>2, <3>3
  <2> QED
    BY <2>2, <2>3
<1>11. ASSUME NEW q \in Requests \ again PROVE ReqMirrored(y, q)
  <2>1. ReqMirrored(x, q)
    BY <1>4
  <2>2. ASSUME y.baseReq[q] # "untracked", Tracked(y, q) = {}
        PROVE  y.baseReq[q] = "assigned"
    <3>1. ASSUME NEW i \in Of(q)
          PROVE  /\ i \in Assignments /\ x.base[i].status = "untracked"
                 /\ q = r => i \notin I
      <4>1. i \in Assignments /\ y.base[i].status = "untracked"
        BY <2>2 DEF Tracked, Of
      <4> QED
        BY <1>2, <4>1 DEF Live
    <3>2. Tracked(x, q) = {}
      BY <3>1 DEF Tracked
    <3>3. CASE x.baseReq[q] # "untracked"
      BY <1>2, <2>1, <3>2, <3>3 DEF ReqMirrored
    <3>4. CASE x.baseReq[q] = "untracked"
      <4>1. q = r /\ y.baseReq[r] = req[r]
        BY <1>2, <2>2, <3>4
      <4>2. \A i \in Of(r) : ~Live(asg[i])
        BY <3>1, <3>2, <4>1
      <4> QED
        BY <4>1, <4>2, MirrorFacts
    <3> QED
      BY <3>3, <3>4
  <2>3. ASSUME y.mineReq[q] # y.baseReq[q] PROVE \E i \in Of(q) : y.mine[i] # y.base[i]
    <3>1. PICK i \in Of(q) : x.mine[i] # x.base[i]
      BY <1>2, <2>1, <2>3 DEF ReqMirrored
    <3>2. i \in Assignments /\ x.base[i].status # "untracked"
      BY <3>1, UntrackedSame DEF Of
    <3> QED
      BY <1>2, <3>1, <3>2
  <2>4. y.baseReq[q] \notin {"untracked", "none"} => req[q] # "none"
    BY <1>2, <2>1 DEF ReqMirrored
  <2> QED
    BY <2>2, <2>3, <2>4 DEF ReqMirrored
<1>12. ASSUME NEW i \in Assignments
       PROVE  KnownOnce(y, i) /\ (RequestOf[i] \notin again => RowMirrored(y, i))
  <2>1. CASE i \in Of(r)
    BY <1>5, <1>9, <1>10, <2>1
  <2>2. CASE i \notin Of(r)
    BY <1>8, <2>2
  <2> QED
    BY <2>1, <2>2
<1> QED
  BY <1>11, <1>12 DEF TrackerMirrors, y

\* A handler gives row i and its request, both read before, new values.
LEMMA ModifiedMirrors ==
    ASSUME NEW x, NEW y, NEW i \in Assignments, NEW row,
           RequestOf[i] \in Requests, TrackerMirrors(x),
           \A j \in Assignments : x.base[j].status = "untracked" => x.mine[j] = x.base[j],
           x.base[i].status # "untracked", x.baseReq[RequestOf[i]] # "untracked",
           y.known = x.known, y.base = x.base, y.baseReq = x.baseReq,
           y.mine[i] = row, \A j \in Assignments \ {i} : y.mine[j] = x.mine[j],
           y.mineReq[RequestOf[i]] = Mirror(row),
           \A q \in Requests \ {RequestOf[i]} : y.mineReq[q] = x.mineReq[q],
           row # x.base[i],
           \/ i \in x.known
           \/ row.status = "accepted"
           \/ RequestOf[i] \in again
           \/ x.baseReq[RequestOf[i]] = Mirror(x.base[i])
    PROVE  TrackerMirrors(y)
<1>1. \A j \in Assignments :
         KnownOnce(x, j) /\ (RequestOf[j] \notin again => RowMirrored(x, j))
  BY DEF TrackerMirrors
<1>2. ASSUME NEW j \in Assignments PROVE KnownOnce(y, j)
  BY <1>1 DEF KnownOnce
<1>3. RequestOf[i] \notin again => RowMirrored(y, i)
  BY <1>1 DEF RowMirrored
<1>4. ASSUME NEW j \in Assignments, j # i, RequestOf[j] \notin again
      PROVE  RowMirrored(y, j)
  <2>1. CASE RequestOf[j] = RequestOf[i]
    <3>1. x.base[j].status = "untracked"
      BY <1>1, <1>4, <2>1 DEF KnownOnce, Of
    <3> QED
      BY <1>4, <3>1 DEF RowMirrored, Live
  <2>2. CASE RequestOf[j] # RequestOf[i]
    <3>1. RequestOf[j] \in Requests
      BY ConstantsAssumption
    <3> QED
      BY <1>1, <1>4, <2>2, <3>1 DEF RowMirrored
  <2> QED
    BY <2>1, <2>2
<1>5. ASSUME NEW q \in Requests \ again PROVE ReqMirrored(y, q)
  <2>1. ReqMirrored(x, q) /\ Tracked(y, q) = Tracked(x, q)
    BY DEF TrackerMirrors, Tracked
  <2>2. ASSUME y.mineReq[q] # y.baseReq[q] PROVE \E j \in Of(q) : y.mine[j] # y.base[j]
    <3>1. CASE q = RequestOf[i]
      BY <3>1 DEF Of
    <3>2. CASE q # RequestOf[i]
      <4>1. PICK j \in Of(q) : x.mine[j] # x.base[j]
        BY <2>1, <2>2, <3>2 DEF ReqMirrored
      <4>2. j \in Assignments \ {i}
        BY <3>2 DEF Of
      <4> QED
        BY <4>1, <4>2
    <3> QED
      BY <3>1, <3>2
  <2> QED
    BY <2>1, <2>2 DEF ReqMirrored
<1> QED
  BY <1>2, <1>3, <1>4, <1>5 DEF TrackerMirrors

\* The same when the handler queries the row and the request itself.
LEMMA ChangeMirrors ==
    ASSUME Inductive, Mirrors, NEW x \in TxType, TrackerOK(x), TrackerMirrors(x),
           NEW i \in Assignments, NEW row \in Row, Mirror(row) \in ReqStatus,
           RequestOf[i] \notin again => req[RequestOf[i]] # "none",
           x.base[i].status = "untracked" => Live(asg[i]) /\ Tracked(x, RequestOf[i]) = {},
           row # (IF x.base[i].status = "untracked" THEN asg[i] ELSE x.base[i]),
           i \in x.known \/ row.status = "accepted" \/ x = FreeTx
    PROVE  TrackerMirrors(Changed(x, i, row, Mirror(row)))
<1> DEFINE r == RequestOf[i]
           f == Fetched(x, {i}, {r})
           y == Changed(x, i, row, Mirror(row))
<1>1. /\ TypeOK /\ r \in Requests /\ i \in Of(r)
      /\ {i} \in SUBSET Assignments /\ {r} \in SUBSET Requests
  BY ConstantsAssumption DEF Inductive, Of
<1>2. TrackerMirrors(f)
  <2>1. ASSUME NEW j \in Of(r), Live(asg[j]) PROVE j \in {i} \/ Tracked(x, r) # {}
    <3>1. CASE x.base[i].status = "untracked"
      BY <2>1, <3>1, MirrorFacts DEF Of
    <3>2. CASE x.base[i].status # "untracked"
      BY <1>1, <3>2 DEF Tracked
    <3> QED
      BY <3>1, <3>2
  <2> QED
    BY <1>1, <2>1, FetchedMirrors
<1>3. TrackerOK(f)
  BY <1>1, FetchedOK
<1>4. /\ f \in TxType /\ f.known = x.known
      /\ f.base[i] = IF x.base[i].status = "untracked" THEN asg[i] ELSE x.base[i]
      /\ f.baseReq[r] = IF x.baseReq[r] = "untracked" THEN req[r] ELSE x.baseReq[r]
  <2>1. /\ f \in TxType /\ f.known = x.known
        /\ \A j \in Assignments :
              IF j \in {i} /\ x.base[j].status = "untracked"
              THEN f.base[j] = asg[j] /\ f.mine[j] = asg[j]
              ELSE f.base[j] = x.base[j] /\ f.mine[j] = x.mine[j]
        /\ \A q \in Requests :
              IF q \in {r} /\ x.baseReq[q] = "untracked"
              THEN f.baseReq[q] = req[q] /\ f.mineReq[q] = req[q]
              ELSE f.baseReq[q] = x.baseReq[q] /\ f.mineReq[q] = x.mineReq[q]
    BY <1>1, FetchedFields
  <2> HIDE DEF f
  <2> QED
    BY <1>1, <2>1
<1>5. y = [f EXCEPT !.mine[i] = row, !.mineReq[r] = Mirror(row)]
  BY DEF Changed
<1> HIDE DEF f, y
<1>6. /\ y.known = f.known /\ y.base = f.base /\ y.baseReq = f.baseReq
      /\ y.mine[i] = row /\ \A j \in Assignments \ {i} : y.mine[j] = f.mine[j]
      /\ y.mineReq[r] = Mirror(row)
      /\ \A q \in Requests \ {r} : y.mineReq[q] = f.mineReq[q]
  BY <1>1, <1>4, <1>5 DEF TxType
<1>7. \A j \in Assignments : f.base[j].status = "untracked" => f.mine[j] = f.base[j]
  BY <1>3, UntrackedSame
<1>8. f.base[i].status # "untracked" /\ f.baseReq[r] # "untracked"
  BY <1>1, <1>4 DEF TypeOK, ReqStatus, Live
<1>9. \/ i \in f.known
      \/ row.status = "accepted"
      \/ r \in again
      \/ f.baseReq[r] = Mirror(f.base[i])
  <2>1. CASE x = FreeTx
    <3>1. x.base[i].status = "untracked" /\ x.baseReq[r] = "untracked"
      BY <1>1, <2>1 DEF FreeTx, NoRow
    <3> QED
      BY <1>4, <3>1, MirrorFacts
  <2> QED
    BY <1>4, <2>1
<1>10. row # f.base[i]
  BY <1>4
<1>11. TrackerMirrors(y)
  BY <1>1, <1>2, <1>6, <1>7, <1>8, <1>9, <1>10, ModifiedMirrors
<1> QED
  BY <1>11 DEF y

LEMMA AddMirrors ==
    ASSUME Inductive, Mirrors, NEW x \in TxType, TrackerOK(x), TrackerMirrors(x),
           NEW i \in Assignments, asg[i].status = "unused",
           \/ \A j \in Of(RequestOf[i]) : ~Live(asg[j])
           \/ x.known = {} /\ RequestOf[i] \in again,
           Tracked(x, RequestOf[i]) = {},
           NEW row \in Row, row.status \in Open
    PROVE  /\ Added(x, i, row, Mirror(row)) \in TxType
           /\ TrackerMirrors(Added(x, i, row, Mirror(row)))
<1> DEFINE r == RequestOf[i]
           c == Changed(x, i, row, Mirror(row))
           y == Added(x, i, row, Mirror(row))
<1>1. TypeOK /\ r \in Requests /\ Mirror(row) \in ReqStatus
  BY ConstantsAssumption DEF Inductive, Mirror, ReqStatus
<1>2. /\ c \in TxType /\ c.known = x.known
      /\ c.mine[i] = row
      /\ \A j \in Assignments \ {i} : c.base[j] = x.base[j] /\ c.mine[j] = x.mine[j]
      /\ c.mineReq[r] = Mirror(row)
      /\ \A q \in Requests \ {r} :
            c.baseReq[q] = x.baseReq[q] /\ c.mineReq[q] = x.mineReq[q]
  BY <1>1, ChangedFields
<1>3. c.baseReq[r] = IF x.baseReq[r] = "untracked" THEN req[r] ELSE x.baseReq[r]
  <2>1. {i} \in SUBSET Assignments /\ {r} \in SUBSET Requests
    BY <1>1
  <2> DEFINE f == Fetched(x, {i}, {r})
  <2>2. /\ f \in TxType
        /\ \A q \in Requests :
              IF q \in {r} /\ x.baseReq[q] = "untracked"
              THEN f.baseReq[q] = req[q] /\ f.mineReq[q] = req[q]
              ELSE f.baseReq[q] = x.baseReq[q] /\ f.mineReq[q] = x.mineReq[q]
    BY <1>1, <2>1, FetchedFields
  <2>3. c = [f EXCEPT !.mine[i] = row, !.mineReq[r] = Mirror(row)]
    BY DEF Changed
  <2> HIDE DEF f, c
  <2>4. c.baseReq = f.baseReq
    BY <2>2, <2>3 DEF TxType
  <2> QED
    BY <1>1, <2>2, <2>4
<1>4. y = [c EXCEPT !.base[i] = NoRow("unused")]
  BY DEF Added
<1> HIDE DEF c, y
<1>5. /\ y \in TxType /\ y.known = c.known /\ y.mine = c.mine
      /\ y.baseReq = c.baseReq /\ y.mineReq = c.mineReq
      /\ y.base[i] = NoRow("unused")
      /\ \A j \in Assignments \ {i} : y.base[j] = c.base[j]
  BY <1>2, <1>4, NoRowType DEF TxType
<1>6. NoRow("unused").status = "unused"
  BY DEF NoRow
<1>7. \A j \in Of(r) : j \in Assignments /\ RequestOf[j] = r /\ x.base[j].status = "untracked"
  BY DEF Tracked, Of
<1>8. ASSUME NEW j \in Assignments PROVE KnownOnce(y, j)
  <2>1. KnownOnce(x, j)
    BY DEF TrackerMirrors
  <2>2. CASE RequestOf[j] = r
    BY <1>2, <1>5, <1>6, <1>7, <2>1, <2>2 DEF KnownOnce, Of
  <2>3. CASE RequestOf[j] # r
    <3>1. RequestOf[j] \in Requests \ {r} /\ j # i /\ i \notin Of(RequestOf[j])
      BY <2>3, ConstantsAssumption DEF Of
    <3> QED
      BY <1>2, <1>5, <2>1, <3>1 DEF KnownOnce, Of
  <2> QED
    BY <2>2, <2>3
<1>9. r \notin again /\ x.baseReq[r] # "untracked"
         => x.baseReq[r] = "assigned" /\ req[r] # "none"
  BY <1>1 DEF TrackerMirrors, ReqMirrored
<1>10. r \notin again => req[r] \in {"none", "assigned"} /\ req[r] # "untracked"
  BY <1>1, MirrorFacts
<1>11. ASSUME NEW j \in Assignments, RequestOf[j] \notin again PROVE RowMirrored(y, j)
  <2>1. CASE j = i
    BY <1>2, <1>3, <1>5, <1>6, <1>9, <1>10, <1>11, <2>1 DEF RowMirrored, Live
  <2>2. CASE j # i /\ RequestOf[j] = r
    <3>1. y.base[j].status = "untracked" /\ y.mine[j] = y.base[j]
      BY <1>2, <1>5, <1>7, <2>2, UntrackedSame DEF Of
    <3> QED
      BY <3>1 DEF RowMirrored, Live
  <2>3. CASE RequestOf[j] # r
    <3>1. RequestOf[j] \in Requests \ {r} /\ j # i /\ RowMirrored(x, j)
      BY <1>11, <2>3, ConstantsAssumption DEF TrackerMirrors
    <3> QED
      BY <1>2, <1>5, <3>1 DEF RowMirrored
  <2> QED
    BY <2>1, <2>2, <2>3
<1>12. ASSUME NEW q \in Requests \ again PROVE ReqMirrored(y, q)
  <2>1. ReqMirrored(x, q)
    BY DEF TrackerMirrors
  <2>2. CASE q = r
    <3>1. i \in Of(r) /\ i \in Tracked(y, r) /\ y.mine[i] # y.base[i]
      BY <1>2, <1>5, <1>6 DEF Of, Tracked
    <3> QED
      BY <1>3, <1>5, <1>9, <2>2, <3>1 DEF ReqMirrored
  <2>3. CASE q # r
    <3>1. \A j \in Of(q) : j \in Assignments \ {i}
      BY <2>3 DEF Of
    <3>2. Tracked(y, q) = Tracked(x, q)
      BY <1>2, <1>5, <3>1 DEF Tracked
    <3> QED
      BY <1>2, <1>5, <2>1, <2>3, <3>1, <3>2 DEF ReqMirrored
  <2> QED
    BY <2>2, <2>3
<1> QED
  BY <1>5, <1>8, <1>11, <1>12 DEF TrackerMirrors, y

LEMMA HandledMirrors ==
    ASSUME Inductive, Mirrors, NEW t \in Txs, NEW x \in TxType, TrackerMirrors(x),
           Handled(t, x)
    PROVE  Mirrors'
<1> DEFINE y == [x EXCEPT !.left = @ - 1]
<1>1. /\ y.base = x.base /\ y.mine = x.mine /\ y.baseReq = x.baseReq
      /\ y.mineReq = x.mineReq /\ y.known = x.known
  BY DEF TxType
<1>2. tx' = [tx EXCEPT ![t] = y] /\ UNCHANGED <<asg, req, again>>
  BY DEF Handled
<1> HIDE DEF y
<1> QED
  BY <1>1, <1>2, SameMirrors, MirrorStep

\* What a handler knows of a transaction, and of a row it has found.
LEMMA MirrorBatch ==
    ASSUME Inductive, Mirrors, NEW t \in Txs
    PROVE  tx[t] \in TxType /\ TrackerOK(tx[t]) /\ TrackerMirrors(tx[t])
BY DEF Inductive, TypeOK, Mirrors

LEMMA FoundAlone ==
    ASSUME Inductive, Mirrors, NEW t \in Txs, NEW i \in Assignments,
           i \in tx[t].known, Live(asg[i])
    PROVE  /\ RequestOf[i] \notin again => req[RequestOf[i]] # "none"
           /\ tx[t].base[i].status = "untracked" => Tracked(tx[t], RequestOf[i]) = {}
<1>1. /\ RequestOf[i] \notin again => req[RequestOf[i]] # "none"
      /\ i \in Of(RequestOf[i])
  BY MirrorFacts
<1>2. \A j \in Of(RequestOf[i]) : tx[t].base[j].status # "untracked" => j = i
  BY MirrorBatch, KnownAlone
<1> QED
  BY <1>1, <1>2 DEF Tracked

\* The row a handler sees is no older than the one it has read.
LEMMA SeenNewer ==
    ASSUME Inductive, NEW t \in Txs, NEW i \in Assignments,
           Live(RowSeen(tx[t], i))
    PROVE  LET b == IF tx[t].base[i].status = "untracked" THEN asg[i] ELSE tx[t].base[i]
           IN  b.status = "unused" \/ (b \in Row /\ b.lock <= RowSeen(tx[t], i).lock)
<1>1. TrackedRowOK(tx[t], i) /\ tx[t] \in TxType /\ TypeOK
  BY BatchFacts
<1>2. CASE tx[t].base[i].status = "untracked"
  BY <1>1, <1>2 DEF RowSeen, TypeOK, Row
<1>3. CASE tx[t].base[i] = NoRow("unused")
  BY <1>3 DEF NoRow
<1>4. CASE Live(tx[t].base[i]) /\ Intended(tx[t], i)
  <2>1. tx[t].base[i].status # "untracked" /\ RowSeen(tx[t], i) = tx[t].mine[i]
    BY <1>4 DEF Live, RowSeen
  <2>2. tx[t].base[i] \in Row /\ tx[t].mine[i] \in Row
    <3>1. NoRow("untracked").status = "untracked"
      BY DEF NoRow
    <3> QED
      BY <1>1, <1>4, <2>1, <3>1 DEF TxType, Live
  <2>3. tx[t].mine[i] # NoRow("removed")
    BY <2>1 DEF Live, NoRow
  <2> QED
    BY <1>4, <2>1, <2>2, <2>3 DEF Intended, Row
<1> QED
  BY <1>1, <1>2, <1>3, <1>4 DEF TrackedRowOK, NoRow

LEMMA MoveMirrors ==
    ASSUME Inductive, Mirrors, NEW t \in Txs, NEW i \in Assignments,
           Live(RowSeen(tx[t], i)),
           NEW row \in Row, row.status \in Persisted \ NotBegun,
           row.lock > RowSeen(tx[t], i).lock,
           \/ i \in tx[t].known /\ Live(asg[i])
           \/ /\ row.status = "accepted"
              /\ i \in Navigation(tx[t], RequestOf[i]) /\ req[RequestOf[i]] # "none"
    PROVE  LET c == Changed(tx[t], i, row, row.status)
           IN  c \in TxType /\ TrackerMirrors(c)
<1> DEFINE r == RequestOf[i]
           b == IF tx[t].base[i].status = "untracked" THEN asg[i] ELSE tx[t].base[i]
<1>1. tx[t] \in TxType /\ TrackerOK(tx[t]) /\ TrackerMirrors(tx[t]) /\ TypeOK
  BY MirrorBatch DEF Inductive
<1>2. Mirror(row) = row.status /\ row.status \in ReqStatus
  BY DEF Mirror, ReqStatus
<1>3. /\ r \notin again => req[r] # "none"
      /\ tx[t].base[i].status = "untracked" => Live(asg[i]) /\ Tracked(tx[t], r) = {}
      /\ i \in tx[t].known \/ row.status = "accepted"
  <2>1. CASE i \in tx[t].known /\ Live(asg[i])
    BY <2>1, FoundAlone
  <2>2. CASE row.status = "accepted" /\ i \in Navigation(tx[t], r) /\ req[r] # "none"
    BY <2>2 DEF Navigation, Tracked
  <2> QED
    BY <2>1, <2>2
<1>4. row # b
  <2>1. RowSeen(tx[t], i) \in Row
    <3>1. RowSeen(tx[t], i) \in Trackable
      BY <1>1, RowSeenType
    <3> QED
      BY <3>1 DEF Trackable, NoRow, Live
  <2>2. b.status = "unused" \/ (b \in Row /\ b.lock <= RowSeen(tx[t], i).lock)
    BY SeenNewer
  <2> HIDE DEF b
  <2> QED
    BY <2>1, <2>2 DEF Row
<1>5. Changed(tx[t], i, row, row.status) \in TxType
  BY <1>1, <1>2, ChangedFields
<1>6. TrackerMirrors(Changed(tx[t], i, row, Mirror(row)))
  BY <1>1, <1>2, <1>3, <1>4, ChangeMirrors
<1> QED
  BY <1>2, <1>5, <1>6

\* Moved and Started rows, in the form MoveMirrors asks for.
LEMMA MovedUp ==
    ASSUME Inductive, NEW t \in Txs, NEW i \in Assignments,
           Live(RowSeen(tx[t], i)), MayMove(RowSeen(tx[t], i)),
           NEW s \in Persisted, NEW row,
           row \in {Moved(RowSeen(tx[t], i), s), Started(RowSeen(tx[t], i), s)}
    PROVE  row \in Row /\ row.status = s /\ row.lock > RowSeen(tx[t], i).lock
<1>1. RowSeen(tx[t], i) \in Row
  <2>1. RowSeen(tx[t], i) \in Trackable
    BY BatchFacts, RowSeenType
  <2> QED
    BY <2>1 DEF Trackable, NoRow, Live
<1>2. /\ Moved(RowSeen(tx[t], i), s) \in Row
      /\ Moved(RowSeen(tx[t], i), s).status = s
      /\ Moved(RowSeen(tx[t], i), s).lock = RowSeen(tx[t], i).lock + 1
      /\ Started(RowSeen(tx[t], i), s) \in Row
      /\ Started(RowSeen(tx[t], i), s).status = s
      /\ Started(RowSeen(tx[t], i), s).lock = RowSeen(tx[t], i).lock + 1
  BY <1>1, MovedType
<1>3. RowSeen(tx[t], i).lock + 1 > RowSeen(tx[t], i).lock
  BY <1>1 DEF Row
<1> QED
  BY <1>2, <1>3

LEMMA MovesMirror ==
    ASSUME Inductive, Mirrors, NEW t \in Txs, NEW i \in Assignments,
           \/ AcceptExisting(t, i)
           \/ Start(t, i)
           \/ Pause(t, i)
           \/ Resume(t, i)
           \/ Handoff(t, i)
    PROVE  Mirrors'
<1> DEFINE x == tx[t]
           old == RowSeen(x, i)
<1>1. ASSUME NEW s \in Persisted \ NotBegun, NEW row,
             row \in {Moved(old, s), Started(old, s)}, Live(old), MayMove(old),
             \/ i \in x.known /\ Live(asg[i])
             \/ /\ s = "accepted"
                /\ i \in Navigation(x, RequestOf[i]) /\ req[RequestOf[i]] # "none",
             Handled(t, Changed(x, i, row, s))
      PROVE  Mirrors'
  <2>1. row \in Row /\ row.status = s /\ row.lock > RowSeen(x, i).lock
    BY <1>1, MovedUp
  <2>2. Changed(x, i, row, s) \in TxType /\ TrackerMirrors(Changed(x, i, row, s))
    BY <1>1, <2>1, MoveMirrors
  <2> QED
    BY <1>1, <2>2, HandledMirrors
<1>2. CASE AcceptExisting(t, i)
  BY <1>1, <1>2 DEF AcceptExisting, Live
<1>3. CASE Start(t, i)
  BY <1>1, <1>3 DEF Start, Found, Live
<1>4. CASE Pause(t, i)
  BY <1>1, <1>4 DEF Pause, Found, Live
<1>5. CASE Resume(t, i)
  BY <1>1, <1>5 DEF Resume, Found, Live
<1>6. CASE Handoff(t, i)
  BY <1>1, <1>6 DEF Handoff, Found, Live
<1> QED
  BY <1>2, <1>3, <1>4, <1>5, <1>6

LEMMA ReportMirrors ==
    ASSUME Inductive, Mirrors, NEW t \in Txs, NEW i \in Assignments,
           Complete(t, i) \/ CompleteLate(t, i)
    PROVE  Mirrors'
<1>1. PICK s \in Closed : MayReport(t, i) /\ Handled(t, Reported(tx[t], i, s))
  BY DEF Complete, CompleteLate
<1> DEFINE row == Started(RowSeen(tx[t], i), s)
           c == Changed(tx[t], i, row, s)
           y == Reported(tx[t], i, s)
<1>2. /\ i \in tx[t].known /\ Live(asg[i])
      /\ Live(RowSeen(tx[t], i)) /\ MayMove(RowSeen(tx[t], i))
  BY <1>1 DEF MayReport, Found
<1>3. row \in Row /\ row.status = s /\ row.lock > RowSeen(tx[t], i).lock
  BY <1>2, MovedUp
<1> HIDE DEF row
<1>4. c \in TxType /\ TrackerMirrors(c)
  BY <1>2, <1>3, MoveMirrors
<1>5. y = [c EXCEPT !.reported = @ \cup {i}]
  BY DEF Reported, row
<1> HIDE DEF c, y
<1>6. /\ y \in TxType /\ y.base = c.base /\ y.mine = c.mine
      /\ y.baseReq = c.baseReq /\ y.mineReq = c.mineReq /\ y.known = c.known
  BY <1>4, <1>5 DEF TxType
<1>7. TrackerMirrors(y)
  BY <1>4, <1>6, SameMirrors
<1> QED
  BY <1>1, <1>6, <1>7, HandledMirrors DEF y

LEMMA ReleaseMirrors ==
    ASSUME Inductive, Mirrors, NEW t \in Txs, NEW i \in Assignments, Release(t, i)
    PROVE  Mirrors'
<1> DEFINE row == NoRow("removed")
           b == IF tx[t].base[i].status = "untracked" THEN asg[i] ELSE tx[t].base[i]
<1>1. tx[t] \in TxType /\ TrackerOK(tx[t]) /\ TrackerMirrors(tx[t]) /\ TypeOK
  BY MirrorBatch DEF Inductive
<1>2. row.status = "removed" /\ row \in Row
  BY NoRowType DEF NoRow
<1>3. Mirror(row) = "assigned" /\ "assigned" \in ReqStatus
  BY <1>2 DEF Mirror, ReqStatus
<1>4. i \in tx[t].known /\ Live(asg[i]) /\ Handled(t, Changed(tx[t], i, row, "assigned"))
  BY DEF Release, Found
<1>5. row # b
  <2>1. TrackedRowOK(tx[t], i)
    BY BatchFacts
  <2>2. b.status \in {"unused"} \cup Persisted
    BY <1>4, <2>1 DEF TrackedRowOK, NoRow, Live
  <2> HIDE DEF row, b
  <2> QED
    BY <1>2, <2>2
<1> HIDE DEF row
<1>6. Changed(tx[t], i, row, "assigned") \in TxType
  BY <1>1, <1>2, <1>3, ChangedFields
<1>7. /\ RequestOf[i] \notin again => req[RequestOf[i]] # "none"
      /\ tx[t].base[i].status = "untracked" => Tracked(tx[t], RequestOf[i]) = {}
  BY <1>4, FoundAlone
<1>8. TrackerMirrors(Changed(tx[t], i, row, Mirror(row)))
  BY <1>1, <1>2, <1>3, <1>4, <1>5, <1>7, ChangeMirrors
<1> QED
  BY <1>3, <1>4, <1>6, <1>8, HandledMirrors

LEMMA LookMirrors ==
    ASSUME Inductive, Mirrors, NEW t \in Txs, NEW i \in Assignments,
           NEW w \in BOOLEAN, LookAt(t, i, w)
    PROVE  Mirrors'
<1> DEFINE r == RequestOf[i]
<1>1. PICK R \in {{}, {r}} : Handled(t, Fetched(tx[t], {i}, R))
  BY DEF LookAt
<1>2. i \in tx[t].known /\ Live(asg[i])
  BY DEF LookAt
<1>3. tx[t] \in TxType /\ TrackerOK(tx[t]) /\ TrackerMirrors(tx[t]) /\ TypeOK
  BY MirrorBatch DEF Inductive
<1>4. r \in Requests /\ i \in Of(r) /\ {i} \in SUBSET Of(r)
  BY MirrorFacts
<1>5. /\ r \notin again => req[r] # "none"
      /\ tx[t].base[i].status = "untracked" => Tracked(tx[t], r) = {}
  BY <1>2, FoundAlone
<1>6. \A j \in Of(r) : Live(asg[j]) => j \in {i} \/ Tracked(tx[t], r) # {}
  BY <1>2, MirrorFacts DEF Of
<1>7. TrackerMirrors(Fetched(tx[t], {i}, R))
  BY <1>2, <1>3, <1>4, <1>5, <1>6, FetchedMirrors
<1>8. {i} \in SUBSET Assignments /\ R \in SUBSET Requests
  BY <1>4
<1>9. Fetched(tx[t], {i}, R) \in TxType
  BY <1>3, <1>8, FetchedFields
<1> QED
  BY <1>1, <1>7, <1>9, HandledMirrors

LEMMA LookRequestMirrors ==
    ASSUME Inductive, Mirrors, NEW t \in Txs, NEW r \in Requests, LookAtRequest(t, r)
    PROVE  Mirrors'
<1> DEFINE I == Navigation(tx[t], r)
<1>1. req[r] # "none" /\ Handled(t, Fetched(tx[t], I, {r}))
  BY DEF LookAtRequest
<1>2. tx[t] \in TxType /\ TrackerOK(tx[t]) /\ TrackerMirrors(tx[t]) /\ TypeOK
  BY MirrorBatch DEF Inductive
<1>3. /\ I \in SUBSET Of(r) /\ I \in SUBSET Assignments /\ {r} \in SUBSET Requests
      /\ \A i \in I : tx[t].base[i].status = "untracked"
                         => Live(asg[i]) /\ Tracked(tx[t], r) = {}
      /\ \A i \in Of(r) : Live(asg[i]) => i \in I \/ Tracked(tx[t], r) # {}
  BY DEF Navigation, Tracked, Of
<1> HIDE DEF I
<1>4. TrackerMirrors(Fetched(tx[t], I, {r}))
  BY <1>1, <1>2, <1>3, FetchedMirrors
<1>5. Fetched(tx[t], I, {r}) \in TxType
  BY <1>2, <1>3, FetchedFields
<1> QED
  BY <1>1, <1>4, <1>5, HandledMirrors

LEMMA NewMirrors ==
    ASSUME Inductive, Mirrors, NEW t \in Txs, NEW i \in Assignments,
           Take(t, i) \/ AcceptNew(t, i)
    PROVE  Mirrors'
<1>1. PICK row : /\ row \in Row /\ row.status \in Open \ NotBegun
                 /\ MayAdd(t, i) /\ Handled(t, Added(tx[t], i, row, row.status))
  <2>1. 1 \in 0 .. MaxLock
    BY ConstantsAssumption
  <2>2. CASE Take(t, i)
    <3> DEFINE row == [status |-> "inProgress", lock |-> 1, started |-> TRUE]
    <3>1. row \in Row /\ row.status = "inProgress"
      BY <2>1 DEF Row
    <3> QED
      BY <2>2, <3>1 DEF Take
  <2>3. CASE AcceptNew(t, i)
    <3> DEFINE row == [status |-> "accepted", lock |-> 1, started |-> FALSE]
    <3>1. row \in Row /\ row.status = "accepted"
      BY <2>1 DEF Row
    <3> QED
      BY <2>3, <3>1 DEF AcceptNew
  <2> QED
    BY <2>2, <2>3
<1>2. tx[t] \in TxType /\ TrackerOK(tx[t]) /\ TrackerMirrors(tx[t])
  BY MirrorBatch
<1>3. /\ asg[i].status = "unused" /\ Tracked(tx[t], RequestOf[i]) = {}
      /\ \A j \in Of(RequestOf[i]) : ~Live(asg[j])
  BY <1>1 DEF MayAdd, Navigation
<1>4. Mirror(row) = row.status
  BY <1>1 DEF Mirror
<1>5. /\ Added(tx[t], i, row, Mirror(row)) \in TxType
      /\ TrackerMirrors(Added(tx[t], i, row, Mirror(row)))
  BY <1>1, <1>2, <1>3, AddMirrors
<1> QED
  BY <1>1, <1>4, <1>5, HandledMirrors

\* The dispatcher's requests start with an empty tracker.
LEMMA WebMirrors ==
    ASSUME Inductive, Mirrors, NEW t \in Txs, NEW x \in TxType, TrackerMirrors(x),
           Web(t, x)
    PROVE  Mirrors'
<1> DEFINE y == [x EXCEPT !.phase = "web"]
<1>1. /\ y.base = x.base /\ y.mine = x.mine /\ y.baseReq = x.baseReq
      /\ y.mineReq = x.mineReq /\ y.known = x.known
  BY DEF TxType
<1>2. tx' = [tx EXCEPT ![t] = y] /\ UNCHANGED <<asg, req, again>>
  BY DEF Web
<1> HIDE DEF y
<1> QED
  BY <1>1, <1>2, SameMirrors, MirrorStep

LEMMA WebMoveMirrors ==
    ASSUME Inductive, Mirrors, NEW t \in Txs, NEW i \in Assignments,
           WebStart(t, i) \/ WebCancel(t, i) \/ WebComplete(t, i)
    PROVE  Mirrors'
<1>1. ASSUME NEW s \in Persisted \ NotBegun, NEW row,
             row \in {Moved(asg[i], s), Started(asg[i], s)},
             Live(asg[i]), MayMove(asg[i])
      PROVE  LET c == Changed(FreeTx, i, row, s)
             IN  c \in TxType /\ TrackerMirrors(c)
  <2>1. TypeOK /\ asg[i] \in Row /\ FreeTx \in TxType /\ TrackerOK(FreeTx)
    BY FreeTxOK DEF Inductive, TypeOK
  <2>2. row \in Row /\ row.status = s /\ row.lock = asg[i].lock + 1
    <3>1. /\ Moved(asg[i], s) \in Row
          /\ Moved(asg[i], s).status = s
          /\ Moved(asg[i], s).lock = asg[i].lock + 1
          /\ Started(asg[i], s) \in Row
          /\ Started(asg[i], s).status = s
          /\ Started(asg[i], s).lock = asg[i].lock + 1
      BY <1>1, <2>1, MovedType
    <3> QED
      BY <1>1, <3>1
  <2>3. row # asg[i]
    BY <2>1, <2>2 DEF Row
  <2>4. FreeTx.base[i].status = "untracked" /\ Tracked(FreeTx, RequestOf[i]) = {}
    BY DEF FreeTx, NoRow, Tracked, Of
  <2>5. Mirror(row) = s /\ s \in ReqStatus
    BY <2>2 DEF Mirror, ReqStatus
  <2>6. RequestOf[i] \notin again => req[RequestOf[i]] # "none"
    BY <1>1, MirrorFacts
  <2> HIDE DEF FreeTx
  <2>7. Changed(FreeTx, i, row, s) \in TxType
    BY <2>1, <2>2, <2>5, ChangedFields
  <2>8. TrackerMirrors(Changed(FreeTx, i, row, Mirror(row)))
    BY <1>1, <2>1, <2>2, <2>3, <2>4, <2>5, <2>6, FreeMirrors, ChangeMirrors
  <2> QED
    BY <2>5, <2>7, <2>8
<1>2. CASE WebStart(t, i) \/ WebCancel(t, i)
  <2>1. PICK s \in {"inProgress", "cancelled"}, row \in Row :
           /\ row \in {Moved(asg[i], s), Started(asg[i], s)}
           /\ Live(asg[i]) /\ MayMove(asg[i])
           /\ Web(t, Changed(FreeTx, i, row, s))
    <3>1. asg[i] \in Row
      BY DEF Inductive, TypeOK
    <3>2. MayMove(asg[i]) => /\ Moved(asg[i], "cancelled") \in Row
                             /\ Started(asg[i], "inProgress") \in Row
      BY <3>1, MovedType
    <3> QED
      BY <1>2, <3>2 DEF WebStart, WebCancel, Live
  <2>2. /\ Changed(FreeTx, i, row, s) \in TxType
        /\ TrackerMirrors(Changed(FreeTx, i, row, s))
    BY <1>1, <2>1
  <2> QED
    BY <2>1, <2>2, WebMirrors
<1>3. CASE WebComplete(t, i)
  <2> DEFINE c == Changed(FreeTx, i, Started(asg[i], "completed"), "completed")
             y == [c EXCEPT !.reported = IF reports[i] = 0 THEN {i} ELSE {}]
  <2>1. Live(asg[i]) /\ MayMove(asg[i]) /\ Web(t, y)
    BY <1>3 DEF WebComplete, Live
  <2>2. c \in TxType /\ TrackerMirrors(c)
    BY <1>1, <2>1
  <2> HIDE DEF c
  <2>3. /\ y \in TxType /\ y.base = c.base /\ y.mine = c.mine
        /\ y.baseReq = c.baseReq /\ y.mineReq = c.mineReq /\ y.known = c.known
    BY <2>2 DEF TxType
  <2>4. TrackerMirrors(y)
    BY <2>2, <2>3, SameMirrors
  <2> HIDE DEF y
  <2> QED
    BY <2>1, <2>3, <2>4, WebMirrors
<1> QED
  BY <1>2, <1>3

LEMMA WebAddMirrors ==
    ASSUME Inductive, Mirrors, NEW t \in Txs, NEW i \in Assignments, NEW s \in NotBegun,
           CreateRequest(t, i, s) \/ Assign(t, i, s)
    PROVE  Mirrors'
<1> DEFINE row == [status |-> s, lock |-> 0, started |-> FALSE]
           r == RequestOf[i]
<1>1. row \in Row /\ row.status = s
  BY ConstantsAssumption DEF Row
<1>2. /\ asg[i].status = "unused" /\ Web(t, Added(FreeTx, i, row, "assigned"))
      /\ req[r] = "none" \/ \A j \in Of(r) : ~Live(asg[j])
  BY DEF CreateRequest, Assign, Fresh
<1> HIDE DEF row
<1>3. r \in again \/ \A j \in Of(r) : ~Live(asg[j])
  BY <1>2, MirrorFacts DEF Of
<1>4. FreeTx.known = {} /\ FreeTx \in TxType /\ TrackerOK(FreeTx) /\ Tracked(FreeTx, r) = {}
  BY FreeTxOK DEF FreeTx, NoRow, Tracked, Of
<1>5. Mirror(row) = "assigned"
  BY <1>1 DEF Mirror
<1>6. /\ Added(FreeTx, i, row, Mirror(row)) \in TxType
      /\ TrackerMirrors(Added(FreeTx, i, row, Mirror(row)))
  BY <1>1, <1>2, <1>3, <1>4, FreeMirrors, AddMirrors
<1> QED
  BY <1>2, <1>5, <1>6, WebMirrors

LEMMA OpenMirrors ==
    ASSUME Inductive, Mirrors, NEW t \in Txs, NEW a \in Accounts, OpenBatch(t, a)
    PROVE  Mirrors'
<1> DEFINE K == {i \in Assignments : Live(asg[i])}
           y == [FreeTx EXCEPT !.phase = "batch", !.bound = Bound[a],
                               !.known = K, !.left = BatchLimit]
<1>1. tx[t] = FreeTx
  BY DEF OpenBatch, Inductive, FreeSlots
<1>2. tx' = [tx EXCEPT ![t] = y] /\ UNCHANGED <<asg, req, again>>
  BY <1>1 DEF OpenBatch, Inductive, TypeOK
<1>3. /\ y.base = FreeTx.base /\ y.mine = FreeTx.mine /\ y.baseReq = FreeTx.baseReq
      /\ y.mineReq = FreeTx.mineReq /\ y.known = K
  BY DEF FreeTx
<1>4. ASSUME NEW i \in Assignments PROVE KnownOnce(y, i) /\ RowMirrored(y, i)
  <2>1. /\ y.base[i].status = "untracked" /\ y.mine[i] = y.base[i]
        /\ y.baseReq[RequestOf[i]] = "untracked"
    BY ConstantsAssumption DEF FreeTx, NoRow
  <2>2. i \in K => \A j \in Of(RequestOf[i]) \ {i} : j \notin K
    BY MirrorFacts
  <2> HIDE DEF K, y
  <2> QED
    BY <1>3, <2>1, <2>2 DEF KnownOnce, RowMirrored, Live
<1>5. ASSUME NEW r \in Requests PROVE ReqMirrored(y, r)
  <2>1. y.baseReq[r] = "untracked" /\ y.mineReq[r] = "untracked"
    BY DEF FreeTx
  <2> QED
    BY <2>1 DEF ReqMirrored
<1>6. TrackerMirrors(y)
  BY <1>4, <1>5 DEF TrackerMirrors
<1> HIDE DEF y
<1> QED
  BY <1>2, <1>6, MirrorStep

\* What a commit does to a row it changes, and to the request.
LEMMA DirtySaved ==
    ASSUME Inductive, Mirrors, NEW t \in Txs, Save(t),
           NEW i \in Assignments, tx[t].mine[i] # tx[t].base[i],
           RequestOf[i] \notin again
    PROVE  /\ asg'[i] = tx[t].mine[i]
           /\ asg'[i].status # "unused"
           /\ req'[RequestOf[i]] = Mirror(asg'[i])
           /\ \A j \in Of(RequestOf[i]) \ {i} : asg'[j] = asg[j] /\ ~Live(asg'[j])
<1> DEFINE x == tx[t]
           r == RequestOf[i]
<1>1. /\ x \in TxType /\ TrackerOK(x) /\ TrackerMirrors(x) /\ TypeOK
      /\ r \in Requests /\ ~KeyTaken(x) /\ ~MovedOn(x)
      /\ asg' = Written(x)
      /\ req'[r] = IF x.mineReq[r] # x.baseReq[r] THEN x.mineReq[r] ELSE req[r]
  BY MirrorBatch, MirrorFacts DEF Save, Inductive
<1>2. /\ KnownOnce(x, i) /\ RowMirrored(x, i) /\ ReqMirrored(x, r)
      /\ TrackedRowOK(x, i)
  BY <1>1 DEF TrackerMirrors, TrackerOK
<1>3. x.base[i].status # "untracked" /\ i \in Dirty(x)
  BY <1>1, UntrackedSame DEF Dirty
<1>4. asg'[i] = x.mine[i]
  BY <1>1, <1>3 DEF Written
<1>5. ASSUME NEW j \in Of(r) \ {i}
      PROVE  j \in Assignments /\ j \notin Dirty(x) /\ asg'[j] = asg[j]
  <2>1. j \in Assignments
    BY DEF Of
  <2>2. x.base[j].status = "untracked"
    BY <1>2, <1>3 DEF KnownOnce
  <2>3. j \notin Dirty(x)
    BY <1>1, <2>1, <2>2, UntrackedSame DEF Dirty
  <2> QED
    BY <1>1, <2>1, <2>3 DEF Written
<1>6. x.baseReq[r] # "untracked" /\ x.mineReq[r] = Mirror(x.mine[i])
  BY <1>2 DEF RowMirrored
<1>7. ASSUME NEW old, old = req[r]
      PROVE  (x.mineReq[r] = x.baseReq[r] => old = x.baseReq[r])
                => req'[r] = Mirror(x.mine[i])
  BY <1>1, <1>6, <1>7
<1>8. CASE x.base[i].status = "unused"
  <2>1. asg[i].status = "unused" /\ \A j \in Of(r) \ {i} : ~Live(asg'[j])
    BY <1>1, <1>3, <1>8 DEF KeyTaken
  <2>2. \A j \in Of(r) : ~Live(asg[j])
    BY <1>5, <2>1 DEF Live
  <2>3. x.mine[i].status \in Open
    BY <1>2, <1>8 DEF TrackedRowOK, NoRow, Live
  <2>4. Mirror(x.mine[i]) # "none"
    BY <2>3 DEF Mirror
  <2>5. x.baseReq[r] \in {"none", "assigned"}
    BY <1>2, <1>8 DEF RowMirrored
  <2>6. x.mineReq[r] = x.baseReq[r] => req[r] = x.baseReq[r]
    BY <1>1, <1>2, <1>6, <2>2, <2>4, <2>5, MirrorFacts DEF ReqMirrored
  <2> QED
    BY <1>4, <1>5, <1>7, <2>1, <2>3, <2>6
<1>9. CASE x.base[i].status # "unused"
  <2>1. Live(x.base[i]) /\ Since(x.base[i], asg[i]) /\ Intended(x, i)
    BY <1>2, <1>3, <1>9 DEF TrackedRowOK, NoRow
  <2>2. Live(asg[i]) /\ asg[i].lock = x.base[i].lock
    BY <1>1, <1>3, <2>1 DEF MovedOn
  <2>3. asg[i] = x.base[i]
    <3>1. x.base[i] \in Row
      BY <1>1, <2>1 DEF TxType, NoRow, Live
    <3> QED
      BY <2>1, <2>2, <3>1 DEF Since, NoRow, Live, Row
  <2>4. x.mine[i].status # "unused"
    BY <2>1 DEF Intended, NoRow, Live
  <2>5. req[r] = Mirror(x.base[i])
    BY <2>2, <2>3, MirrorFacts
  <2>6. \/ x.baseReq[r] = Mirror(x.base[i])
        \/ x.baseReq[r] = "assigned" /\ x.mine[i].status = "accepted"
    BY <1>2, <1>6, <2>1, <2>3 DEF RowMirrored
  <2>7. x.mineReq[r] = x.baseReq[r] => req[r] = x.baseReq[r]
    BY <1>6, <2>5, <2>6 DEF Mirror
  <2>8. \A j \in Of(r) \ {i} : ~Live(asg[j])
    BY <2>2, MirrorFacts DEF Of
  <2> QED
    BY <1>4, <1>5, <1>7, <2>4, <2>7, <2>8
<1> QED
  BY <1>8, <1>9

LEMMA CleanSaved ==
    ASSUME Inductive, Mirrors, NEW t \in Txs, Save(t), NEW r \in Requests \ again,
           \A i \in Of(r) : tx[t].mine[i] = tx[t].base[i]
    PROVE  req'[r] = req[r] /\ \A i \in Of(r) : asg'[i] = asg[i]
<1>1. ReqMirrored(tx[t], r)
  BY DEF Mirrors, TrackerMirrors
<1>2. tx[t].mineReq[r] = tx[t].baseReq[r]
  BY <1>1 DEF ReqMirrored
<1> QED
  BY <1>2 DEF Save, Written, Dirty, Of

LEMMA TablesMirror ==
    ASSUME Inductive, Mirrors, NEW t \in Txs, Save(t)
    PROVE  /\ RequestMirrors' /\ ReleasedIsAvailable'
           /\ \A r \in Requests \ again : req[r] # "none" => req'[r] # "none"
           /\ again' = again
<1>1. ASSUME NEW i \in Assignments, Live(asg'[i]), RequestOf[i] \notin again
      PROVE  req'[RequestOf[i]] = Mirror(asg'[i])
  <2>1. RequestOf[i] \in Requests /\ i \in Of(RequestOf[i])
    BY MirrorFacts
  <2>2. CASE \A j \in Of(RequestOf[i]) : tx[t].mine[j] = tx[t].base[j]
    BY <1>1, <2>1, <2>2, CleanSaved, MirrorFacts
  <2>3. ASSUME NEW j \in Of(RequestOf[i]), tx[t].mine[j] # tx[t].base[j]
        PROVE  req'[RequestOf[i]] = Mirror(asg'[i])
    <3>1. j \in Assignments /\ RequestOf[j] = RequestOf[i]
      BY DEF Of
    <3>2. j = i
      BY <1>1, <2>1, <2>3, <3>1, DirtySaved
    <3> QED
      BY <1>1, <2>3, <3>2, DirtySaved
  <2> QED
    BY <2>2, <2>3
<1>2. ASSUME NEW r \in Requests \ again, req'[r] # "none", \A i \in Of(r) : ~Live(asg'[i])
      PROVE  req'[r] = "assigned"
  <2>1. CASE \A j \in Of(r) : tx[t].mine[j] = tx[t].base[j]
    BY <1>2, <2>1, CleanSaved, MirrorFacts
  <2>2. ASSUME NEW j \in Of(r), tx[t].mine[j] # tx[t].base[j]
        PROVE  req'[r] = "assigned"
    <3>1. j \in Assignments /\ RequestOf[j] = r
      BY DEF Of
    <3>2. asg'[j] \in Row /\ asg'[j].status # "unused" /\ req'[r] = Mirror(asg'[j])
      BY <2>2, <3>1, DirtySaved, SavedRows
    <3> QED
      BY <1>2, <3>2 DEF Row, Live, Mirror
  <2> QED
    BY <2>1, <2>2
<1>3. ASSUME NEW r \in Requests \ again, req[r] # "none" PROVE req'[r] # "none"
  <2>1. CASE \A j \in Of(r) : tx[t].mine[j] = tx[t].base[j]
    BY <1>3, <2>1, CleanSaved
  <2>2. ASSUME NEW j \in Of(r), tx[t].mine[j] # tx[t].base[j] PROVE req'[r] # "none"
    <3>1. j \in Assignments /\ RequestOf[j] = r
      BY DEF Of
    <3>2. asg'[j] \in Row /\ req'[r] = Mirror(asg'[j])
      BY <2>2, <3>1, DirtySaved, SavedRows
    <3> QED
      BY <3>2 DEF Row, Mirror
  <2> QED
    BY <2>1, <2>2
<1>4. again' = again
  BY DEF Save
<1>5. RequestMirrors'
  BY <1>1, <1>4 DEF RequestMirrors, Mirror, Live
<1>6. ReleasedIsAvailable'
  BY <1>2, <1>4 DEF ReleasedIsAvailable, LiveOf, Of
<1> QED
  BY <1>3, <1>4, <1>5, <1>6

\* A commit leaves the trackers of others as good as they were.
LEMMA OthersMirror ==
    ASSUME Inductive, Mirrors, NEW t \in Txs, Save(t),
           NEW y \in TxType, TrackerOK(y), TrackerMirrors(y)
    PROVE  TrackerMirrors(y)'
<1>1. ASSUME NEW i \in Assignments, asg[i].status # "unused", Live(asg'[i])
      PROVE  Live(asg[i])
  <2>1. RowSaved(tx[t], i)
    BY SavedRows
  <2> QED
    BY <1>1, <2>1 DEF RowSaved, NoRow, Live
<1>2. \A i \in y.known : i \in Assignments /\ asg[i].status # "unused"
  BY DEF TrackerOK, TxType
<1>3. ASSUME NEW i \in Assignments, Live(y.base[i]), asg'[i] = y.base[i]
      PROVE  asg[i] = y.base[i]
  <2>1. Since(y.base[i], asg[i]) /\ y.base[i] \in Row /\ asg[i] \in Row
    <3>1. TrackedRowOK(y, i) /\ asg[i] \in Row
      BY DEF TrackerOK, Inductive, TypeOK
    <3>2. y.base[i] \in Row
      BY <1>3 DEF TxType, NoRow, Live
    <3> QED
      BY <1>3, <3>1, <3>2 DEF TrackedRowOK, NoRow, Live
  <2>2. RowSaved(tx[t], i)
    BY SavedRows
  <2>3. asg[i] # NoRow("removed")
    BY <1>1, <1>3 DEF NoRow, Live
  <2>4. asg[i] = y.base[i] \/ (Live(asg[i]) /\ asg[i].lock > y.base[i].lock)
    BY <2>1, <2>3 DEF Since
  <2>5. CASE Live(asg[i]) /\ asg[i].lock > y.base[i].lock
    <3>1. asg'[i] = asg[i] \/ asg'[i].lock > asg[i].lock
      BY <1>3, <2>2, <2>5 DEF RowSaved, NoRow, Live
    <3>2. asg'[i].lock > y.base[i].lock
      BY <1>3, <2>1, <2>5, <3>1 DEF Row
    <3> QED
      BY <1>3, <2>1, <3>2 DEF Row
  <2> QED
    BY <2>4, <2>5
<1>4. ASSUME NEW i \in Assignments PROVE KnownOnce(y, i)'
  <2>1. KnownOnce(y, i)
    BY DEF TrackerMirrors
  <2>2. \A j \in Of(RequestOf[i]) : j \in y.known /\ ~Live(asg[j]) => ~Live(asg'[j])
    BY <1>1, <1>2
  <2>3. i \in y.known /\ Live(asg'[i]) => Live(asg[i])
    BY <1>1, <1>2
  <2> QED
    BY <2>1, <2>2, <2>3 DEF KnownOnce, Of, Live
<1>5. ASSUME NEW i \in Assignments, RequestOf[i] \notin again PROVE RowMirrored(y, i)'
  <2>1. RowMirrored(y, i)
    BY <1>5 DEF TrackerMirrors
  <2> QED
    BY <1>3, <2>1 DEF RowMirrored, Live, Mirror
<1>6. ASSUME NEW r \in Requests \ again PROVE ReqMirrored(y, r)'
  <2>1. ReqMirrored(y, r)
    BY DEF TrackerMirrors
  <2> QED
    BY <2>1, TablesMirror DEF ReqMirrored, Tracked, Of
<1> QED
  BY <1>4, <1>5, <1>6, TablesMirror DEF TrackerMirrors

\* A command of a returned assignment touches its request only.
LEMMA AfterReturnMirrors ==
    ASSUME Inductive, Mirrors, NEW t \in Txs, NEW i \in Assignments, NEW s \in Open,
           AfterReturn(t, i, s)
    PROVE  Mirrors'
<1> DEFINE x == tx[t]
           r == RequestOf[i]
           c == Changed(x, i, x.mine[i], s)
           y == [c EXCEPT !.left = @ - 1]
<1>1. /\ x \in TxType /\ TrackerMirrors(x) /\ TypeOK /\ TrackedRowOK(x, i)
      /\ r \in Requests /\ s \in ReqStatus
  BY MirrorBatch, MirrorFacts DEF Inductive, TrackerOK, ReqStatus
<1>2. /\ x.mine[i].status = "removed"
      /\ tx' = [tx EXCEPT ![t] = y]
      /\ UNCHANGED <<asg, req>>
      /\ again' = again \cup {r}
  BY DEF AfterReturn
<1>3. x.mine[i] \in Row /\ x.base[i].status # "untracked"
  BY <1>1, <1>2 DEF TrackedRowOK, TxType, NoRow, Live
<1>4. /\ c \in TxType /\ c.known = x.known
      /\ \A j \in Assignments : c.base[j] = x.base[j] /\ c.mine[j] = x.mine[j]
      /\ \A q \in Requests \ {r} :
            c.baseReq[q] = x.baseReq[q] /\ c.mineReq[q] = x.mineReq[q]
  <2> DEFINE row == x.mine[i]
  <2>1. x.mine[i] = row
    OBVIOUS
  <2> HIDE DEF x, row
  <2> QED
    BY <1>1, <1>3, <2>1, ChangedFields
<1> HIDE DEF c
<1>5. /\ y.known = x.known /\ y.base = c.base /\ y.mine = c.mine
      /\ y.baseReq = c.baseReq /\ y.mineReq = c.mineReq
  BY <1>4 DEF TxType
<1> HIDE DEF y
<1>6. ASSUME NEW j \in Assignments PROVE KnownOnce(y, j)
  <2>1. KnownOnce(x, j) /\ KnownOnce(x, i)
    BY <1>1 DEF TrackerMirrors
  <2>2. CASE RequestOf[j] = r
    <3>1. j # i => (j \in x.known => ~Live(asg[j]))
      BY <1>3, <2>1, <2>2 DEF KnownOnce, Of
    <3> QED
      BY <1>3, <1>4, <1>5, <2>1, <2>2, <3>1 DEF KnownOnce, Of
  <2>3. CASE RequestOf[j] # r
    <3>1. RequestOf[j] \in Requests \ {r}
      BY <2>3, ConstantsAssumption
    <3> QED
      BY <1>4, <1>5, <2>1, <3>1 DEF KnownOnce, Of
  <2> QED
    BY <2>2, <2>3
<1>7. ASSUME NEW j \in Assignments, RequestOf[j] \notin again'
      PROVE  RowMirrored(y, j)
  <2>1. RequestOf[j] \in Requests \ {r} /\ RequestOf[j] \notin again
    BY <1>2, <1>7, ConstantsAssumption
  <2>2. RowMirrored(x, j)
    BY <1>1, <2>1 DEF TrackerMirrors
  <2> QED
    BY <1>4, <1>5, <2>1, <2>2 DEF RowMirrored
<1>8. ASSUME NEW q \in Requests \ again' PROVE ReqMirrored(y, q)
  <2>1. q \in Requests \ {r} /\ q \in Requests \ again
    BY <1>2
  <2>2. ReqMirrored(x, q)
    BY <1>1, <2>1 DEF TrackerMirrors
  <2> QED
    BY <1>4, <1>5, <2>1, <2>2 DEF ReqMirrored, Tracked, Of
<1>9. ASSUME NEW u \in Txs PROVE TrackerMirrors(tx[u])'
  <2>1. PICK z : /\ z = tx'[u]
                 /\ \A j \in Assignments : KnownOnce(z, j)
                 /\ \A j \in Assignments :
                       RequestOf[j] \notin again' => RowMirrored(z, j)
                 /\ \A q \in Requests \ again' : ReqMirrored(z, q)
    <3>1. CASE u = t
      BY <1>1, <1>2, <1>6, <1>7, <1>8, <3>1 DEF TypeOK
    <3>2. CASE u # t
      BY <1>1, <1>2, <3>2 DEF TypeOK, Mirrors, TrackerMirrors
    <3> QED
      BY <3>1, <3>2
  <2> QED
    BY <1>2, <2>1
       DEF TrackerMirrors, KnownOnce, RowMirrored, ReqMirrored, Tracked, Of, Live
<1> QED
  BY <1>2, <1>9 DEF Mirrors, RequestMirrors, ReleasedIsAvailable, LiveOf, Of, Live

LEMMA SaveMirrors ==
    ASSUME Inductive, Mirrors, NEW t \in Txs, Save(t)
    PROVE  Mirrors'
<1>1. ASSUME NEW u \in Txs PROVE TrackerMirrors(tx[u])'
  <2> PICK y \in TxType : y = tx'[u] /\ TrackerOK(y) /\ TrackerMirrors(y)
    BY FreeTxOK, FreeMirrors, MirrorBatch DEF Save, Inductive, TypeOK
  <2>1. TrackerMirrors(y)'
    BY OthersMirror
  <2> QED
    BY <2>1 DEF TrackerMirrors, KnownOnce, RowMirrored, ReqMirrored, Tracked, Of, Live
<1> QED
  BY <1>1, TablesMirror DEF Mirrors

LEMMA MirrorsInductive ==
    ASSUME Inductive, Mirrors, [Next]_vars
    PROVE  Mirrors'
<1>1. ASSUME NEW t \in Txs, Phone(t) PROVE Mirrors'
  BY <1>1, OpenMirrors, LookRequestMirrors, LookMirrors, NewMirrors, MovesMirror,
     AfterReturnMirrors, ReleaseMirrors, ReportMirrors DEF Phone
<1>2. ASSUME NEW t \in Txs, Dispatcher(t) PROVE Mirrors'
  BY <1>2, WebAddMirrors, WebMoveMirrors DEF Dispatcher
<1>3. ASSUME NEW t \in Txs, Save(t) PROVE Mirrors'
  BY <1>3, SaveMirrors
<1>4. ASSUME NEW t \in Txs, Abort(t) PROVE Mirrors'
  BY <1>4, FreeMirrors, MirrorStep DEF Abort
<1>5. CASE UNCHANGED vars
  BY <1>5 DEF vars, Mirrors, RequestMirrors, ReleasedIsAvailable, LiveOf,
     TrackerMirrors, KnownOnce, RowMirrored, ReqMirrored, Tracked, Of, Live
<1> QED
  BY <1>1, <1>2, <1>3, <1>4, <1>5 DEF Next

LEMMA MirrorsAlways == Spec => []Mirrors
<1>1. Init => Mirrors
  <2> SUFFICES ASSUME Init PROVE Mirrors
    OBVIOUS
  <2>1. RequestMirrors /\ ReleasedIsAvailable
    BY DEF Init, RequestMirrors, ReleasedIsAvailable, NoRow, Live
  <2> QED
    BY <2>1, FreeMirrors DEF Init, Mirrors
<1>2. Inductive /\ Mirrors /\ [Next]_vars => Mirrors'
  BY MirrorsInductive
<1> QED
  BY <1>1, <1>2, InductiveCorrect, PTL DEF Spec

\* A request says in every state what its assignment says, unless some batch
\* has named an assignment of this very request after returning it: the two
\* status columns of patrol_requests and assignments, which the handlers of
\* SaveOutbox and EfPatrolStore write from what they have read at different
\* times and of which only one has a concurrency token, never drift apart.
THEOREM RequestsMirror == Spec => []RequestMirrors
<1>1. Mirrors => RequestMirrors
  BY DEF Mirrors
<1> QED
  BY <1>1, MirrorsAlways, PTL

\* ... and a request whose patrol was returned can be taken again, whoever else
\* was taking or changing it meanwhile (docs/patrol-status-lifecycle.md,
\* "accepted -> release -> assigned"), with the same exception.
THEOREM ReleasedAgain == Spec => []ReleasedIsAvailable
<1>1. Mirrors => ReleasedIsAvailable
  BY DEF Mirrors
<1> QED
  BY <1>1, MirrorsAlways, PTL
=============================================================================
