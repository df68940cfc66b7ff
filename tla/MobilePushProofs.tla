--------------------------- MODULE MobilePushProofs ---------------------------
(***************************************************************************)
(* Theorems about MobilePush: types and the limit on pushes for any number *)
(* of notifications, workers and deaths, however slow a worker is; and     *)
(* that no notification is left behind but one whose claim a worker that   *)
(* is still at it has lost.                                                *)
(***************************************************************************)
EXTENDS MobilePush, FiniteSetTheorems, TLAPS

-----------------------------------------------------------------------------
(* The inductive invariants *)

Steps == {"idle", "released", "claimed", "sending", "answered", "threw", "down"}

Types ==
    /\ row \in [Notes -> Rows]
    /\ step \in [Workers -> Steps]
    /\ batch \in [Workers -> SUBSET Notes]
    /\ loaded \in [Workers -> [Notes -> Rows]]
    /\ pushed \in [Notes -> Nat]
    /\ deaths \in 0..MaxDeaths
    /\ outlived \subseteq Notes

\* A worker has something to send exactly while it is at it.
BatchesMatch ==
    \A w \in Workers : step[w] \in {"idle", "released", "down"} <=> batch[w] = {}

\* The workers that have claimed n and not yet sent it.
Owing(n) ==
    {w \in Workers : /\ n \in batch[w]
                     /\ step[w] \in {"answered", "threw"} => n # Sending(w)}

\* A claim that is still to be sent has been counted as an attempt already.
ClaimsAreCounted ==
    \A n \in Notes : pushed[n] + Cardinality(Owing(n)) <= row[n].attempts

Counted == Types /\ BatchesMatch /\ ClaimsAreCounted

-----------------------------------------------------------------------------
(* Sets of numbers *)

\* What CHOOSE of the smallest relies on.
LEMMA LeastElement ==
    ASSUME NEW S \in SUBSET Nat, S # {}
    PROVE  \E n \in S : \A m \in S : n <= m
<1> DEFINE Below(n) == {m \in S : m <= n}
           T == {Below(n) : n \in S}
<1>1. T \subseteq FiniteSubsetsOf(Nat)
  <2> SUFFICES ASSUME NEW n \in S PROVE Below(n) \in FiniteSubsetsOf(Nat)
    OBVIOUS
  <2>1. Below(n) \in SUBSET Nat /\ n \in Nat /\ \A m \in Below(n) : m <= n
    OBVIOUS
  <2>2. IsFiniteSet(Below(n))
    <3> HIDE DEF Below
    <3> QED BY <2>1, FS_BoundedSetOfNaturals
  <2> QED
    BY <2>1, <2>2 DEF FiniteSubsetsOf
<1>2. IsWellFoundedOn(StrictSubsetOrdering(Nat), FiniteSubsetsOf(Nat))
  BY FS_StrictSubsetOrderingWellFounded
<1>3. T # {}
  OBVIOUS
<1>4. \E U \in T : \A V \in T : <<V, U>> \notin StrictSubsetOrdering(Nat)
  <2> HIDE DEF T
  <2> QED BY <1>1, <1>2, <1>3, WFMin
<1>5. PICK n \in S : \A m \in S : <<Below(m), Below(n)>> \notin StrictSubsetOrdering(Nat)
  BY <1>4
<1>6. ASSUME NEW m \in S, m < n PROVE FALSE
  <2>0. S \subseteq Nat /\ m \in Nat /\ n \in Nat
    OBVIOUS
  <2>1. Below(m) \subseteq Below(n) /\ n \in Below(n) /\ n \notin Below(m)
    <3>1. \A k \in S : k <= m => k <= n
      BY <1>6, <2>0
    <3>2. n <= n /\ ~(n <= m)
      BY <1>6, <2>0
    <3> QED
      BY <3>1, <3>2
  <2>2. Below(m) \in SUBSET Nat /\ Below(n) \in SUBSET Nat
    OBVIOUS
  <2>3. <<Below(m), Below(n)>> \in StrictSubsetOrdering(Nat)
    <3> HIDE DEF Below
    <3> QED BY <2>1, <2>2 DEF StrictSubsetOrdering
  <2> QED
    BY <2>3, <1>5
<1> QED
  BY <1>6

LEMMA SendingIsInBatch ==
    ASSUME Types, NEW w \in Workers, batch[w] # {}
    PROVE  Sending(w) \in batch[w]
<1>1. batch[w] \in SUBSET Nat
  BY NotesAssumption DEF Types
<1>2. \E n \in batch[w] : \A m \in batch[w] : n <= m
  BY <1>1, LeastElement
<1> QED
  BY <1>2 DEF Sending

\* A claim takes nothing it may not take, and something if there is anything.
LEMMA OldestOfSome ==
    ASSUME NEW S \in SUBSET Notes
    PROVE  Oldest(S) \subseteq S /\ (Oldest(S) = {} <=> S = {})
<1>1. ASSUME S # {} PROVE Oldest(S) # {}
  <2>1. PICK n \in S : \A m \in S : n <= m
    BY <1>1, LeastElement, NotesAssumption
  <2>2. {m \in S : m < n} = {}
    <3>1. \A m \in S : m \in Nat /\ n \in Nat
      BY NotesAssumption
    <3>2. \A m \in S : ~(m < n)
      BY <2>1, <3>1
    <3> QED
      BY <3>2
  <2>3. Cardinality({m \in S : m < n}) < BatchSize
    BY <2>2, FS_EmptySet, LimitsAssumption
  <2> QED
    BY <2>3 DEF Oldest
<1> QED
  BY <1>1 DEF Oldest

-----------------------------------------------------------------------------
(* Types *)

\* Whatever is released, claimed or saved is a row again, and an attempt that
\* was counted stays counted.
LEMMA ReleasedRow ==
    ASSUME Types, NEW n \in Notes
    PROVE  Released(n) \in Rows /\ Released(n).attempts = row[n].attempts
<1>1. row[n] \in Rows /\ RetryOrFail(row[n].attempts) \in Statuses
  BY DEF Types, RetryOrFail, Statuses
<1> QED
  BY <1>1 DEF Released, Unclaimed, Rows, Ages

LEMMA SavedRow ==
    ASSUME Types, NEW w \in Workers, NEW n \in Notes
    PROVE  Saved(w, n) \in Rows /\ Saved(w, n).attempts = row[n].attempts
<1> DEFINE status == IF step[w] = "answered" THEN "sent" ELSE RetryOrFail(loaded[w][n].attempts)
<1>1. row[n] \in Rows /\ status \in Statuses
  BY DEF Types, RetryOrFail, Statuses
<1>2. Saved(w, n) = Written(row[n], loaded[w][n], status)
  BY DEF Saved
<1> HIDE DEF status
<1> QED
  BY <1>1, <1>2 DEF Written, Rows, Ages

LEMMA ClaimedRow ==
    ASSUME Types, NEW n \in Claimable
    PROVE  [status |-> "sending", attempts |-> row[n].attempts + 1, claimed |-> "fresh"] \in Rows
<1>1. row[n] \in Rows /\ row[n].attempts < MaxAttempts
  BY DEF Types, Claimable
<1> QED
  BY <1>1, LimitsAssumption DEF Rows, Statuses, Ages

LEMMA AbsentRow == Absent \in Rows
BY LimitsAssumption DEF Absent, Rows, Statuses, Ages

LEMMA TypesStep ==
    ASSUME Types, BatchesMatch, [Next]_vars
    PROVE  Types'
<1> USE DEF Types, Steps
<1>1. ASSUME NEW n \in Notes, Notify(n) PROVE Types'
  <2>1. PICK status \in {"queued", "waitingSync"} : row' = [row EXCEPT ![n].status = status]
    BY <1>1 DEF Notify
  <2>2. row[n] \in Rows /\ row' = [row EXCEPT ![n] = [row[n] EXCEPT !.status = status]]
    BY <2>1
  <2>3. [row[n] EXCEPT !.status = status] \in Rows
    BY <2>2 DEF Rows, Statuses
  <2> QED
    BY <1>1, <2>2, <2>3 DEF Notify
<1>2. ASSUME NEW n \in Notes, Age(n) PROVE Types'
  <2>1. row[n] \in Rows /\ row' = [row EXCEPT ![n] = [row[n] EXCEPT !.claimed = "stale"]]
    BY <1>2 DEF Age
  <2>2. [row[n] EXCEPT !.claimed = "stale"] \in Rows
    BY <2>1 DEF Rows, Ages
  <2> QED
    BY <1>2, <2>1, <2>2 DEF Age
<1>3. ASSUME NEW w \in Workers, ReleaseStaleSending(w) PROVE Types'
  BY <1>3, ReleasedRow DEF ReleaseStaleSending
<1>4. ASSUME NEW w \in Workers, ClaimQueued(w) PROVE Types'
  <2>1. Oldest(Claimable) \subseteq Claimable /\ Claimable \subseteq Notes
    BY OldestOfSome DEF Claimable
  <2>2. row' \in [Notes -> Rows]
    BY <1>4, <2>1, ClaimedRow DEF ClaimQueued
  <2> QED
    BY <1>4, <2>1, <2>2 DEF ClaimQueued
<1>5. ASSUME NEW w \in Workers, Load(w) PROVE Types'
  BY <1>5, AbsentRow DEF Load
<1>6. ASSUME NEW w \in Workers, Send(w) PROVE Types'
  <2>1. Sending(w) \in Notes
    BY <1>6, SendingIsInBatch DEF Send, BatchesMatch
  <2> QED
    BY <1>6, <2>1 DEF Send
<1>7. ASSUME NEW w \in Workers, SaveOutcome(w) PROVE Types'
  <2>1. Sending(w) \in Notes
    BY <1>7, SendingIsInBatch DEF SaveOutcome, BatchesMatch
  <2>2. Saved(w, Sending(w)) \in Rows
    BY <2>1, SavedRow
  <2> QED
    BY <1>7, <2>1, <2>2, AbsentRow DEF SaveOutcome
<1>8. ASSUME NEW w \in Workers, Die(w) PROVE Types'
  BY <1>8, AbsentRow, BoundsAssumption DEF Die
<1>9. ASSUME NEW w \in Workers, Restart(w) PROVE Types'
  BY <1>9 DEF Restart
<1>11. ASSUME NEW a, RegisterPushToken(a) PROVE Types'
  <2>1. ASSUME NEW n \in Notes PROVE row'[n] \in Rows
    <3>1. row[n] \in Rows /\ row'[n] \in {row[n], [row[n] EXCEPT !.status = "queued"]}
      BY <1>11 DEF RegisterPushToken
    <3>2. [row[n] EXCEPT !.status = "queued"] \in Rows
      BY <3>1 DEF Rows, Statuses
    <3> QED
      BY <3>1, <3>2
  <2> QED
    BY <1>11, <2>1 DEF RegisterPushToken
<1>10. CASE UNCHANGED vars
  BY <1>10 DEF vars
<1> QED
  BY <1>1, <1>2, <1>3, <1>4, <1>5, <1>6, <1>7, <1>8, <1>9, <1>10, <1>11 DEF Next, Work

LEMMA BatchesStep ==
    ASSUME Types, BatchesMatch, [Next]_vars
    PROVE  BatchesMatch'
<1> USE DEF Types, Steps, BatchesMatch
<1>1. ASSUME NEW n \in Notes, Notify(n) \/ RegisterPushToken(AccountOf[n]) \/ Age(n)
      PROVE  BatchesMatch'
  BY <1>1 DEF Notify, RegisterPushToken, Age
<1>2. ASSUME NEW w \in Workers, ReleaseStaleSending(w) PROVE BatchesMatch'
  BY <1>2 DEF ReleaseStaleSending
<1>3. ASSUME NEW w \in Workers, ClaimQueued(w) PROVE BatchesMatch'
  <2>1. Oldest(Claimable) = {} <=> Claimable = {}
    BY OldestOfSome DEF Claimable
  <2> QED
    BY <1>3, <2>1 DEF ClaimQueued
<1>4. ASSUME NEW w \in Workers, Load(w) \/ Send(w) PROVE BatchesMatch'
  BY <1>4 DEF Load, Send
<1>5. ASSUME NEW w \in Workers, SaveOutcome(w) PROVE BatchesMatch'
  <2>1. Sending(w) \in batch[w]
    BY <1>5, SendingIsInBatch DEF SaveOutcome
  <2>2. batch[w] \ {Sending(w)} = {} <=> batch[w] = {Sending(w)}
    BY <2>1
  <2> QED
    BY <1>5, <2>2 DEF SaveOutcome
<1>6. ASSUME NEW w \in Workers, Die(w) \/ Restart(w) PROVE BatchesMatch'
  BY <1>6 DEF Die, Restart
<1>7. CASE UNCHANGED vars
  BY <1>7 DEF vars
<1> QED
  BY <1>1, <1>2, <1>3, <1>4, <1>5, <1>6, <1>7 DEF Next, Work

-----------------------------------------------------------------------------
(* The count of attempts *)

LEMMA OwingIsFinite ==
    ASSUME NEW n \in Notes
    PROVE  IsFiniteSet(Owing(n)) /\ Cardinality(Owing(n)) \in Nat
<1>1. Owing(n) \in SUBSET Workers
  BY DEF Owing
<1> QED
  BY <1>1, WorkersAssumption, FS_Subset, FS_CardinalityType

\* Fewer owe, and neither pushes nor attempts change.
LEMMA FewerOwe ==
    ASSUME Counted, Types', pushed' = pushed,
           \A n \in Notes : row'[n].attempts = row[n].attempts,
           \A n \in Notes : Owing(n)' \subseteq Owing(n)
    PROVE  ClaimsAreCounted'
<1> SUFFICES ASSUME NEW n \in Notes
             PROVE  pushed'[n] + Cardinality(Owing(n)') <= row'[n].attempts
  BY DEF ClaimsAreCounted
<1>1. /\ IsFiniteSet(Owing(n)) /\ Cardinality(Owing(n)) \in Nat
      /\ Cardinality(Owing(n)') \in Nat /\ Cardinality(Owing(n)') <= Cardinality(Owing(n))
  BY OwingIsFinite, FS_Subset, FS_CardinalityType
<1>2. pushed[n] + Cardinality(Owing(n)) <= row[n].attempts
  BY DEF Counted, ClaimsAreCounted
<1>3. pushed[n] \in Nat /\ row[n].attempts \in Nat
  BY LimitsAssumption DEF Counted, Types, Rows
<1> QED
  BY <1>1, <1>2, <1>3

LEMMA CountedStep ==
    ASSUME Counted, [Next]_vars
    PROVE  Counted'
<1>0. Types /\ BatchesMatch /\ ClaimsAreCounted /\ Types' /\ BatchesMatch'
  BY TypesStep, BatchesStep DEF Counted
<1> SUFFICES ClaimsAreCounted'
  BY <1>0 DEF Counted
<1>1. ASSUME NEW n \in Notes, Notify(n) \/ RegisterPushToken(AccountOf[n]) \/ Age(n)
      PROVE  ClaimsAreCounted'
  <2>1. \A m \in Notes : row'[m].attempts = row[m].attempts
    <3>1. row \in [Notes -> Rows]
      BY <1>0 DEF Types
    <3>2. CASE Notify(n)
      BY <3>1, <3>2 DEF Notify, Rows
    <3>3. CASE Age(n)
      BY <3>1, <3>3 DEF Age, Rows
    <3>4. CASE RegisterPushToken(AccountOf[n])
      BY <3>1, <3>4 DEF RegisterPushToken, Rows
    <3> QED
      BY <1>1, <3>2, <3>3, <3>4
  <2>2. \A m \in Notes : Owing(m)' = Owing(m)
    BY <1>1 DEF Notify, RegisterPushToken, Age, Owing, Sending
  <2> QED
    BY <1>0, <1>1, <2>1, <2>2, FewerOwe DEF Notify, RegisterPushToken, Age
<1>2. ASSUME NEW w \in Workers, ReleaseStaleSending(w) PROVE ClaimsAreCounted'
  <2>1. \A m \in Notes : row'[m].attempts = row[m].attempts
    BY <1>0, <1>2, ReleasedRow DEF ReleaseStaleSending
  <2>2. \A m \in Notes : Owing(m)' \subseteq Owing(m)
    BY <1>0, <1>2 DEF ReleaseStaleSending, Owing, Sending, BatchesMatch, Types
  <2> QED
    BY <1>0, <1>2, <2>1, <2>2, FewerOwe DEF ReleaseStaleSending
<1>3. ASSUME NEW w \in Workers, ClaimQueued(w) PROVE ClaimsAreCounted'
  <2> SUFFICES ASSUME NEW n \in Notes
               PROVE  pushed'[n] + Cardinality(Owing(n)') <= row'[n].attempts
    BY DEF ClaimsAreCounted
  <2>1. Oldest(Claimable) \subseteq Notes
    BY OldestOfSome DEF Claimable
  <2>2. /\ pushed[n] \in Nat /\ row[n].attempts \in Nat /\ pushed' = pushed
        /\ IsFiniteSet(Owing(n)) /\ Cardinality(Owing(n)) \in Nat
        /\ pushed[n] + Cardinality(Owing(n)) <= row[n].attempts
    BY <1>0, <1>3, OwingIsFinite, LimitsAssumption DEF Types, Rows, ClaimsAreCounted, ClaimQueued
  <2>3. CASE n \in Oldest(Claimable)
    <3>1. row'[n].attempts = row[n].attempts + 1
      BY <1>3, <2>3 DEF ClaimQueued
    <3>2. Owing(n)' = Owing(n) \cup {w}
      BY <1>0, <1>3, <2>3 DEF ClaimQueued, Owing, Sending, BatchesMatch, Types, Steps
    <3>3. Cardinality(Owing(n) \cup {w}) =
             IF w \in Owing(n) THEN Cardinality(Owing(n)) ELSE Cardinality(Owing(n)) + 1
      BY <2>2, FS_AddElement
    <3>4. Cardinality(Owing(n)') = Cardinality(Owing(n) \cup {w})
      BY <3>2
    <3> HIDE DEF Owing
    <3> QED
      BY <2>2, <3>1, <3>3, <3>4
  <2>4. CASE n \notin Oldest(Claimable)
    <3>1. row'[n].attempts = row[n].attempts
      BY <1>3, <2>4 DEF ClaimQueued
    <3>2. Owing(n)' = Owing(n)
      BY <1>0, <1>3, <2>4 DEF ClaimQueued, Owing, Sending, BatchesMatch, Types, Steps
    <3> QED
      BY <2>2, <3>1, <3>2
  <2> QED
    BY <2>3, <2>4
<1>4. ASSUME NEW w \in Workers, Load(w) PROVE ClaimsAreCounted'
  <2>1. \A m \in Notes : Owing(m)' \subseteq Owing(m)
    BY <1>0, <1>4 DEF Load, Owing, Sending, Types
  <2> QED
    BY <1>0, <1>4, <2>1, FewerOwe DEF Load
<1>5. ASSUME NEW w \in Workers, Send(w) PROVE ClaimsAreCounted'
  <2> SUFFICES ASSUME NEW n \in Notes
               PROVE  pushed'[n] + Cardinality(Owing(n)') <= row'[n].attempts
    BY DEF ClaimsAreCounted
  <2>1. Sending(w) \in batch[w] /\ Sending(w)' = Sending(w) /\ Sending(w) \in Notes
    BY <1>0, <1>5, SendingIsInBatch DEF Send, BatchesMatch, Sending, Types
  <2>2. /\ pushed[n] \in Nat /\ row[n].attempts \in Nat /\ row' = row
        /\ IsFiniteSet(Owing(n)) /\ Cardinality(Owing(n)) \in Nat
        /\ pushed[n] + Cardinality(Owing(n)) <= row[n].attempts
    BY <1>0, <1>5, OwingIsFinite, LimitsAssumption DEF Types, Rows, ClaimsAreCounted, Send
  <2>3. CASE n = Sending(w)
    <3>1. w \in Owing(n)
      BY <1>5, <2>1, <2>3 DEF Owing, Send
    <3>2. Owing(n)' = Owing(n) \ {w}
      BY <1>0, <1>5, <2>1, <2>3 DEF Owing, Send, Sending, Types
    <3>3. Cardinality(Owing(n)') = Cardinality(Owing(n)) - 1
      BY <2>2, <3>1, <3>2, FS_RemoveElement
    <3>4. pushed'[n] \in Nat /\ pushed'[n] <= pushed[n] + 1
      BY <1>0, <1>5, <2>2, <2>3 DEF Send, Types
    <3> QED
      BY <2>2, <3>3, <3>4
  <2>4. CASE n # Sending(w)
    <3>1. Owing(n)' = Owing(n)
      BY <1>0, <1>5, <2>1, <2>4 DEF Owing, Send, Sending, Types
    <3>2. pushed'[n] = pushed[n]
      BY <1>0, <1>5, <2>4 DEF Send, Types
    <3> QED
      BY <2>2, <3>1, <3>2
  <2> QED
    BY <2>3, <2>4
<1>6. ASSUME NEW w \in Workers, SaveOutcome(w) PROVE ClaimsAreCounted'
  <2>1. Sending(w) \in batch[w] /\ Sending(w) \in Notes
    BY <1>0, <1>6, SendingIsInBatch DEF SaveOutcome, BatchesMatch, Types
  <2>2. \A m \in Notes : row'[m].attempts = row[m].attempts
    BY <1>0, <1>6, <2>1, SavedRow DEF SaveOutcome, Types
  <2>3. \A m \in Notes : Owing(m)' \subseteq Owing(m)
    BY <1>0, <1>6, <2>1 DEF SaveOutcome, Owing, Sending, Types
  <2> QED
    BY <1>0, <1>6, <2>2, <2>3, FewerOwe DEF SaveOutcome
<1>7. ASSUME NEW w \in Workers, Die(w) \/ Restart(w) PROVE ClaimsAreCounted'
  <2>1. \A m \in Notes : Owing(m)' \subseteq Owing(m)
    BY <1>0, <1>7 DEF Die, Restart, Owing, Sending, Types, BatchesMatch
  <2> QED
    BY <1>0, <1>7, <2>1, FewerOwe DEF Die, Restart
<1>8. CASE UNCHANGED vars
  BY <1>0, <1>8 DEF vars, ClaimsAreCounted, Owing, Sending
<1> QED
  BY <1>1, <1>2, <1>3, <1>4, <1>5, <1>6, <1>7, <1>8 DEF Next, Work

LEMMA CountedInit == Init => Counted
<1> SUFFICES ASSUME Init PROVE Counted
  OBVIOUS
<1>1. Types
  BY AbsentRow, BoundsAssumption DEF Init, Types, Steps
<1>2. BatchesMatch
  BY DEF Init, BatchesMatch
<1>3. \A n \in Notes : Owing(n) = {}
  BY DEF Init, Owing
<1>4. ClaimsAreCounted
  <2>1. \A n \in Notes : Cardinality(Owing(n)) = 0
    BY <1>3, FS_EmptySet
  <2>2. \A n \in Notes : pushed[n] = 0 /\ row[n].attempts = 0
    BY DEF Init, Absent
  <2> QED
    BY <2>1, <2>2 DEF ClaimsAreCounted
<1> QED
  BY <1>1, <1>2, <1>4 DEF Counted

LEMMA CountedAlways == Spec => []Counted
<1> QED
  BY CountedInit, CountedStep, PTL DEF Spec

LEMMA CountedImplies == Counted => TypeOK /\ PushesAreCounted
<1> SUFFICES ASSUME Counted PROVE TypeOK /\ PushesAreCounted
  OBVIOUS
<1>1. ASSUME NEW n \in Notes
      PROVE  /\ pushed[n] <= row[n].attempts /\ pushed[n] \in Nat
             /\ row[n].attempts \in 0..MaxAttempts
  <2>1. /\ pushed[n] \in Nat /\ row[n].attempts \in 0..MaxAttempts
        /\ Cardinality(Owing(n)) \in Nat
    BY OwingIsFinite DEF Counted, Types, Rows
  <2>2. pushed[n] + Cardinality(Owing(n)) <= row[n].attempts
    BY DEF Counted, ClaimsAreCounted
  <2> QED
    BY <2>1, <2>2, LimitsAssumption
<1>2. pushed \in [Notes -> 0..MaxAttempts]
  BY <1>1, LimitsAssumption DEF Counted, Types
<1> QED
  BY <1>1, <1>2 DEF Counted, Types, TypeOK, PushesAreCounted, Steps

\* Types: whatever the number of notifications, workers and deaths, and however
\* slow a worker is (EfMobilePushDeliveryService, mobile_notifications).
THEOREM TypeCorrect == Spec => []TypeOK
<1> QED
  BY CountedAlways, CountedImplies, PTL

\* No phone is pushed a notification more often than it was claimed, and so
\* not more than MaxAttempts times.
THEOREM PushesCounted == Spec => []PushesAreCounted
<1> QED
  BY CountedAlways, CountedImplies, PTL

-----------------------------------------------------------------------------
(* Nothing in limbo *)

Sends == {"sending", "answered", "threw"}

\* What a worker has claimed is its own until it is saved, as long as its claim
\* has not been released under it: nobody else claims it, and the DbContext
\* knows the count of attempts as it is.
ClaimHolds(w, n) ==
    /\ row[n].status = "sending" /\ row[n].claimed # "null"
    /\ \A v \in Workers \ {w} : n \notin batch[v]
    /\ step[w] \in Sends =>
          /\ loaded[w][n].status = "sending" /\ loaded[w][n].claimed # "null"
          /\ loaded[w][n].attempts = row[n].attempts

ClaimsHold == \A w \in Workers : \A n \in batch[w] \ outlived : ClaimHolds(w, n)

\* A row that is not queued yet has been neither claimed nor attempted.
NoneBefore ==
    \A n \in Notes :
        row[n].status \in {"absent", "waitingSync"} =>
            row[n].attempts = 0 /\ \A w \in Workers : n \notin batch[w]

Settling == Types /\ BatchesMatch /\ ClaimsHold /\ NothingInLimbo /\ NoneBefore

Kept == ClaimsHold' /\ NothingInLimbo' /\ NoneBefore'

\* A step that leaves the batches alone, and of a row in one of them at most
\* makes the claim older.
LEMMA ClaimsUntouched ==
    ASSUME Settling, UNCHANGED <<batch, loaded>>, outlived \subseteq outlived',
           \A w \in Workers : step'[w] \in Sends => step[w] \in Sends,
           \A w \in Workers : \A n \in batch[w] \ outlived' :
              /\ row'[n].status = row[n].status /\ row'[n].attempts = row[n].attempts
              /\ row[n].claimed # "null" => row'[n].claimed # "null"
    PROVE  ClaimsHold'
<1> SUFFICES ASSUME NEW w \in Workers, NEW n \in batch'[w] \ outlived'
             PROVE  ClaimHolds(w, n)'
  BY DEF ClaimsHold
<1>1. n \in batch[w] \ outlived /\ ClaimHolds(w, n)
  BY DEF Settling, ClaimsHold
<1> QED
  BY <1>1 DEF ClaimHolds

LEMMA SettlingStep ==
    ASSUME Settling, [Next]_vars
    PROVE  Settling'
<1>0. Types /\ BatchesMatch /\ ClaimsHold /\ NothingInLimbo /\ NoneBefore /\ Types' /\ BatchesMatch'
  BY TypesStep, BatchesStep DEF Settling
<1> SUFFICES Kept
  BY <1>0 DEF Settling, Kept
<1> USE DEF Types, Kept
<1>1. ASSUME NEW n \in Notes, Notify(n) PROVE Kept
  <2>1. row[n] \in Rows /\ row[n].attempts = 0 /\ \A w \in Workers : n \notin batch[w]
    BY <1>0, <1>1 DEF Notify, NoneBefore
  <2>2. ClaimsHold'
    BY <1>1, <2>1, ClaimsUntouched DEF Notify, Settling
  <2>3. /\ row'[n].attempts = 0 /\ UNCHANGED <<batch, outlived>>
        /\ \A m \in Notes \ {n} : row'[m] = row[m]
    BY <1>0, <1>1, <2>1 DEF Notify, Rows
  <2>4. NothingInLimbo'
    <3> SUFFICES ASSUME NEW m \in Notes \ outlived, row'[m].status = "queued"
                 PROVE  row'[m].attempts < MaxAttempts
      BY <2>3 DEF NothingInLimbo
    <3> QED
      BY <1>0, <2>3, LimitsAssumption DEF NothingInLimbo
  <2>5. NoneBefore'
    <3> SUFFICES ASSUME NEW m \in Notes
                 PROVE  row'[m].status \in {"absent", "waitingSync"} =>
                           row'[m].attempts = 0 /\ \A v \in Workers : m \notin batch'[v]
      BY DEF NoneBefore
    <3>1. CASE m = n
      BY <2>1, <2>3, <3>1
    <3>2. CASE m # n
      BY <1>0, <2>3, <3>2 DEF NoneBefore
    <3> QED
      BY <3>1, <3>2
  <2> QED
    BY <2>2, <2>4, <2>5
<1>2. ASSUME NEW a, RegisterPushToken(a) PROVE Kept
  <2>1. ASSUME NEW n \in Notes
        PROVE  \/ row'[n] = row[n]
               \/ /\ row[n].status = "waitingSync" /\ row'[n].attempts = 0
                  /\ row'[n].status = "queued" /\ \A w \in Workers : n \notin batch[w]
    <3>1. row[n] \in Rows
      BY <1>0
    <3>2. \/ row'[n] = row[n]
          \/ /\ row[n].status = "waitingSync"
             /\ row'[n] = [row[n] EXCEPT !.status = "queued"]
      BY <1>2 DEF RegisterPushToken
    <3> QED
      BY <1>0, <3>1, <3>2 DEF NoneBefore, Rows
  <2>2. UNCHANGED <<step, batch, loaded, outlived>>
    BY <1>2 DEF RegisterPushToken
  <2>3. \A w \in Workers : \A n \in batch[w] : n \in Notes /\ row'[n] = row[n]
    BY <1>0, <2>1
  <2>4. ClaimsHold'
    BY <2>2, <2>3, ClaimsUntouched DEF Settling
  <2> QED
    BY <1>0, <2>1, <2>2, <2>4, LimitsAssumption DEF NothingInLimbo, NoneBefore
<1>3. ASSUME NEW n \in Notes, Age(n) PROVE Kept
  <2>1. /\ \A m \in Notes : /\ row'[m].status = row[m].status
                            /\ row'[m].attempts = row[m].attempts
                            /\ row[m].claimed # "null" => row'[m].claimed # "null"
        /\ UNCHANGED <<step, batch, loaded, outlived>>
    BY <1>0, <1>3 DEF Age, Rows
  <2>2. ClaimsHold'
    BY <2>1, ClaimsUntouched, <1>0 DEF Settling
  <2> QED
    BY <1>0, <2>1, <2>2 DEF NothingInLimbo, NoneBefore
<1>4. ASSUME NEW w \in Workers, ReleaseStaleSending(w) PROVE Kept
  <2>1. \A v \in Workers : \A n \in batch[v] \ outlived' : n \in Notes /\ row'[n] = row[n]
    BY <1>0, <1>4 DEF ReleaseStaleSending, Released
  <2>2. /\ \A v \in Workers : step'[v] \in Sends => step[v] \in Sends
        /\ UNCHANGED <<batch, loaded>> /\ outlived \subseteq outlived'
    BY <1>0, <1>4 DEF ReleaseStaleSending, Sends
  <2>3. ClaimsHold'
    BY <2>1, <2>2, ClaimsUntouched DEF Settling
  <2>4. ASSUME NEW n \in Notes
        PROVE  \/ row'[n] = row[n]
               \/ /\ row'[n].attempts = row[n].attempts
                  /\ row'[n].status = RetryOrFail(row[n].attempts)
    <3>1. row[n] \in Rows /\ row'[n] = Released(n)
      BY <1>0, <1>4 DEF ReleaseStaleSending
    <3> QED
      BY <3>1 DEF Released, Unclaimed, Rows
  <2>5. NothingInLimbo'
    <3> SUFFICES ASSUME NEW n \in Notes \ outlived, row'[n].status = "queued"
                 PROVE  row'[n].attempts < MaxAttempts
      BY <2>2 DEF NothingInLimbo
    <3>1. row[n].attempts \in Nat
      BY <1>0 DEF Rows
    <3>2. row[n].status = "queued" => row[n].attempts < MaxAttempts
      BY <1>0 DEF NothingInLimbo
    <3>3. CASE row'[n] = row[n]
      BY <3>2, <3>3
    <3>4. CASE /\ row'[n].attempts = row[n].attempts
               /\ row'[n].status = RetryOrFail(row[n].attempts)
      <4>1. ~(row[n].attempts >= MaxAttempts)
        BY <3>4 DEF RetryOrFail
      <4> QED
        BY <3>1, <3>4, <4>1, LimitsAssumption
    <3> QED
      BY <2>4, <3>3, <3>4
  <2>6. NoneBefore'
    BY <1>0, <2>2, <2>4 DEF NoneBefore, RetryOrFail
  <2> QED
    BY <2>3, <2>5, <2>6
<1>5. ASSUME NEW w \in Workers, ClaimQueued(w) PROVE Kept
  <2> DEFINE Taken == Oldest(Claimable)
  <2>1. Taken \subseteq Notes /\ \A n \in Taken : row[n].status = "queued"
    BY OldestOfSome DEF Claimable
  <2> HIDE DEF Taken
  <2>2. /\ \A n \in Taken : row'[n].status = "sending" /\ row'[n].claimed = "fresh"
        /\ \A n \in Notes \ Taken : row'[n] = row[n]
        /\ batch'[w] = Taken /\ \A v \in Workers \ {w} : batch'[v] = batch[v]
        /\ step'[w] \notin Sends /\ \A v \in Workers \ {w} : step'[v] = step[v]
        /\ UNCHANGED <<loaded, outlived>>
    BY <1>0, <1>5, <2>1 DEF ClaimQueued, Taken, Sends
  <2>3. \A v \in Workers : \A n \in batch[v] \ outlived : n \notin Taken
    BY <1>0, <2>1 DEF ClaimsHold, ClaimHolds
  <2>4. ClaimsHold'
    <3> SUFFICES ASSUME NEW v \in Workers, NEW n \in batch'[v] \ outlived
                 PROVE  ClaimHolds(v, n)'
      BY <2>2 DEF ClaimsHold
    <3>1. CASE v = w
      <4>1. n \in Taken /\ step'[v] \notin Sends
        BY <2>2, <3>1
      <4>2. row'[n].status = "sending" /\ row'[n].claimed # "null"
        BY <2>2, <4>1
      <4>3. \A u \in Workers \ {v} : n \notin batch'[u]
        BY <2>2, <2>3, <3>1, <4>1
      <4> QED
        BY <4>1, <4>2, <4>3 DEF ClaimHolds
    <3>2. CASE v # w
      <4>1. n \in batch[v] /\ n \in Notes \ Taken /\ ClaimHolds(v, n)
        BY <1>0, <2>2, <2>3, <3>2 DEF ClaimsHold
      <4> QED
        BY <2>2, <3>2, <4>1 DEF ClaimHolds
    <3> QED
      BY <3>1, <3>2
  <2>5. \A n \in Notes : row'[n].status # "sending" => n \in Notes \ Taken /\ row'[n] = row[n]
    BY <2>2
  <2>6. NothingInLimbo'
    BY <1>0, <2>2, <2>5 DEF NothingInLimbo
  <2>7. NoneBefore'
    <3> SUFFICES ASSUME NEW m \in Notes, row'[m].status \in {"absent", "waitingSync"}
                 PROVE  row'[m].attempts = 0 /\ \A v \in Workers : m \notin batch'[v]
      BY DEF NoneBefore
    <3>1. m \notin Taken /\ row'[m] = row[m]
      BY <2>5
    <3>2. row[m].attempts = 0 /\ \A v \in Workers : m \notin batch[v]
      BY <1>0, <3>1 DEF NoneBefore
    <3> QED
      BY <2>2, <3>1, <3>2
  <2> QED
    BY <2>4, <2>6, <2>7
<1>6. ASSUME NEW w \in Workers, Load(w) PROVE Kept
  <2>1. ASSUME NEW v \in Workers, NEW n \in batch[v] \ outlived PROVE ClaimHolds(v, n)'
    <3>1. ClaimHolds(v, n) /\ n \in Notes
      BY <1>0, <2>1 DEF ClaimsHold
    <3>2. CASE v = w
      <4>1. loaded'[w][n] = row[n]
        BY <1>0, <1>6, <3>1, <3>2 DEF Load
      <4> QED
        BY <1>6, <3>1, <3>2, <4>1 DEF Load, ClaimHolds
    <3>3. CASE v # w
      BY <1>0, <1>6, <3>1, <3>3 DEF Load, ClaimHolds
    <3> QED
      BY <3>2, <3>3
  <2> QED
    BY <1>0, <1>6, <2>1 DEF Load, ClaimsHold, NothingInLimbo, NoneBefore
<1>7. ASSUME NEW w \in Workers, Send(w) PROVE Kept
  <2>1. UNCHANGED <<row, batch, loaded, outlived>>
    BY <1>7 DEF Send
  <2>2. \A v \in Workers : step'[v] \in Sends => step[v] \in Sends
    BY <1>0, <1>7 DEF Send, Sends
  <2>3. ClaimsHold'
    BY <2>1, <2>2, ClaimsUntouched DEF Settling
  <2> QED
    BY <1>0, <2>1, <2>3 DEF NothingInLimbo, NoneBefore
<1>8. ASSUME NEW w \in Workers, SaveOutcome(w) PROVE Kept
  <2>1. Sending(w) \in batch[w] /\ Sending(w) \in Notes
    BY <1>0, <1>8, SendingIsInBatch DEF SaveOutcome, BatchesMatch
  <2>2. PICK n \in batch[w] : n = Sending(w) /\ n \in Notes
    BY <2>1
  <2>3. /\ row'[n] = Saved(w, n) /\ \A m \in Notes \ {n} : row'[m] = row[m]
        /\ batch'[w] = batch[w] \ {n} /\ \A v \in Workers \ {w} : batch'[v] = batch[v]
        /\ UNCHANGED outlived
    BY <1>0, <1>8, <2>2 DEF SaveOutcome
  <2>4. /\ \A v \in Workers : step'[v] \in Sends => step[v] \in Sends
        /\ \A v \in Workers : \A m \in Notes : v # w \/ m # n => loaded'[v][m] = loaded[v][m]
    BY <1>0, <1>8, <2>2 DEF SaveOutcome, Sends
  <2>5. ClaimsHold'
    <3> SUFFICES ASSUME NEW v \in Workers, NEW m \in batch'[v] \ outlived
                 PROVE  ClaimHolds(v, m)'
      BY <2>3 DEF ClaimsHold
    <3>1. m \in batch[v] /\ m \in Notes /\ ClaimHolds(v, m)
      BY <1>0, <2>3 DEF ClaimsHold
    <3>2. m # n
      BY <2>2, <2>3, <3>1 DEF ClaimHolds
    <3>3. row'[m] = row[m] /\ loaded'[v][m] = loaded[v][m] /\ \A u \in Workers : batch'[u] \subseteq batch[u]
      BY <2>3, <2>4, <3>1, <3>2
    <3> QED
      BY <2>4, <3>1, <3>3 DEF ClaimHolds
  <2>6. row'[n].status \in {"sent", RetryOrFail(loaded[w][n].attempts), row[n].status}
    BY <1>0, <2>2, <2>3 DEF Saved, Written, Rows
  <2>7. NothingInLimbo'
    <3> SUFFICES ASSUME NEW m \in Notes \ outlived, row'[m].status = "queued"
                 PROVE  row'[m].attempts < MaxAttempts
      BY <2>3 DEF NothingInLimbo
    <3>1. CASE m = n
      <4>1. /\ row[n] \in Rows /\ row[n].status = "sending"
            /\ loaded[w][n].attempts = row[n].attempts
        BY <1>0, <1>8, <2>2, <3>1 DEF SaveOutcome, ClaimsHold, ClaimHolds, Sends
      <4>2. Saved(w, n).attempts = row[n].attempts
        BY <1>0, <2>2, SavedRow
      <4>3. row[n].attempts \in Nat /\ RetryOrFail(row[n].attempts) = "queued"
        BY <2>6, <3>1, <4>1 DEF Rows
      <4> QED
        BY <2>3, <3>1, <4>2, <4>3, LimitsAssumption DEF RetryOrFail
    <3>2. CASE m # n
      BY <1>0, <2>3, <3>2 DEF NothingInLimbo
    <3> QED
      BY <3>1, <3>2
  <2>8. NoneBefore'
    <3> SUFFICES ASSUME NEW m \in Notes, row'[m].status \in {"absent", "waitingSync"}
                 PROVE  row'[m].attempts = 0 /\ \A v \in Workers : m \notin batch'[v]
      BY DEF NoneBefore
    <3>1. m # n
      BY <1>0, <2>2, <2>6 DEF NoneBefore, RetryOrFail
    <3> QED
      BY <1>0, <2>3, <3>1 DEF NoneBefore
  <2> QED
    BY <2>5, <2>7, <2>8
<1>9. ASSUME NEW w \in Workers, Die(w) \/ Restart(w) PROVE Kept
  <2>1. /\ UNCHANGED <<row, outlived>>
        /\ \A v \in Workers : /\ batch'[v] \subseteq batch[v]
                              /\ batch'[v] # {} => step'[v] = step[v] /\ loaded'[v] = loaded[v]
    BY <1>0, <1>9 DEF Die, Restart, BatchesMatch
  <2>2. ClaimsHold'
    <3> SUFFICES ASSUME NEW v \in Workers, NEW n \in batch'[v] \ outlived
                 PROVE  ClaimHolds(v, n)'
      BY <2>1 DEF ClaimsHold
    <3>1. ClaimHolds(v, n)
      BY <1>0, <2>1 DEF ClaimsHold
    <3> QED
      BY <2>1, <3>1 DEF ClaimHolds
  <2> QED
    BY <1>0, <2>1, <2>2 DEF NothingInLimbo, NoneBefore
<1>10. CASE UNCHANGED vars
  BY <1>0, <1>10 DEF vars, ClaimsHold, ClaimHolds, NothingInLimbo, NoneBefore
<1> QED
  BY <1>1, <1>2, <1>3, <1>4, <1>5, <1>6, <1>7, <1>8, <1>9, <1>10 DEF Next, Work

\* A notification is queued only while an attempt is left, however long a batch
\* of up to BatchSize sends takes and whoever dies: its outcome is saved on the
\* row that was claimed for it (EfMobilePushDeliveryService.SendQueuedAsync).
\* The exception is a notification whose claim was released as stale while the
\* worker that held it was still at it.
THEOREM NoLimbo == Spec => []NothingInLimbo
<1>1. Init => Settling
  <2> SUFFICES ASSUME Init PROVE Settling
    OBVIOUS
  <2>1. Types /\ BatchesMatch
    BY CountedInit DEF Counted
  <2>2. ClaimsHold /\ NothingInLimbo /\ NoneBefore
    BY DEF Init, ClaimsHold, NothingInLimbo, NoneBefore, Absent
  <2> QED
    BY <2>1, <2>2 DEF Settling
<1>2. Settling /\ [Next]_vars => Settling'
  BY SettlingStep
<1>3. Settling => NothingInLimbo
  BY DEF Settling
<1> QED
  BY <1>1, <1>2, <1>3, PTL DEF Spec
=============================================================================
