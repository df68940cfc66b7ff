---------------------------- MODULE PercoSyncProofs ----------------------------
(***************************************************************************)
(* Theorems about PercoSync: types, among them that an interval is made of *)
(* stored passes; that what a person has closed stays; and that a pass     *)
(* behind the window is stored, for any passes, pages and synchronisations *)
(* that may interleave, fail or die.                                       *)
(***************************************************************************)
EXTENDS PercoSync, FiniteSetTheorems, FunctionTheorems, WellFoundedInduction, TLAPS

-----------------------------------------------------------------------------
(* The passes in the order of their times *)

N == Cardinality(Ids)

LEMMA Passes ==
    /\ IsFiniteSet(Ids) /\ N \in Nat /\ Ids = 1..N
    /\ \A p \in Ids : /\ Pass[p].dir \in {"IN", "OUT"}
                      /\ Pass[p].day \in 0..MaxDay /\ Pass[p].at \in Nat
BY PassAssumption, FS_CardinalityType DEF N

\* A set of numbers has a least one: it has the least set of numbers below it.
LEMMA LeastElement ==
    ASSUME NEW S \in SUBSET Nat, S # {}
    PROVE  \E n \in S : \A m \in S : n <= m
<1> DEFINE Below(n) == {m \in S : m <= n}
           T == {Below(n) : n \in S}
<1>1. T \subseteq FiniteSubsetsOf(Nat)
  <2> SUFFICES ASSUME NEW n \in S PROVE Below(n) \in FiniteSubsetsOf(Nat)
    OBVIOUS
  <2>1. Below(n) \in SUBSET Nat /\ n \in Nat /\ \A m \in Below(n) : m <= n
    OBVIOUS
  <2>2. IsFiniteSet(Below(n))
    <3> HIDE DEF Below
    <3> QED BY <2>1, FS_BoundedSetOfNaturals
  <2> QED
    BY <2>1, <2>2 DEF FiniteSubsetsOf
<1>2. IsWellFoundedOn(StrictSubsetOrdering(Nat), FiniteSubsetsOf(Nat))
  BY FS_StrictSubsetOrderingWellFounded
<1>3. T # {}
  OBVIOUS
<1>4. \E U \in T : \A V \in T : <<V, U>> \notin StrictSubsetOrdering(Nat)
  <2> HIDE DEF T
  <2> QED BY <1>1, <1>2, <1>3, WFMin
<1>5. PICK n \in S : \A m \in S : <<Below(m), Below(n)>> \notin StrictSubsetOrdering(Nat)
  BY <1>4
<1>6. ASSUME NEW m \in S, m < n PROVE FALSE
  <2>0. S \subseteq Nat /\ m \in Nat /\ n \in Nat
    OBVIOUS
  <2>1. Below(m) \subseteq Below(n) /\ n \in Below(n) /\ n \notin Below(m)
    <3>1. \A k \in S : k <= m => k <= n
      BY <1>6, <2>0
    <3>2. n <= n /\ ~(n <= m)
      BY <1>6, <2>0
    <3> QED
      BY <3>1, <3>2
  <2>2. Below(m) \in SUBSET Nat /\ Below(n) \in SUBSET Nat
    OBVIOUS
  <2>3. <<Below(m), Below(n)>> \in StrictSubsetOrdering(Nat)
    <3> HIDE DEF Below
    <3> QED BY <2>1, <2>2 DEF StrictSubsetOrdering
  <2> QED
    BY <2>3, <1>5
<1> QED
  BY <1>6

LEMMA BeforeIsOrder ==
    ASSUME NEW p \in Ids, NEW q \in Ids
    PROVE  /\ ~(Before(p, q) /\ Before(q, p))
           /\ Before(p, q) \/ Before(q, p) \/ p = q
           /\ \A r \in Ids : Before(p, q) /\ Before(q, r) => Before(p, r)
<1>1. /\ p \in Nat /\ q \in Nat /\ Pass[p].at \in Nat /\ Pass[q].at \in Nat
      /\ Pass[p].dir \in {"IN", "OUT"} /\ Pass[q].dir \in {"IN", "OUT"}
  BY Passes
<1>2. ASSUME NEW r \in Ids, Before(p, q), Before(q, r) PROVE Before(p, r)
  <2>1. r \in Nat /\ Pass[r].at \in Nat /\ Pass[r].dir \in {"IN", "OUT"}
    BY Passes
  <2> QED
    BY <1>1, <1>2, <2>1 DEF Before
<1> QED
  BY <1>1, <1>2 DEF Before

Earlier(p) == {q \in Ids : Before(q, p)}

\* The place of a pass is how many come before it.
Place == [p \in Ids |-> Cardinality(Earlier(p)) + 1]

LEMMA PlaceOfPass ==
    /\ Place \in [Ids -> Ids]
    /\ \A p, q \in Ids : Before(p, q) => Place[p] < Place[q]
<1>1. ASSUME NEW p \in Ids
      PROVE  /\ IsFiniteSet(Earlier(p)) /\ Cardinality(Earlier(p)) \in Nat
             /\ Cardinality(Earlier(p)) < N /\ Place[p] \in Ids
  <2>1. Earlier(p) \subseteq Ids \ {p}
    BY BeforeIsOrder DEF Earlier
  <2>2. IsFiniteSet(Ids \ {p}) /\ Cardinality(Ids \ {p}) = N - 1
    BY Passes, FS_RemoveElement DEF N
  <2>3. IsFiniteSet(Earlier(p)) /\ Cardinality(Earlier(p)) <= N - 1
    BY <2>1, <2>2, FS_Subset
  <2>4. Cardinality(Earlier(p)) \in Nat
    BY <2>3, FS_CardinalityType
  <2> QED
    BY <2>3, <2>4, Passes DEF Place
<1>2. ASSUME NEW p \in Ids, NEW q \in Ids, Before(p, q) PROVE Place[p] < Place[q]
  <2>1. Earlier(p) \subseteq Earlier(q)
    BY <1>2, BeforeIsOrder DEF Earlier
  <2>2. p \in Earlier(q) /\ p \notin Earlier(p)
    BY <1>2, BeforeIsOrder DEF Earlier
  <2>3. Cardinality(Earlier(p)) # Cardinality(Earlier(q))
    BY <1>1, <2>1, <2>2, FS_Subset
  <2>4. Cardinality(Earlier(p)) <= Cardinality(Earlier(q))
    BY <1>1, <2>1, FS_Subset
  <2> QED
    BY <1>1, <2>3, <2>4 DEF Place
<1> QED
  BY <1>1, <1>2 DEF Place

\* The passes can be put in order: every place is somebody's.
LEMMA InOrderIsOrder == InOrder \in [Ids -> Ids]
<1>1. ASSUME NEW p \in Ids, NEW q \in Ids, Place[p] = Place[q] PROVE p = q
  <2>1. Place[p] \in Nat
    BY PlaceOfPass, Passes
  <2> QED
    BY <1>1, <2>1, PlaceOfPass, BeforeIsOrder
<1>2. Place \in Injection(Ids, Ids)
  BY <1>1, PlaceOfPass DEF Injection, IsInjective
<1>3. Place \in Surjection(Ids, Ids)
  BY <1>2, Passes, FS_Injection
<1>4. \A n \in Ids : \E p \in Ids : Place[p] = n
  BY <1>3 DEF Surjection
<1> DEFINE f == [n \in Ids |-> CHOOSE p \in Ids : Place[p] = n]
<1>5. \A n \in Ids : f[n] \in Ids /\ Place[f[n]] = n
  BY <1>4
<1>6. ASSUME NEW m \in Ids, NEW n \in Ids, m < n PROVE Before(f[m], f[n])
  <2> HIDE DEF f
  <2>1. f[m] # f[n]
    BY <1>5, <1>6, Passes
  <2>2. ~Before(f[n], f[m])
    <3>1. m \in Nat /\ n \in Nat /\ ~(n < m)
      BY <1>6, Passes
    <3> QED
      BY <1>5, <3>1, PlaceOfPass
  <2> QED
    BY <1>5, <2>1, <2>2, BeforeIsOrder
<1>7. f \in [Ids -> Ids]
  BY <1>5
<1> HIDE DEF f
<1> QED
  BY <1>6, <1>7 DEF InOrder

-----------------------------------------------------------------------------
(* What a rebuild computes *)

\* The intervals a rebuild may make, and what it carries from pass to pass.
MadeOf(evs, s) ==
    {i \in Rows : i.opened \in evs /\ i.closed \in evs \cup {0} /\ i.by = s}

Carried(evs, s) == [open : evs \cup {0}, rows : SUBSET MadeOf(evs, s)]

Nobody == [open |-> 0, rows |-> {}]

Taken(before, p, evs, manual, s) ==
    IF p \notin evs THEN before
    ELSE IF Pass[p].dir = "IN" THEN Entry(before, p, manual, s)
    ELSE Exit(before, p, s)

LEMMA TakenIsCarried ==
    ASSUME NEW evs \in SUBSET Ids, NEW manual, NEW s \in Syncs,
           NEW before \in Carried(evs, s), NEW p \in Ids
    PROVE  Taken(before, p, evs, manual, s) \in Carried(evs, s)
<1>1. CASE p \notin evs
  BY <1>1 DEF Taken
<1>2. ASSUME p \in evs PROVE Entry(before, p, manual, s) \in Carried(evs, s)
  <2>1. Opened(s, p) \in MadeOf(evs, s)
    BY <1>2 DEF Opened, MadeOf, Rows
  <2> QED
    BY <1>2, <2>1 DEF Entry, Carried
<1>3. ASSUME p \in evs PROVE Exit(before, p, s) \in Carried(evs, s)
  <2>1. CASE before.open = 0
    BY <2>1 DEF Exit
  <2>2. CASE before.open # 0
    <3>1. before.open \in evs
      BY <2>2 DEF Carried
    <3>2. Closed(Opened(s, before.open), p) \in MadeOf(evs, s)
      BY <1>3, <3>1 DEF Closed, Opened, MadeOf, Rows
    <3> QED
      BY <2>2, <3>2 DEF Exit, Carried
  <2> QED
    BY <2>1, <2>2
<1> QED
  BY <1>1, <1>2, <1>3 DEF Taken

\* The recursion has a solution: were there a length it could not be followed to,
\* the step after the one before the least such length would do.
Follows(g, k, evs, manual, s) ==
    /\ g \in [0..k -> Carried(evs, s)]
    /\ g[0] = Nobody
    /\ \A n \in 1..k : g[n] = Taken(g[n - 1], InOrder[n], evs, manual, s)

LEMMA RebuildFollows ==
    ASSUME NEW evs \in SUBSET Ids, NEW manual, NEW s \in Syncs, NEW k \in 0..N
    PROVE  \E g : Follows(g, k, evs, manual, s)
<1> DEFINE Stuck == {n \in 0..N : ~\E g : Follows(g, n, evs, manual, s)}
<1>1. SUFFICES ASSUME Stuck # {} PROVE FALSE
  OBVIOUS
<1>2. PICK n \in Stuck : \A m \in Stuck : n <= m
  <2>1. Stuck \in SUBSET Nat
    BY Passes
  <2> HIDE DEF Stuck
  <2> QED
    BY <1>1, <2>1, LeastElement
<1>3. n \in 0..N /\ ~\E g : Follows(g, n, evs, manual, s)
  OBVIOUS
<1>4. CASE n = 0
  <2>1. Nobody \in Carried(evs, s)
    BY DEF Nobody, Carried
  <2>2. Follows([m \in 0..0 |-> Nobody], 0, evs, manual, s)
    BY <2>1 DEF Follows
  <2> QED
    BY <1>3, <1>4, <2>2
<1>5. CASE n # 0
  <2>1. n \in Ids /\ n - 1 \in 0..N /\ n - 1 < n /\ n - 1 \in Nat
    BY <1>3, <1>5, Passes
  <2>2. n - 1 \notin Stuck
    BY <1>2, <2>1
  <2>3. PICK g : Follows(g, n - 1, evs, manual, s)
    BY <2>1, <2>2
  <2> DEFINE h == [m \in 0..n |-> IF m = n THEN Taken(g[n - 1], InOrder[n], evs, manual, s) ELSE g[m]]
  <2>4. g[n - 1] \in Carried(evs, s) /\ InOrder[n] \in Ids
    BY <2>1, <2>3, InOrderIsOrder DEF Follows
  <2>5. Taken(g[n - 1], InOrder[n], evs, manual, s) \in Carried(evs, s)
    BY <2>4, TakenIsCarried
  <2>6. \A m \in 0..n : m # n => m \in 0..(n - 1) /\ g[m] \in Carried(evs, s)
    BY <2>1, <2>3 DEF Follows
  <2>7. h \in [0..n -> Carried(evs, s)]
    BY <2>5, <2>6
  <2>8. h[0] = Nobody
    BY <1>5, <2>1, <2>3 DEF Follows
  <2>9. ASSUME NEW m \in 1..n PROVE h[m] = Taken(h[m - 1], InOrder[m], evs, manual, s)
    <3>1. m \in 0..n /\ m - 1 \in 0..n /\ m - 1 # n /\ h[m - 1] = g[m - 1]
      BY <2>1
    <3>2. CASE m = n
      BY <3>1, <3>2
    <3>3. CASE m # n
      <4>1. m \in 1..(n - 1)
        BY <2>1, <3>3
      <4> QED
        BY <2>3, <3>1, <3>3, <4>1 DEF Follows
    <3> QED
      BY <3>2, <3>3
  <2> HIDE DEF h
  <2>10. Follows(h, n, evs, manual, s)
    BY <2>7, <2>8, <2>9 DEF Follows
  <2> QED
    BY <1>3, <2>10
<1> QED
  BY <1>4, <1>5

Solves(g, evs, manual, s) ==
    g = [n \in 0..N |-> IF n = 0 THEN Nobody
                        ELSE Taken(g[n - 1], InOrder[n], evs, manual, s)]

\* An interval that is computed anew is made of the passes read.
LEMMA RebuiltIsMadeOf ==
    ASSUME NEW evs \in SUBSET Ids, NEW manual, NEW s \in Syncs
    PROVE  Rebuilt(evs, manual, s) \subseteq MadeOf(evs, s)
<1> DEFINE acc == CHOOSE g : Solves(g, evs, manual, s)
<1>1. Rebuilt(evs, manual, s) = acc[N].rows
  BY DEF Rebuilt, Solves, Taken, Nobody, N
<1>2. N \in 0..N
  BY Passes
<1>3. PICK g : Follows(g, N, evs, manual, s)
  BY <1>2, RebuildFollows
<1>4. Solves(g, evs, manual, s)
  BY <1>3, Passes DEF Follows, Solves
<1>5. Solves(acc, evs, manual, s)
  BY <1>4
<1> HIDE DEF acc
<1> DEFINE Astray == {n \in 0..N : acc[n] \notin Carried(evs, s)}
<1>6. ASSUME Astray # {} PROVE FALSE
  <2>1. PICK n \in Astray : \A m \in Astray : n <= m
    <3>1. Astray \in SUBSET Nat
      BY Passes
    <3> HIDE DEF Astray
    <3> QED
      BY <1>6, <3>1, LeastElement
  <2>2. CASE n = 0
    <3>1. acc[n] = Nobody
      BY <1>5, <2>2, Passes DEF Solves
    <3> QED
      BY <3>1 DEF Nobody, Carried
  <2>3. CASE n # 0
    <3>1. n \in Ids /\ n - 1 \in 0..N /\ n - 1 < n /\ n - 1 \in Nat
      BY <2>3, Passes
    <3>2. acc[n - 1] \in Carried(evs, s) /\ InOrder[n] \in Ids
      BY <2>1, <3>1, InOrderIsOrder
    <3>3. acc[n] = Taken(acc[n - 1], InOrder[n], evs, manual, s)
      BY <1>5, <2>3, <3>1 DEF Solves
    <3> QED
      BY <3>2, <3>3, TakenIsCarried
  <2> QED
    BY <2>2, <2>3
<1>7. acc[N] \in Carried(evs, s)
  BY <1>2, <1>6
<1> QED
  BY <1>1, <1>7 DEF Carried

-----------------------------------------------------------------------------
(* Types *)

Stages  == {"idle", "paging", "loaded", "stored", "read", "computing", "deleted", "rebuilt"}
MemType == [page : 0..MaxPages, seen : 0..N, from : 0..MaxDay, known : SUBSET Ids, got : SUBSET Ids,
            evs : SUBSET Ids, manual : SUBSET Ids]

\* What a synchronisation has in hand is of the tables, and it has a page to read.
InHand(s) ==
    /\ mem[s].known \subseteq events /\ mem[s].evs \subseteq events
    /\ mem[s].got \subseteq 1..recorded /\ mem[s].seen <= recorded
    /\ at[s] = "paging" => mem[s].page < MaxPages

Types ==
    /\ recorded \in 0..N /\ events \subseteq 1..recorded /\ missed \subseteq 1..recorded
    /\ today \in 0..MaxDay /\ success \in 0..today
    /\ intervals \subseteq Rows
    /\ \A i \in intervals : {i.opened, i.closed} \subseteq events \cup {0}
    /\ at \in [Syncs -> Stages] /\ mem \in [Syncs -> MemType]
    /\ \A s \in Syncs : InHand(s)

LEMMA Bounds ==
    /\ MaxDay \in Nat /\ PageSize \in Nat \ {0} /\ MaxPages \in Nat \ {0}
    /\ Forgotten \in MemType /\ Forgotten.page = 0 /\ Forgotten.got = {}
    /\ Forgotten.known = {} /\ Forgotten.evs = {} /\ Forgotten.seen = 0
BY Passes, BoundsAssumption, PagesAssumption DEF Forgotten, MemType

LEMMA ForgetTypes ==
    ASSUME Types, NEW s \in Syncs, Forget(s), events \subseteq events', recorded' = recorded
    PROVE  /\ at' \in [Syncs -> Stages] /\ mem' \in [Syncs -> MemType]
           /\ \A t \in Syncs : InHand(t)'
<1>1. /\ at' = [at EXCEPT ![s] = "idle"] /\ mem' = [mem EXCEPT ![s] = Forgotten]
  BY DEF Forget
<1>2. at' \in [Syncs -> Stages] /\ mem' \in [Syncs -> MemType]
  BY <1>1, Bounds DEF Types, Stages
<1>3. ASSUME NEW t \in Syncs PROVE InHand(t)'
  <2>1. CASE t = s
    BY <1>1, <2>1, Bounds DEF InHand, Types, Stages
  <2>2. CASE t # s
    BY <1>1, <2>2 DEF InHand, Types
  <2> QED
    BY <2>1, <2>2
<1> QED
  BY <1>2, <1>3

LEMMA InsertedTypes ==
    ASSUME Types, NEW s \in Syncs
    PROVE  events \subseteq Inserted(s) /\ Inserted(s) \subseteq 1..recorded
BY DEF Types, InHand, Inserted

\* A step of one synchronisation that leaves the tables alone.
LEMMA OnItsOwn ==
    ASSUME Types, NEW s \in Syncs, NEW stage \in Stages, NEW m \in MemType,
           UNCHANGED <<today, recorded, events, success, intervals>>,
           missed' \subseteq 1..recorded,
           at' = [at EXCEPT ![s] = stage], mem' = [mem EXCEPT ![s] = m],
           m.known \subseteq events, m.evs \subseteq events, m.got \subseteq 1..recorded,
           m.seen <= recorded,
           stage = "paging" => m.page < MaxPages
    PROVE  Types'
<1>1. at' \in [Syncs -> Stages] /\ mem' \in [Syncs -> MemType]
  BY DEF Types
<1>2. ASSUME NEW t \in Syncs PROVE InHand(t)'
  <2>1. CASE t = s
    BY <2>1 DEF InHand, Types
  <2>2. CASE t # s
    BY <2>2 DEF InHand, Types
  <2> QED
    BY <2>1, <2>2
<1> QED
  BY <1>1, <1>2 DEF Types

LEMMA TypesOfStep ==
    ASSUME Types, NEW s \in Syncs, Step(s)
    PROVE  Types'
<1>1. /\ mem[s] \in MemType /\ at[s] \in Stages /\ InHand(s)
      /\ events \subseteq 1..recorded /\ 1..recorded \subseteq Ids /\ recorded \in Nat
      /\ missed \subseteq 1..recorded /\ recorded \in 0..N
  BY Passes DEF Types
<1>2. CASE Begin(s)
  <2> DEFINE m == [Forgotten EXCEPT !.from = DayBefore(success), !.seen = recorded, !.known = events]
  <2>1. DayBefore(success) \in 0..MaxDay
    BY Bounds DEF Types, DayBefore
  <2>2. /\ m \in MemType /\ m.known = events /\ m.evs = {} /\ m.got = {} /\ m.page = 0
        /\ m.seen = recorded
    BY <1>1, <2>1, Bounds DEF MemType, Forgotten
  <2> HIDE DEF m
  <2>3. /\ at' = [at EXCEPT ![s] = "paging"] /\ mem' = [mem EXCEPT ![s] = m]
        /\ UNCHANGED <<today, recorded, events, success, intervals>> /\ missed' = missed
    BY <1>2 DEF Begin, m
  <2>4. /\ m.known \subseteq events /\ m.evs \subseteq events /\ m.got \subseteq 1..recorded
        /\ m.page < MaxPages /\ "paging" \in Stages /\ m.seen <= recorded
    BY <1>1, <2>2, Bounds DEF Stages
  <2> QED
    BY <1>1, <2>2, <2>3, <2>4, OnItsOwn
<1>3. CASE ReadPage(s)
  <2> DEFINE page == mem[s].page + 1
             new  == PageRows(mem[s].from, page) \ mem[s].known
             m    == [mem[s] EXCEPT !.page = page, !.got = @ \cup new]
             next == IF LastPage(mem[s].from, page) THEN "loaded" ELSE "paging"
  <2>1. at[s] = "paging" /\ page \in 0..MaxPages /\ (next = "paging" => page < MaxPages)
    <3>1. mem[s].page \in Nat /\ mem[s].page < MaxPages /\ at[s] = "paging"
      BY <1>1, <1>3, Bounds DEF ReadPage, InHand, MemType
    <3> QED
      BY <3>1, Bounds DEF LastPage
  <2>2. new \subseteq 1..recorded /\ missed' \subseteq 1..recorded
    BY <1>1, <1>3 DEF PageRows, Window, ReadPage, CutOff
  <2>3. m \in MemType /\ m.known = mem[s].known /\ m.evs = mem[s].evs
        /\ m.got = mem[s].got \cup new /\ m.page = page /\ m.seen = mem[s].seen
    <3> HIDE DEF page, new
    <3> QED
      BY <1>1, <2>1, <2>2 DEF MemType
  <2>4. /\ mem' = [mem EXCEPT ![s] = m] /\ at' = [at EXCEPT ![s] = next]
        /\ UNCHANGED <<today, recorded, events, success, intervals>>
    <3>1. mem' = [mem EXCEPT ![s].page = page, ![s].got = @ \cup new]
      BY <1>3 DEF ReadPage
    <3>2. mem' = [mem EXCEPT ![s] = m]
      BY <3>1 DEF Types, MemType
    <3> QED
      BY <1>3, <2>1, <3>2 DEF ReadPage
  <2>5. /\ next \in Stages /\ m.known \subseteq events /\ m.evs \subseteq events
        /\ m.got \subseteq 1..recorded /\ m.seen <= recorded
    BY <1>1, <2>2, <2>3 DEF Stages, InHand
  <2> HIDE DEF page, new, m, next
  <2> QED
    BY <2>1, <2>2, <2>3, <2>4, <2>5, OnItsOwn
<1>4. CASE Store(s)
  <2>1. /\ events' = Inserted(s) /\ UNCHANGED <<today, recorded, success, intervals, missed>>
    BY <1>4 DEF Store
  <2>2. events \subseteq events' /\ events' \subseteq 1..recorded
    BY <2>1, InsertedTypes
  <2>3. CASE Forget(s)
    BY <2>1, <2>2, <2>3, ForgetTypes DEF Types
  <2>4. CASE /\ at' = [at EXCEPT ![s] = "stored"]
             /\ mem' = [mem EXCEPT ![s].known = {}, ![s].got = {},
                                   ![s].page = 0, ![s].from = 0]
    <3>1. at' \in [Syncs -> Stages] /\ at'[s] = "stored"
      BY <2>4 DEF Types, Stages
    <3> DEFINE m == [mem[s] EXCEPT !.known = {}, !.got = {}, !.page = 0, !.from = 0]
    <3>0. /\ m \in MemType /\ m.known = {} /\ m.got = {} /\ m.evs = mem[s].evs
          /\ m.seen = mem[s].seen /\ mem' = [mem EXCEPT ![s] = m]
      <4>0. 0 \in 0..MaxPages /\ 0 \in 0..MaxDay
        BY Bounds
      <4>1. m \in MemType
        BY <1>1, <4>0 DEF MemType
      <4>2. mem' = [mem EXCEPT ![s] = m]
        BY <1>1, <2>4 DEF Types, MemType
      <4>3. m.known = {} /\ m.got = {} /\ m.evs = mem[s].evs /\ m.seen = mem[s].seen
        BY <1>1 DEF MemType
      <4> QED
        BY <4>1, <4>2, <4>3
    <3> HIDE DEF m
    <3>2. /\ mem' \in [Syncs -> MemType] /\ mem'[s].known = {} /\ mem'[s].got = {}
          /\ mem'[s].evs = mem[s].evs /\ mem'[s].seen = mem[s].seen
          /\ \A t \in Syncs : t # s => mem'[t] = mem[t]
      BY <3>0 DEF Types
    <3>3. ASSUME NEW t \in Syncs PROVE InHand(t)'
      <4>1. CASE t = s
        BY <1>1, <2>1, <2>2, <3>1, <3>2, <4>1 DEF InHand
      <4>2. CASE t # s
        BY <2>1, <2>2, <2>4, <3>2, <4>2 DEF InHand, Types
      <4> QED
        BY <4>1, <4>2
    <3> QED
      BY <2>1, <2>2, <3>1, <3>2, <3>3 DEF Types
  <2> QED
    BY <1>4, <2>3, <2>4 DEF Store
<1>5. CASE ReadEvents(s)
  <2> DEFINE m == [mem[s] EXCEPT !.evs = events]
  <2>1. /\ m \in MemType /\ m.known = mem[s].known /\ m.evs = events /\ m.got = mem[s].got
        /\ m.seen = mem[s].seen
    BY <1>1 DEF MemType
  <2>2. /\ mem' = [mem EXCEPT ![s] = m] /\ at' = [at EXCEPT ![s] = "read"]
        /\ UNCHANGED <<today, recorded, events, success, intervals>> /\ missed' = missed
    BY <1>5 DEF ReadEvents, Types, MemType
  <2> HIDE DEF m
  <2> QED
    BY <1>1, <2>1, <2>2, OnItsOwn DEF InHand, Stages
<1>9. CASE ReadClosings(s)
  <2> DEFINE m == [mem[s] EXCEPT !.manual = ByHand]
  <2>1. ByHand \subseteq Ids
    BY DEF ByHand, Types, Rows
  <2>2. /\ m \in MemType /\ m.known = mem[s].known /\ m.evs = mem[s].evs
        /\ m.got = mem[s].got /\ m.seen = mem[s].seen
    BY <1>1, <2>1 DEF MemType
  <2>3. /\ mem' = [mem EXCEPT ![s] = m] /\ at' = [at EXCEPT ![s] = "computing"]
        /\ UNCHANGED <<today, recorded, events, success, intervals>> /\ missed' = missed
    BY <1>9 DEF ReadClosings, Types, MemType
  <2> HIDE DEF m
  <2> QED
    BY <1>1, <2>2, <2>3, OnItsOwn DEF InHand, Stages
<1>6. CASE DeleteOld(s)
  <2>1. at' \in [Syncs -> Stages] /\ \A t \in Syncs : InHand(t)'
    BY <1>6 DEF DeleteOld, Types, InHand, Stages
  <2> QED
    BY <1>6, <2>1 DEF DeleteOld, Kept, Types
<1>7. CASE InsertNew(s)
  <2>1. Rebuilt(mem[s].evs, mem[s].manual, s) \subseteq MadeOf(mem[s].evs, s)
    BY <1>1, RebuiltIsMadeOf DEF MemType
  <2>2. /\ intervals' \subseteq Rows
        /\ \A i \in intervals' : {i.opened, i.closed} \subseteq events \cup {0}
    BY <1>1, <1>7, <2>1 DEF InsertNew, MadeOf, InHand, Types
  <2>3. at' \in [Syncs -> Stages] /\ mem' \in [Syncs -> MemType] /\ \A t \in Syncs : InHand(t)'
    <3>1. /\ at' = [at EXCEPT ![s] = "rebuilt"]
          /\ mem' = [mem EXCEPT ![s].evs = {}, ![s].manual = {}]
          /\ UNCHANGED <<recorded, events>>
      BY <1>7 DEF InsertNew
    <3> DEFINE m == [mem[s] EXCEPT !.evs = {}, !.manual = {}]
    <3>0. /\ m \in MemType /\ m.known = mem[s].known /\ m.got = mem[s].got /\ m.evs = {}
          /\ m.seen = mem[s].seen /\ mem' = [mem EXCEPT ![s] = m]
      BY <1>1, <3>1 DEF MemType, Types
    <3> HIDE DEF m
    <3>2. at' \in [Syncs -> Stages] /\ mem' \in [Syncs -> MemType]
      BY <3>0, <3>1 DEF Types, Stages
    <3>3. ASSUME NEW t \in Syncs PROVE InHand(t)'
      <4>1. CASE t = s
        BY <1>1, <3>0, <3>1, <4>1 DEF InHand, Types
      <4>2. CASE t # s
        BY <3>1, <4>2 DEF InHand, Types
      <4> QED
        BY <4>1, <4>2
    <3> QED
      BY <3>2, <3>3
  <2> QED
    BY <1>7, <2>2, <2>3 DEF InsertNew, Types
<1>8. CASE Finish(s)
  <2>1. /\ success' \in 0..today /\ Forget(s) /\ UNCHANGED <<today, recorded, events, intervals>>
        /\ missed' = missed \cup (HeardMeanwhile(s) \ events)
    BY <1>8 DEF Finish, Types
  <2>2. missed' \subseteq 1..recorded
    BY <1>1, <2>1 DEF HeardMeanwhile
  <2> QED
    BY <2>1, <2>2, ForgetTypes DEF Types
<1> QED
  BY <1>2, <1>3, <1>4, <1>5, <1>6, <1>7, <1>8, <1>9 DEF Step

LEMMA TypesInit == Init => Types
<1> SUFFICES ASSUME Init PROVE Types
  OBVIOUS
<1>1. 0 \in 0..N /\ 0 \in 0..MaxDay /\ 0 \in 0..0
  BY Passes, Bounds
<1>2. \A s \in Syncs : mem[s] = Forgotten /\ at[s] = "idle"
  BY DEF Init
<1>3. \A s \in Syncs : InHand(s)
  <2>1. recorded = 0
    BY DEF Init
  <2> QED
    BY <1>2, <2>1, Bounds DEF InHand
<1>4. at \in [Syncs -> Stages] /\ mem \in [Syncs -> MemType]
  BY Bounds DEF Init, Stages
<1> QED
  BY <1>1, <1>3, <1>4 DEF Init, Types

LEMMA TypesNext == Types /\ [Next]_vars => Types'
<1> SUFFICES ASSUME Types, [Next]_vars PROVE Types'
  OBVIOUS
<1>1. CASE GoThrough
  <2>1. /\ recorded' \in 0..N /\ recorded <= recorded'
        /\ 1..recorded \subseteq 1..recorded' /\ recorded' \in 1..recorded'
    BY <1>1, Passes DEF GoThrough, Types, N
  <2>2. UNCHANGED <<today, events, success, intervals, at, mem>>
    BY <1>1 DEF GoThrough
  <2>3. ASSUME NEW s \in Syncs PROVE InHand(s)'
    BY <2>1, <2>2, Passes DEF InHand, Types, MemType
  <2>4. missed' \subseteq 1..recorded'
    BY <1>1, <2>1 DEF GoThrough, Types
  <2> QED
    BY <2>1, <2>2, <2>3, <2>4 DEF Types
<1>2. CASE Tomorrow
  <2>1. today' \in 0..MaxDay /\ success \in 0..today'
    BY <1>2, Bounds DEF Tomorrow, Types
  <2> QED
    BY <1>2, <2>1 DEF Tomorrow, Types, InHand
<1>3. ASSUME NEW s \in Syncs, PageFails(s) PROVE Types'
  <2>1. /\ events' = Inserted(s) /\ success' = success /\ Forget(s)
        /\ UNCHANGED <<today, recorded, intervals, missed>>
    BY <1>3 DEF PageFails, SuccessAfterError
  <2> QED
    BY <2>1, InsertedTypes, ForgetTypes DEF Types
<1>4. ASSUME NEW s \in Syncs, Die(s) PROVE Types'
  <2>1. Forget(s) /\ UNCHANGED <<today, recorded, events, success, intervals, missed>>
    BY <1>4 DEF Die
  <2> QED
    BY <2>1, ForgetTypes DEF Types
<1>5. ASSUME NEW i \in intervals, CloseByHand(i) PROVE Types'
  <2> DEFINE j == [i EXCEPT !.source = "PERCO_MANUAL"]
  <2>1. j \in Rows /\ j.opened = i.opened /\ j.closed = i.closed
    BY DEF Types, Rows
  <2> HIDE DEF j
  <2>2. /\ intervals' = (intervals \ {i}) \cup {j}
        /\ UNCHANGED <<today, recorded, events, success, at, mem, missed>>
    BY <1>5 DEF CloseByHand, j
  <2> QED
    BY <2>1, <2>2 DEF Types, InHand
<1>6. CASE UNCHANGED vars
  BY <1>6 DEF vars, Types, InHand
<1> QED
  BY <1>1, <1>2, <1>3, <1>4, <1>5, <1>6, TypesOfStep DEF Next

LEMMA TypesAlways == Spec => []Types
BY TypesInit, TypesNext, PTL DEF Spec

-----------------------------------------------------------------------------
(* What is behind the window *)

\* Once its passes are stored a synchronisation only computes intervals.
Computing == {"stored", "read", "computing", "deleted", "rebuilt"}

\* How many of the window come before a pass in PERCo's report.
Newer(from, p) == {q \in Window(from) : q > p}
Rank(from, p)  == Cardinality(Newer(from, p))

\* What a synchronisation does not ask for is behind the last success.
Asked(s) == at[s] # "idle" => mem[s].from <= DayBefore(success)

\* What it asks for it has read, or will find on a later page: new passes only push
\* the old ones on.
Paged(s) ==
    \A p \in Ids : p <= mem[s].seen /\ p \notin missed =>
        /\ at[s] = "paging" /\ Pass[p].day >= mem[s].from =>
               p \in events \cup mem[s].got \/ Rank(mem[s].from, p) >= mem[s].page * PageSize
        /\ at[s] = "loaded" /\ Pass[p].day >= mem[s].from => p \in events \cup mem[s].got
        /\ at[s] \in Computing => p \in events

Behind == \A p \in Ids : p <= recorded /\ Passed(p, success) => p \in events \cup missed

WindowInv ==
    /\ Behind
    /\ \A s \in Syncs : Asked(s) /\ Paged(s)

\* Before the window is what the success has passed.
LEMMA BeforeWindow ==
    ASSUME Types, NEW p \in Ids, NEW day \in Nat
    PROVE  Pass[p].day < DayBefore(day) <=> Passed(p, day)
BY Passes DEF DayBefore, Passed

LEMMA RankOfPass ==
    ASSUME Types, NEW from \in Nat, NEW p \in Window(from)
    PROVE  /\ Rank(from, p) \in Nat
           /\ IsFiniteSet(Window(from)) /\ Cardinality(Window(from)) \in Nat
           /\ Rank(from, p) < Cardinality(Window(from))
           /\ Cardinality(Window(from)) <= N
<1>1. Window(from) \subseteq Ids
  BY Passes DEF Types, Window
<1>2. IsFiniteSet(Window(from)) /\ Cardinality(Window(from)) <= N
  BY <1>1, Passes, FS_Subset DEF N
<1>3. Newer(from, p) \subseteq Window(from) /\ p \notin Newer(from, p) /\ p \in Nat
  BY <1>1, Passes DEF Newer
<1>4. /\ IsFiniteSet(Newer(from, p))
      /\ Cardinality(Newer(from, p)) <= Cardinality(Window(from))
      /\ Cardinality(Newer(from, p)) # Cardinality(Window(from))
  BY <1>2, <1>3, FS_Subset
<1>5. Cardinality(Newer(from, p)) \in Nat /\ Cardinality(Window(from)) \in Nat
  BY <1>2, <1>4, FS_CardinalityType
<1> QED
  BY <1>2, <1>4, <1>5 DEF Rank

\* A pass is pushed on, never back.
LEMMA RankGrows ==
    ASSUME Types, Types', NEW from \in Nat, recorded <= recorded', NEW p \in Ids
    PROVE  /\ Rank(from, p) \in Nat /\ Rank(from, p)' \in Nat
           /\ Rank(from, p) <= Rank(from, p)'
<1>1. Newer(from, p) \subseteq Newer(from, p)' /\ Newer(from, p)' \subseteq Ids
  BY Passes DEF Types, Newer, Window
<1>2. IsFiniteSet(Newer(from, p)') /\ Cardinality(Newer(from, p)) <= Cardinality(Newer(from, p)')
  BY <1>1, Passes, FS_Subset
<1>3. IsFiniteSet(Newer(from, p))
  BY <1>1, <1>2, FS_Subset
<1>4. Cardinality(Newer(from, p)) \in Nat /\ Cardinality(Newer(from, p)') \in Nat
  BY <1>2, <1>3, FS_CardinalityType
<1> QED
  BY <1>2, <1>4 DEF Rank

\* The day before a day is a day.
LEMMA DayBeforeIsADay ==
    ASSUME NEW d \in Nat
    PROVE  DayBefore(d) \in Nat
<1>1. CASE d = 0
  BY <1>1 DEF DayBefore
<1>2. CASE d # 0
  BY <1>2 DEF DayBefore
<1> QED
  BY <1>1, <1>2

\* A synchronisation that does not move loses nothing.
LEMMA StandingStill ==
    ASSUME NEW t \in Syncs, Asked(t), Paged(t), events \subseteq events',
           missed \subseteq missed', DayBefore(success) <= DayBefore(success'),
           Types, Types', recorded' = recorded, at'[t] = at[t], mem'[t] = mem[t]
    PROVE  Asked(t)' /\ Paged(t)'
<1>1. \A p \in Ids : Rank(mem[t].from, p)' = Rank(mem[t].from, p)
  BY DEF Rank, Newer, Window
<1>2. Asked(t)'
  <2>1. success \in Nat /\ success' \in Nat /\ mem[t] \in MemType
    BY Bounds DEF Types
  <2>2. mem[t].from \in Nat
    BY <2>1, Bounds DEF MemType
  <2>3. DayBefore(success) \in Nat /\ DayBefore(success') \in Nat
    BY <2>1, DayBeforeIsADay
  <2>4. DayBefore(success)' = DayBefore(success')
    BY DEF DayBefore
  <2> QED
    BY <2>2, <2>3, <2>4 DEF Asked
<1> QED
  BY <1>1, <1>2 DEF Paged

LEMMA OneMoves ==
    ASSUME Types, Types', WindowInv, NEW s \in Syncs, events \subseteq events',
           missed \subseteq missed', UNCHANGED <<recorded, success>>,
           \A t \in Syncs \ {s} : at'[t] = at[t] /\ mem'[t] = mem[t],
           Asked(s)', Paged(s)'
    PROVE  WindowInv'
<1>1. Behind'
  BY DEF WindowInv, Behind, Passed
<1>2. DayBefore(success) <= DayBefore(success')
  BY DEF Types, DayBefore
<1>3. ASSUME NEW t \in Syncs PROVE Asked(t)' /\ Paged(t)'
  BY <1>2, StandingStill DEF WindowInv
<1> QED
  BY <1>1, <1>3 DEF WindowInv

\* One that gives up asks for nothing.
LEMMA GivenUp ==
    ASSUME Types, Types', WindowInv, NEW s \in Syncs, Forget(s), events \subseteq events',
           UNCHANGED <<recorded, success, missed>>
    PROVE  WindowInv'
<1>1. at'[s] = "idle" /\ \A t \in Syncs \ {s} : at'[t] = at[t] /\ mem'[t] = mem[t]
  BY DEF Forget, Types
<1>2. Asked(s)' /\ Paged(s)'
  BY <1>1 DEF Asked, Paged, Computing
<1> QED
  BY <1>1, <1>2, OneMoves

LEMMA BeginWindow ==
    ASSUME Types, Types', WindowInv, NEW s \in Syncs, Begin(s)
    PROVE  WindowInv'
<1>1. /\ at' = [at EXCEPT ![s] = "paging"]
      /\ mem' = [mem EXCEPT ![s] = [Forgotten EXCEPT !.from = DayBefore(success),
                                                     !.seen = recorded, !.known = events]]
      /\ UNCHANGED <<recorded, events, success, missed>>
  BY DEF Begin
<1>2. at'[s] = "paging" /\ mem'[s].from = DayBefore(success) /\ mem'[s].page = 0
  BY <1>1 DEF Types, Forgotten
<1>3. Asked(s)'
  <2>1. DayBefore(success)' = DayBefore(success) /\ DayBefore(success) \in Nat
    BY <1>1, Bounds DEF DayBefore, Types
  <2> QED
    BY <1>2, <2>1 DEF Asked
<1>4. ASSUME NEW p \in Ids PROVE Rank(mem[s].from, p)' >= 0
  <2>1. Newer(mem[s].from, p)' \subseteq Ids
    BY <1>1, Passes DEF Newer, Window, Types
  <2>2. IsFiniteSet(Newer(mem[s].from, p)')
    BY <2>1, Passes, FS_Subset
  <2>3. Cardinality(Newer(mem[s].from, p)') \in Nat
    BY <2>2, FS_CardinalityType
  <2> QED
    BY <2>3 DEF Rank
<1>5. Paged(s)'
  <2>1. mem'[s].page * PageSize = 0
    BY <1>2, Bounds
  <2> QED
    BY <1>2, <1>4, <2>1 DEF Paged, Computing
<1> QED
  BY <1>1, <1>3, <1>5, OneMoves DEF Types

\* A page that holds a pass brings it; if it does not, the pass is on a later one,
\* and cut off if there is none.
LEMMA ReadPageWindow ==
    ASSUME Types, Types', WindowInv, NEW s \in Syncs, ReadPage(s)
    PROVE  WindowInv'
<1> DEFINE page == mem[s].page + 1
           from == mem[s].from
           new  == PageRows(from, page) \ mem[s].known
<1>1. /\ at[s] = "paging"
      /\ mem' = [mem EXCEPT ![s].page = page, ![s].got = @ \cup new]
      /\ at' = [at EXCEPT ![s] = IF LastPage(from, page) THEN "loaded" ELSE @]
      /\ missed' = missed \cup (CutOff(from, page) \ events)
      /\ UNCHANGED <<today, recorded, events, success>>
  BY DEF ReadPage
<1>2. /\ mem[s] \in MemType /\ from \in Nat /\ page \in Nat /\ mem[s].page \in Nat
      /\ mem[s].known \subseteq events /\ PageSize \in Nat /\ MaxPages \in Nat
      /\ mem[s].page < MaxPages /\ mem[s].seen <= recorded /\ mem[s].seen \in Nat
      /\ recorded \in Nat
  BY <1>1, Passes, Bounds DEF Types, InHand, MemType
<1>3. /\ mem'[s].page = page /\ mem'[s].got = mem[s].got \cup new /\ mem'[s].from = from
      /\ mem'[s].seen = mem[s].seen
      /\ at'[s] = IF LastPage(from, page) THEN "loaded" ELSE "paging"
      /\ \A t \in Syncs \ {s} : at'[t] = at[t] /\ mem'[t] = mem[t]
  BY <1>1, <1>2 DEF Types, MemType
<1>4. Asked(s)'
  <2>1. DayBefore(success)' = DayBefore(success)
    BY <1>1 DEF DayBefore
  <2> QED
    BY <1>1, <1>3, <2>1 DEF Asked, WindowInv
<1>5. ASSUME NEW p \in Ids, p <= mem[s].seen, p \notin missed', Pass[p].day >= from,
             p \notin events \cup mem'[s].got
      PROVE  ~LastPage(from, page) /\ Rank(from, p) >= page * PageSize
  <2>1. p \in Window(from)
    BY <1>2, <1>5, Passes DEF Window
  <2>2. /\ Rank(from, p) \in Nat /\ Rank(from, p) < Cardinality(Window(from))
        /\ Cardinality(Window(from)) \in Nat
    BY <1>2, <2>1, RankOfPass
  <2>3. Rank(from, p) >= mem[s].page * PageSize
    BY <1>1, <1>3, <1>5 DEF WindowInv, Paged
  <2>4. p \notin PageRows(from, page)
    BY <1>2, <1>3, <1>5
  <2>5. Rank(from, p) \notin ((page - 1) * PageSize)..(page * PageSize - 1)
    BY <2>1, <2>4 DEF PageRows, Rank, Newer
  <2>6. page - 1 = mem[s].page /\ page * PageSize \in Nat /\ mem[s].page * PageSize \in Nat
    BY <1>2
  <2>7. Rank(from, p) >= page * PageSize
    <3> HIDE DEF page
    <3> QED
      BY <2>2, <2>3, <2>5, <2>6
  <2>8. ~(page * PageSize >= Cardinality(Window(from)))
    <3> HIDE DEF page
    <3> QED
      BY <2>2, <2>6, <2>7
  <2>9. page # MaxPages
    <3>1. p \notin CutOff(from, page)
      BY <1>1, <1>5
    <3>2. page < MaxPages
      <4> HIDE DEF page
      <4> QED
        BY <2>1, <2>7, <3>1 DEF CutOff, Rank, Newer
    <3> QED
      BY <1>2, <3>2
  <2> QED
    BY <2>7, <2>8, <2>9 DEF LastPage
<1>6. ASSUME NEW p \in Ids, p <= mem[s].seen, p \notin missed', Pass[p].day >= from,
             p \notin events \cup mem'[s].got
      PROVE  at'[s] = "paging" /\ Rank(mem[s].from, p)' >= mem'[s].page * PageSize
  <2>1. Rank(from, p) = Cardinality({q \in {r \in 1..recorded : Pass[r].day >= from} : q > p})
    BY DEF Rank, Newer, Window
  <2>2. Rank(mem[s].from, p)' = Cardinality({q \in {r \in 1..recorded : Pass[r].day >= from} : q > p})
    BY <1>1, <1>3 DEF Rank, Newer, Window
  <2>3. at'[s] = "paging"
    BY <1>3, <1>5, <1>6
  <2> QED
    BY <1>3, <1>5, <1>6, <2>1, <2>2, <2>3
<1>7. Paged(s)'
  <2> HIDE DEF page, from, new
  <2>1. /\ events' = events /\ mem'[s].from = from /\ mem'[s].seen = mem[s].seen
        /\ at'[s] \in {"paging", "loaded"}
    BY <1>1, <1>3
  <2> QED
    BY <1>6, <2>1 DEF Paged, Computing
<1> QED
  BY <1>1, <1>3, <1>4, <1>7, OneMoves

\* What it has seen and did not ask for was stored before.
LEMMA SeenIsStored ==
    ASSUME Types, WindowInv, NEW s \in Syncs, at[s] = "loaded", NEW p \in Ids,
           p <= mem[s].seen, p \notin missed
    PROVE  p \in events \cup mem[s].got
<1>1. /\ mem[s].from \in Nat /\ mem[s].seen \in Nat /\ mem[s].seen <= recorded /\ p \in Nat
      /\ recorded \in Nat /\ success \in Nat /\ DayBefore(success) \in Nat
      /\ Pass[p].day \in Nat
  BY Passes, Bounds DEF Types, InHand, MemType, DayBefore
<1>2. CASE Pass[p].day >= mem[s].from
  BY <1>2 DEF WindowInv, Paged
<1>3. CASE Pass[p].day < mem[s].from
  <2>1. Pass[p].day < DayBefore(success)
    <3>1. mem[s].from <= DayBefore(success)
      BY DEF WindowInv, Asked
    <3> QED
      BY <1>1, <1>3, <3>1
  <2>2. Passed(p, success) /\ p <= recorded
    BY <1>1, <2>1, BeforeWindow
  <2> QED
    BY <2>2 DEF WindowInv, Behind
<1> QED
  BY <1>1, <1>2, <1>3

LEMMA StoreWindow ==
    ASSUME Types, Types', WindowInv, NEW s \in Syncs, Store(s)
    PROVE  WindowInv'
<1>1. /\ at[s] = "loaded" /\ events' = Inserted(s)
      /\ UNCHANGED <<recorded, success, missed>>
  BY DEF Store
<1>2. events \subseteq events'
  BY <1>1 DEF Inserted
<1>3. CASE mem[s].got \cap events = {}
  <2>1. /\ at' = [at EXCEPT ![s] = "stored"]
        /\ mem' = [mem EXCEPT ![s].known = {}, ![s].got = {}, ![s].page = 0, ![s].from = 0]
        /\ events' = events \cup mem[s].got
    BY <1>1, <1>3 DEF Store, Inserted
  <2>2. /\ at'[s] = "stored" /\ mem'[s].from = 0 /\ mem'[s].seen = mem[s].seen
        /\ \A t \in Syncs \ {s} : at'[t] = at[t] /\ mem'[t] = mem[t]
    BY <2>1 DEF Types, MemType
  <2>3. Asked(s)'
    <3>1. DayBefore(success)' \in Nat
      BY <1>1, Bounds DEF DayBefore, Types
    <3> QED
      BY <2>2, <3>1 DEF Asked
  <2>4. Paged(s)'
    BY <1>1, <2>1, <2>2, SeenIsStored DEF Paged
  <2> QED
    BY <1>1, <1>2, <2>2, <2>3, <2>4, OneMoves
<1>4. CASE mem[s].got \cap events # {}
  <2>1. Forget(s)
    BY <1>4 DEF Store
  <2> QED
    BY <1>1, <1>2, <2>1, GivenUp
<1> QED
  BY <1>3, <1>4

LEMMA RebuildWindow ==
    ASSUME Types, Types', WindowInv, NEW s \in Syncs,
           ReadEvents(s) \/ ReadClosings(s) \/ DeleteOld(s) \/ InsertNew(s)
    PROVE  WindowInv'
<1>1. UNCHANGED <<recorded, events, success, missed>>
  BY DEF ReadEvents, ReadClosings, DeleteOld, InsertNew
<1>2. /\ at[s] \in Computing /\ at'[s] \in Computing
      /\ mem'[s].from = mem[s].from /\ mem'[s].seen = mem[s].seen
      /\ \A t \in Syncs \ {s} : at'[t] = at[t] /\ mem'[t] = mem[t]
  <2>1. CASE ReadEvents(s)
    BY <2>1 DEF ReadEvents, Computing, Types, MemType
  <2>2. CASE ReadClosings(s)
    BY <2>2 DEF ReadClosings, Computing, Types, MemType
  <2>3. CASE DeleteOld(s)
    BY <2>3 DEF DeleteOld, Computing, Types
  <2>4. CASE InsertNew(s)
    BY <2>4 DEF InsertNew, Computing, Types, MemType
  <2> QED
    BY <2>1, <2>2, <2>3, <2>4
<1>3. Asked(s)'
  <2>1. DayBefore(success)' = DayBefore(success)
    BY <1>1 DEF DayBefore
  <2> QED
    BY <1>2, <2>1 DEF Asked, WindowInv, Computing
<1>4. Paged(s)'
  BY <1>1, <1>2 DEF Paged, WindowInv, Computing
<1> QED
  BY <1>1, <1>2, <1>3, <1>4, OneMoves

\* The window moves on to the day before today: whatever is older was stored before,
\* has been read, or was heard of meanwhile.
LEMMA FinishWindow ==
    ASSUME Types, Types', WindowInv, NEW s \in Syncs, Finish(s)
    PROVE  WindowInv'
<1>1. /\ at[s] = "rebuilt" /\ success' = today /\ Forget(s)
      /\ missed' = missed \cup (HeardMeanwhile(s) \ events)
      /\ UNCHANGED <<today, recorded, events>>
  BY DEF Finish
<1>2. at'[s] = "idle" /\ \A t \in Syncs \ {s} : at'[t] = at[t] /\ mem'[t] = mem[t]
  BY <1>1 DEF Forget, Types
<1>3. DayBefore(success) <= DayBefore(success')
  BY <1>1, Bounds DEF DayBefore, Types
<1>4. ASSUME NEW t \in Syncs PROVE Asked(t)' /\ Paged(t)'
  <2>1. CASE t = s
    BY <1>2, <2>1 DEF Asked, Paged, Computing
  <2>2. CASE t # s
    BY <1>1, <1>2, <1>3, <2>2, StandingStill DEF WindowInv
  <2> QED
    BY <2>1, <2>2
<1>5. ASSUME NEW p \in Ids, p <= recorded, Passed(p, today), p \notin missed'
      PROVE  p \in events
  <2>1. p \in Nat /\ mem[s].seen \in Nat /\ recorded \in Nat /\ p \in 1..recorded
    BY <1>5, Passes DEF Types, MemType
  <2>2. CASE p <= mem[s].seen
    BY <1>1, <1>5, <2>2 DEF WindowInv, Paged, Computing
  <2>3. CASE p > mem[s].seen
    BY <1>1, <1>5, <2>1, <2>3 DEF HeardMeanwhile
  <2> QED
    BY <2>1, <2>2, <2>3
<1>6. Behind'
  BY <1>1, <1>5 DEF Behind, Passed
<1> QED
  BY <1>4, <1>6 DEF WindowInv

\* A pass that PERCo hears of is seen by nobody yet, and lost if the window has passed it.
LEMMA GoThroughWindow ==
    ASSUME Types, Types', WindowInv, GoThrough
    PROVE  WindowInv'
<1>1. /\ recorded' = recorded + 1 /\ UNCHANGED <<today, events, success, at, mem>>
      /\ missed' = missed \cup {p \in {recorded'} : Passed(p, success)}
  BY DEF GoThrough
<1>2. recorded <= recorded' /\ recorded \in Nat /\ \A p \in Ids : p \in Nat
  BY <1>1, Passes DEF Types
<1>3. Behind'
  <2> SUFFICES ASSUME NEW p \in Ids, p <= recorded', Passed(p, success), p \notin missed'
               PROVE  p \in events
    BY <1>1 DEF Behind, Passed
  <2>1. p <= recorded
    BY <1>1, <1>2
  <2> QED
    BY <1>1, <2>1 DEF Behind, WindowInv
<1>4. ASSUME NEW s \in Syncs PROVE Asked(s)' /\ Paged(s)'
  <2>1. Asked(s) /\ Paged(s)
    BY DEF WindowInv
  <2>2. PICK from \in Nat : from = mem[s].from /\ from = mem'[s].from
    BY <1>1, Bounds DEF Types, MemType
  <2>3. mem[s].page * PageSize \in Nat
    BY Bounds DEF Types, MemType
  <2>4. ASSUME NEW p \in Ids, Rank(mem[s].from, p) >= mem[s].page * PageSize
        PROVE  Rank(mem[s].from, p)' >= mem[s].page * PageSize
    <3>1. Rank(from, p) \in Nat /\ Rank(from, p)' \in Nat /\ Rank(from, p) <= Rank(from, p)'
      BY <1>2, RankGrows
    <3>2. Rank(from, p) = Rank(mem[s].from, p) /\ Rank(from, p)' = Rank(mem[s].from, p)'
      BY <2>2 DEF Rank, Newer, Window
    <3> QED
      BY <2>3, <2>4, <3>1, <3>2
  <2>5. Asked(s)'
    <3>1. DayBefore(success)' = DayBefore(success)
      BY <1>1 DEF DayBefore
    <3> QED
      BY <1>1, <2>1, <3>1 DEF Asked
  <2>6. Paged(s)'
    BY <1>1, <2>1, <2>4 DEF Paged
  <2> QED
    BY <2>5, <2>6
<1> QED
  BY <1>3, <1>4 DEF WindowInv

LEMMA WindowInit == Init => WindowInv
<1> SUFFICES ASSUME Init PROVE WindowInv
  OBVIOUS
<1>1. success = 0 /\ \A s \in Syncs : at[s] = "idle"
  BY DEF Init
<1>2. \A p \in Ids : ~Passed(p, success)
  BY <1>1, Passes DEF Passed
<1> QED
  BY <1>1, <1>2 DEF WindowInv, Behind, Asked, Paged, Computing

LEMMA WindowNext ==
    ASSUME Types, Types', WindowInv, [Next]_vars
    PROVE  WindowInv'
<1>1. ASSUME NEW s \in Syncs, Step(s) PROVE WindowInv'
  BY <1>1, BeginWindow, ReadPageWindow, StoreWindow, RebuildWindow, FinishWindow DEF Step
<1>2. ASSUME NEW s \in Syncs, PageFails(s) PROVE WindowInv'
  <2>1. /\ events \subseteq events' /\ Forget(s) /\ UNCHANGED <<recorded, success, missed>>
    BY <1>2 DEF PageFails, Inserted, SuccessAfterError
  <2> QED
    BY <2>1, GivenUp
<1>3. ASSUME NEW s \in Syncs, Die(s) PROVE WindowInv'
  <2>1. Forget(s) /\ UNCHANGED <<recorded, events, success, missed>>
    BY <1>3 DEF Die
  <2> QED
    BY <2>1, GivenUp
<1>4. ASSUME UNCHANGED <<recorded, events, success, at, mem, missed>> PROVE WindowInv'
  <2>1. DayBefore(success) <= DayBefore(success')
    BY <1>4, Bounds DEF DayBefore, Types
  <2>2. \A s \in Syncs : Asked(s)' /\ Paged(s)'
    BY <1>4, <2>1, StandingStill DEF WindowInv
  <2> QED
    BY <1>4, <2>2 DEF WindowInv, Behind, Passed
<1>5. CASE \E i \in intervals : CloseByHand(i)
  BY <1>4, <1>5 DEF CloseByHand
<1>6. CASE Tomorrow
  BY <1>4, <1>6 DEF Tomorrow
<1>7. CASE UNCHANGED vars
  BY <1>4, <1>7 DEF vars
<1> QED
  BY <1>1, <1>2, <1>3, <1>5, <1>6, <1>7, GoThroughWindow DEF Next

-----------------------------------------------------------------------------
(* The theorems *)

\* The types, and what they say of the tables: every stored pass is one PERCo has
\* heard of, and every interval, also one that a rebuild computes from what it read
\* earlier, begins and ends with a stored pass.
THEOREM TypeCorrect == Spec => []TypeOK
<1>1. Types => TypeOK
  <2> SUFFICES ASSUME Types PROVE TypeOK
    OBVIOUS
  <2>1. ASSUME NEW s \in Syncs PROVE mem[s].page \in 0..MaxPages /\ mem[s].seen \in 0..recorded
    <3>1. mem[s] \in MemType /\ mem[s].seen <= recorded
      BY DEF Types, InHand
    <3>2. mem[s].page \in 0..MaxPages /\ mem[s].seen \in 0..N /\ recorded \in Nat
      BY <3>1, Passes DEF MemType, Types
    <3> QED
      BY <3>1, <3>2, Passes
  <2> QED
    BY <2>1, Bounds DEF Types, TypeOK, N, Stages
<1> QED
  BY <1>1, TypesAlways, PTL

\* SyncEventsAsync, its window and its pages: a pass that lies before the window of
\* every later synchronisation is in perco_access_events, unless PERCo heard of it when
\* the window had passed it or while the synchronisation ran that moved the window past
\* it, or it lay beyond the last page.
THEOREM BehindWindow == Spec => []BehindWindowStored
<1>1. Types /\ WindowInv => BehindWindowStored
  <2> SUFFICES ASSUME Types, WindowInv, NEW p \in 1..recorded, Passed(p, success)
               PROVE  p \in events \cup missed
    BY DEF BehindWindowStored
  <2>1. p \in Ids /\ p <= recorded
    BY Passes DEF Types
  <2> QED
    BY <2>1 DEF WindowInv, Behind
<1>2. Init => Types /\ WindowInv
  BY TypesInit, WindowInit
<1>3. Types /\ WindowInv /\ [Next]_vars => (Types /\ WindowInv)'
  BY TypesNext, WindowNext
<1> QED
  BY <1>1, <1>2, <1>3, PTL DEF Spec

\* RebuildPresenceIntervalsForNewEventsAsync and ClosePresenceIntervalAsync: no step
\* of any synchronisation removes an interval a person has closed.
THEOREM ByHandIsKept == Spec => ByHandStays
<1> DEFINE Hand == intervals \ Automatic
<1>1. ASSUME [Next]_vars PROVE Hand \subseteq Hand'
  <2>1. Hand = {i \in intervals : i.source = "PERCO_MANUAL"}
    BY DEF Automatic
  <2>2. Hand' = {i \in intervals' : i.source = "PERCO_MANUAL"}
    BY DEF Automatic
  <2>3. CASE UNCHANGED intervals
    BY <2>1, <2>2, <2>3
  <2>4. ASSUME NEW s \in Syncs, DeleteOld(s) PROVE Hand \subseteq Hand'
    BY <2>1, <2>2, <2>4 DEF DeleteOld, Kept, Automatic
  <2>5. ASSUME NEW s \in Syncs, InsertNew(s) PROVE Hand \subseteq Hand'
    BY <2>1, <2>2, <2>5 DEF InsertNew
  <2>6. ASSUME NEW i \in intervals, CloseByHand(i) PROVE Hand \subseteq Hand'
    BY <2>1, <2>2, <2>6 DEF CloseByHand, Automatic
  <2> HIDE DEF Hand
  <2>7. CASE GoThrough \/ Tomorrow \/ UNCHANGED vars
    BY <2>3, <2>7 DEF GoThrough, Tomorrow, vars
  <2>8. ASSUME NEW s \in Syncs, Step(s) \/ PageFails(s) \/ Die(s) PROVE Hand \subseteq Hand'
    BY <2>3, <2>4, <2>5, <2>8
       DEF Step, Begin, ReadPage, Store, ReadEvents, ReadClosings, Finish, PageFails, Die
  <2> QED
    BY <1>1, <2>6, <2>7, <2>8 DEF Next
<1>2. [Next]_vars => [intervals \ Automatic \subseteq intervals' \ Automatic']_vars
  BY <1>1
<1> QED
  BY <1>2, PTL DEF Spec, ByHandStays
=============================================================================
