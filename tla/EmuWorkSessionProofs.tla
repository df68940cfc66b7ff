------------------------- MODULE EmuWorkSessionProofs -------------------------
(***************************************************************************)
(* Theorems about EmuWorkSession, for any number of requests at once that  *)
(* may die between any two of their commits: types; and, for every session *)
(* nobody has committed to after another request had overtaken him, that   *)
(* nobody works there and elsewhere, that it is closed once completed, and *)
(* that no participant's time is counted twice in it.                      *)
(***************************************************************************)
EXTENDS EmuWorkSession, FiniteSetTheorems, TLAPS

-----------------------------------------------------------------------------
(* The inductive invariants *)

SessionType == [state : {"none", "open", "completed", "deleted"},
                waits : BOOLEAN, ver : 0 .. MaxVersion]
RowType     == [s : Sessions, e : Employees,
                status : {"working", "waiting", "removed"} \cup Finished]
PauseType   == [s : Sessions, emps : SUBSET Employees, open : BOOLEAN]

Requests == [step : {"save", "close", "insert"}, w : Write, todo : SUBSET DOMAIN rows,
             late : BOOLEAN]

\* What a request holds is about rows and pauses that exist.
RequestTypes(r) ==
    \/ req[r] = Free
    \/ /\ req[r] \in Requests
       /\ req[r].w.set \cup req[r].w.drops \cup req[r].w.insert \subseteq DOMAIN rows
       /\ req[r].w.ends \subseteq DOMAIN pauses

Types ==
    /\ sess \in [Sessions -> SessionType]
    /\ rows \in Seq(RowType) /\ Len(rows) <= MaxRows
    /\ pauses \in Seq(PauseType)
    /\ timed \in Seq(Nat) /\ Len(timed) = Len(rows)
    /\ DOMAIN req = Slots
    /\ \A r \in Slots : RequestTypes(r)
    /\ raced \subseteq Sessions

RowsKnown == \A i \in DOMAIN rows : sess[rows[i].s].state # "none"

\* A request changes nothing but its own session's rows and pauses.
Placed(r) ==
    req[r] # Free =>
        /\ \A i \in req[r].w.set \cup req[r].w.drops \cup req[r].w.insert \cup req[r].todo :
              rows[i].s = req[r].w.s
        /\ \A p \in req[r].w.ends : pauses[p].s = req[r].w.s
        /\ req[r].w.state # "new" => sess[req[r].w.s].state # "none"

InPlace == RowsKnown /\ \A r \in Slots : Placed(r)

\* Who is done with a work and still in a pause has come back to it.
PausedAreActive ==
    \A i \in DOMAIN rows, p \in DOMAIN pauses :
        /\ rows[i].s \notin raced
        /\ rows[i].status # "removed"
        /\ pauses[p].open /\ pauses[p].s = rows[i].s /\ rows[i].e \in pauses[p].emps
        => \E k \in ActiveRows(rows[i].s) : rows[k].e = rows[i].e

\* What a request has made sure of, and relies on until it has saved.
Decided(w) ==
    /\ w.state = "new" => sess[w.s].state = "none"
    /\ w.state \in {"same", "completed"} => sess[w.s].state = "open"
    /\ w.state = "deleted" => /\ sess[w.s].state \in {"open", "completed"}
                              /\ w.set = {} /\ w.adds = {}
    /\ w.set \subseteq RowsOf(w.s) /\ w.drops \subseteq RowsOf(w.s)
    /\ \A e \in w.adds : ~WorksElsewhere({e}, w.s)
    /\ w.to = "working" => \A i \in w.set : ~WorksElsewhere({rows[i].e}, w.s)
    /\ w.to \in Finished =>
          \A i \in w.set : OpenPauses(w.s, {rows[i].e}) \subseteq w.ends
    /\ w.drops # {} => RowsOf(w.s) = ActiveRows(w.s) /\ w.set = {}
    /\ w.pause # {} => w.drops = {} /\ w.to = "waiting"
    /\ \A e \in w.pause : RowsOfAny(w.s, {e}) # {}
    /\ w.state = "completed" =>
          /\ ActiveRows(w.s) \subseteq w.set /\ w.to \in Finished
          /\ w.adds = {}

\* The rows that get a new interval have none, or lose it before.
Renewed(w, R) == \A i \in R : rows[i].s = w.s /\ rows[i].e \in w.close

\* What nobody has overtaken is still as it was read.
Stays(r) ==
    \/ req[r] = Free
    \/ req[r].late
    \/ /\ req[r].step = "save"   => Decided(req[r].w) /\ Renewed(req[r].w, req[r].w.insert)
       /\ req[r].step = "close"  =>
             \A i \in req[r].todo : timed[i] = 0 \/ Renewed(req[r].w, {i})
       /\ req[r].step = "insert" => \A i \in req[r].todo : timed[i] = 0

Safe ==
    /\ PausedAreActive
    /\ OneWorkAtATime /\ CompletedIsClosed /\ OneOpenInterval
    /\ \A r \in Slots : Stays(r)

-----------------------------------------------------------------------------
(* Sequences *)

LEMMA FunctionIsSeq ==
    ASSUME NEW T, NEW n \in Nat, NEW f \in [1..n -> T]
    PROVE  f \in Seq(T) /\ Len(f) = n /\ DOMAIN f = 1..n
OBVIOUS

LEMMA Appended ==
    ASSUME NEW T, NEW a \in Seq(T), NEW b \in Seq(T)
    PROVE  /\ a \o b \in Seq(T) /\ Len(a \o b) = Len(a) + Len(b)
           /\ DOMAIN a = 1..Len(a) /\ DOMAIN b = 1..Len(b)
           /\ \A i \in DOMAIN a : i \in DOMAIN (a \o b) /\ (a \o b)[i] = a[i]
           /\ \A i \in DOMAIN (a \o b) \ DOMAIN a :
                 i - Len(a) \in DOMAIN b /\ (a \o b)[i] = b[i - Len(a)]
OBVIOUS

\* The order EF inserts new participants in is any, but they are the ones to add.
LEMMA SetInOrder ==
    ASSUME NEW S, IsFiniteSet(S)
    PROVE  Cardinality(S) \in Nat /\ SetToSeq(S) \in [1..Cardinality(S) -> S]
<1>1. Cardinality(S) \in Nat /\ ExistsBijection(1..Cardinality(S), S)
  BY FS_CardinalityType
<1>2. \E f \in [1..Cardinality(S) -> S] : IsInjective(f)
  BY <1>1 DEF ExistsBijection, Bijection, Injection, IsInjective
<1> QED
  BY <1>1, <1>2 DEF SetToSeq

-----------------------------------------------------------------------------
(* What a request decides on what it reads *)

Legit(w) ==
    /\ w \in Write
    /\ w.set \cup w.drops \cup w.insert \subseteq DOMAIN rows /\ w.ends \subseteq DOMAIN pauses
    /\ Decided(w) /\ Renewed(w, w.insert)
    /\ \A p \in w.ends : pauses[p].s = w.s

LEMMA Bounds == MaxRows \in Nat /\ MaxVersion \in Nat
BY ConstantsAssumption

LEMMA RowsTyped ==
    ASSUME Types, NEW i \in DOMAIN rows
    PROVE  rows[i].s \in Sessions /\ rows[i].e \in Employees
<1>1. rows[i] \in RowType
  BY DEF Types
<1> QED
  BY <1>1 DEF RowType

LEMMA Reads ==
    ASSUME Types, NEW s \in Sessions
    PROVE  /\ DOMAIN rows \subseteq RowIds /\ DOMAIN pauses \subseteq PauseIds
           /\ ActiveRows(s) \subseteq RowsOf(s) /\ RowsOf(s) \subseteq DOMAIN rows
           /\ \A i \in DOMAIN rows : rows[i].s \in Sessions /\ rows[i].e \in Employees
           /\ \A E : RowsOfAny(s, E) \subseteq ActiveRows(s)
           /\ \A E : OpenPauses(s, E) \subseteq DOMAIN pauses
           /\ \A R \in SUBSET DOMAIN rows : Names(R) \subseteq Employees
<1>1. DOMAIN rows = 1..Len(rows) /\ DOMAIN pauses = 1..Len(pauses)
      /\ Len(rows) \in Nat /\ Len(pauses) \in Nat
  BY DEF Types
<1>2. \A i \in DOMAIN rows : rows[i].s \in Sessions /\ rows[i].e \in Employees
  BY RowsTyped
<1> QED
  BY <1>1, <1>2, Bounds DEF Types, RowIds, PauseIds, ActiveRows, RowsOf, RowsOfAny, OpenPauses, Names

LEMMA WaitsKnown ==
    ASSUME NEW s, NEW b \in BOOLEAN
    PROVE  IfChanged(s, {b}) \in {{}, {TRUE}, {FALSE}}
<1>1. IfChanged(s, {b}) = {} \/ IfChanged(s, {b}) = {b}
  BY DEF IfChanged
<1> QED
  BY <1>1

LEMMA VersionKnown ==
    ASSUME Types, NEW r, NEW w, w.s \in Sessions, Load(r, w)
    PROVE  NextVersion(w.s) \in 1..MaxVersion
BY Bounds DEF Types, SessionType, Load, NextVersion

\* A conflict of any of E is a conflict of E.
LEMMA ConflictOfOne ==
    ASSUME NEW E, NEW s, ~WorksElsewhere(E, s), NEW e \in E
    PROVE  ~WorksElsewhere({e}, s)
BY DEF WorksElsewhere

LEMMA PauseOfOne ==
    ASSUME NEW E, NEW s, NEW e \in E
    PROVE  OpenPauses(s, {e}) \subseteq OpenPauses(s, E)
BY DEF OpenPauses

LEMMA CreateIsLegit ==
    ASSUME Types, NEW r \in Slots, NEW s \in Sessions, NEW E \in SUBSET Employees,
           CreateWorkSession(r, s, E)
    PROVE  \E w : Load(r, w) /\ Legit(w)
<1> DEFINE w == [NoWrite(s) EXCEPT !.state = "new", !.adds = E]
<1>1. /\ sess[s].state = "none" /\ ~WorksElsewhere(E, s) /\ Load(r, w)
  BY DEF CreateWorkSession
<1>2. /\ w.s = s /\ w.ver = NextVersion(s) /\ w.state = "new" /\ w.waits = {} /\ w.to = "working"
      /\ w.set = {} /\ w.ends = {} /\ w.pause = {} /\ w.adds = E /\ w.drops = {}
      /\ w.close = {} /\ w.insert = {}
  BY DEF NoWrite
<1>3. w \in Write
  <2>1. NextVersion(s) \in 1..MaxVersion
    BY <1>1, <1>2, VersionKnown
  <2> QED
    BY <2>1 DEF NoWrite, Write
<1>4. Decided(w) /\ Renewed(w, w.insert)
  <2> HIDE DEF w
  <2> QED
    BY <1>1, <1>2, ConflictOfOne DEF Decided, Renewed, Finished
<1> HIDE DEF w
<1> QED
  BY <1>1, <1>2, <1>3, <1>4 DEF Legit

LEMMA TouchIsLegit ==
    ASSUME Types, NEW r \in Slots, NEW s \in Sessions, Touch(r, s)
    PROVE  \E w : Load(r, w) /\ Legit(w)
<1> DEFINE w == NoWrite(s)
<1>1. sess[s].state = "open" /\ Load(r, w)
  BY DEF Touch
<1>2. /\ w.s = s /\ w.ver = NextVersion(s) /\ w.state = "same" /\ w.waits = {} /\ w.to = "working"
      /\ w.set = {} /\ w.ends = {} /\ w.pause = {} /\ w.adds = {} /\ w.drops = {}
      /\ w.close = {} /\ w.insert = {}
  BY DEF NoWrite
<1>3. w \in Write
  <2>1. NextVersion(s) \in 1..MaxVersion
    BY <1>1, <1>2, VersionKnown
  <2> QED
    BY <2>1 DEF NoWrite, Write
<1>4. Decided(w) /\ Renewed(w, w.insert)
  <2> HIDE DEF w
  <2> QED
    BY <1>1, <1>2 DEF Decided, Renewed, Finished
<1> HIDE DEF w
<1> QED
  BY <1>1, <1>2, <1>3, <1>4 DEF Legit

LEMMA UpdateIsLegit ==
    ASSUME Types, NEW r \in Slots, NEW s \in Sessions, NEW E \in SUBSET Employees,
           UpdateWorkSession(r, s, E)
    PROVE  \E w : Load(r, w) /\ Legit(w)
<1> DEFINE added   == E \ Names(RowsOf(s))
           dropped == RowsOf(s) \ RowsOfAny(s, E)
           w == [NoWrite(s) EXCEPT !.adds = added, !.drops = dropped]
<1>1. /\ sess[s].state = "open" /\ RowsOf(s) = ActiveRows(s) /\ ~WorksElsewhere(E, s) /\ Load(r, w)
  BY DEF UpdateWorkSession
<1>2. /\ w.s = s /\ w.ver = NextVersion(s) /\ w.state = "same" /\ w.waits = {} /\ w.to = "working"
      /\ w.set = {} /\ w.ends = {} /\ w.pause = {} /\ w.adds = added /\ w.drops = dropped
      /\ w.close = {} /\ w.insert = {}
  BY DEF NoWrite
<1>3. added \subseteq E /\ dropped \subseteq RowsOf(s) /\ RowsOf(s) \subseteq DOMAIN rows
      /\ DOMAIN rows \subseteq RowIds
  BY Reads
<1> HIDE DEF added, dropped
<1>4. w \in Write
  <2>1. NextVersion(s) \in 1..MaxVersion
    BY <1>1, <1>2, VersionKnown
  <2> QED
    BY <1>3, <2>1 DEF NoWrite, Write
<1>5. Decided(w) /\ Renewed(w, w.insert)
  <2> HIDE DEF w
  <2> QED
    BY <1>1, <1>2, <1>3, ConflictOfOne DEF Decided, Renewed, Finished
<1> HIDE DEF w
<1> QED
  BY <1>1, <1>2, <1>3, <1>4, <1>5 DEF Legit

LEMMA PauseIsLegit ==
    ASSUME Types, NEW r \in Slots, NEW s \in Sessions, NEW E \in SUBSET Employees,
           PauseWorkSession(r, s, E)
    PROVE  \E w : Load(r, w) /\ Legit(w)
<1> DEFINE R == RowsOfAny(s, E)
           waits == IfChanged(s, WaitsWith(ActiveRows(s) \ R))
           w == [NoWrite(s) EXCEPT !.waits = waits, !.to = "waiting", !.set = R,
                                   !.pause = Names(R), !.close = Names(R), !.insert = R]
<1>1. sess[s].state = "open" /\ Load(r, w)
  BY DEF PauseWorkSession
<1>2. /\ w.s = s /\ w.ver = NextVersion(s) /\ w.state = "same" /\ w.waits = waits
      /\ w.to = "waiting" /\ w.set = R /\ w.ends = {} /\ w.pause = Names(R) /\ w.adds = {}
      /\ w.drops = {} /\ w.close = Names(R) /\ w.insert = R
  BY DEF NoWrite
<1>3. /\ R \subseteq ActiveRows(s) /\ ActiveRows(s) \subseteq RowsOf(s) /\ RowsOf(s) \subseteq DOMAIN rows
      /\ DOMAIN rows \subseteq RowIds /\ Names(R) \subseteq Employees
  BY Reads
<1>4. waits \in {{}, {TRUE}, {FALSE}}
  BY WaitsKnown DEF WaitsWith
<1>5. \A i \in R : rows[i].s = s /\ rows[i].e \in Names(R) /\ R # {}
  BY DEF RowsOfAny, ActiveRows, RowsOf, Names
<1>6. \A e \in Names(R) : RowsOfAny(s, {e}) # {}
  BY DEF RowsOfAny, Names
<1> HIDE DEF R, waits
<1>7. w \in Write
  <2>1. NextVersion(s) \in 1..MaxVersion
    BY <1>1, <1>2, VersionKnown
  <2> QED
    BY <1>3, <1>4, <2>1 DEF NoWrite, Write
<1>8. Decided(w) /\ Renewed(w, w.insert)
  <2> HIDE DEF w
  <2> QED
    BY <1>1, <1>2, <1>3, <1>5, <1>6 DEF Decided, Renewed, Finished
<1> HIDE DEF w
<1> QED
  BY <1>1, <1>2, <1>3, <1>7, <1>8 DEF Legit

LEMMA ResumeIsLegit ==
    ASSUME Types, NEW r \in Slots, NEW s \in Sessions, NEW E \in SUBSET Employees,
           ResumeWorkSession(r, s, E)
    PROVE  \E w : Load(r, w) /\ Legit(w)
<1> DEFINE R == RowsOfAny(s, E)
           set == {i \in R : rows[i].status # "working"}
           ends == OpenPauses(s, E)
           waits == IfChanged(s, {FALSE})
           w == [NoWrite(s) EXCEPT !.waits = waits, !.set = set, !.ends = ends,
                                   !.close = ResumeCloses(E), !.insert = R]
<1>1. sess[s].state = "open" /\ ~WorksElsewhere(E, s) /\ Load(r, w)
  BY DEF ResumeWorkSession
<1>2. /\ w.s = s /\ w.ver = NextVersion(s) /\ w.state = "same" /\ w.waits = waits
      /\ w.to = "working" /\ w.set = set /\ w.ends = ends /\ w.pause = {} /\ w.adds = {}
      /\ w.drops = {} /\ w.close = E /\ w.insert = R
  BY DEF NoWrite, ResumeCloses
<1>3. /\ R \subseteq ActiveRows(s) /\ ActiveRows(s) \subseteq RowsOf(s) /\ RowsOf(s) \subseteq DOMAIN rows
      /\ DOMAIN rows \subseteq RowIds /\ set \subseteq R
      /\ ends \subseteq DOMAIN pauses /\ DOMAIN pauses \subseteq PauseIds
  BY Reads
<1>4. waits \in {{}, {TRUE}, {FALSE}}
  BY WaitsKnown
<1>5. \A i \in R : rows[i].s = s /\ rows[i].e \in E
  BY DEF RowsOfAny, ActiveRows, RowsOf
<1>8. \A p \in ends : pauses[p].s = s
  BY DEF OpenPauses
<1> HIDE DEF R, waits, set, ends
<1>6. w \in Write
  <2>1. NextVersion(s) \in 1..MaxVersion
    BY <1>1, <1>2, VersionKnown
  <2> QED
    BY <1>3, <1>4, <2>1 DEF NoWrite, Write, ResumeCloses
<1>7. Decided(w) /\ Renewed(w, w.insert)
  <2> HIDE DEF w
  <2> QED
    BY <1>1, <1>2, <1>3, <1>5, ConflictOfOne DEF Decided, Renewed, Finished
<1> HIDE DEF w
<1> QED
  BY <1>1, <1>2, <1>3, <1>6, <1>7, <1>8 DEF Legit

LEMMA CompleteIsLegit ==
    ASSUME Types, NEW r \in Slots, NEW s \in Sessions, NEW E \in SUBSET Employees,
           CompleteWorkSession(r, s, E)
    PROVE  \E w : Load(r, w) /\ Legit(w)
<1> DEFINE R == RowsOfAny(s, E)
           state == IF ActiveRows(s) \subseteq R THEN "completed" ELSE "same"
           w == [NoWrite(s) EXCEPT !.state = state, !.to = "done", !.set = R, !.close = E]
<1>1. sess[s].state = "open" /\ OpenPauses(s, E) = {} /\ Load(r, w)
  BY DEF CompleteWorkSession, NonePaused
<1>2. /\ w.s = s /\ w.ver = NextVersion(s) /\ w.state = state /\ w.waits = {}
      /\ w.to = "done" /\ w.set = R /\ w.ends = {} /\ w.pause = {} /\ w.adds = {}
      /\ w.drops = {} /\ w.close = E /\ w.insert = {}
  BY DEF NoWrite
<1>3. /\ R \subseteq ActiveRows(s) /\ ActiveRows(s) \subseteq RowsOf(s) /\ RowsOf(s) \subseteq DOMAIN rows
      /\ DOMAIN rows \subseteq RowIds
  BY Reads
<1>4. \A i \in R : rows[i].e \in E
  BY DEF RowsOfAny
<1>5. \A i \in R : OpenPauses(s, {rows[i].e}) = {}
  BY <1>1, <1>4, PauseOfOne
<1>6. state \in {"same", "completed"} /\ (state = "completed" => ActiveRows(s) \subseteq R)
  OBVIOUS
<1> HIDE DEF R, state
<1>7. w \in Write
  <2>1. NextVersion(s) \in 1..MaxVersion
    BY <1>1, <1>2, VersionKnown
  <2> QED
    BY <1>3, <1>6, <2>1 DEF NoWrite, Write, Finished
<1>8. Decided(w) /\ Renewed(w, w.insert)
  <2> HIDE DEF w
  <2>1. \A i \in w.set : OpenPauses(w.s, {rows[i].e}) \subseteq w.ends
    BY <1>2, <1>5
  <2> QED
    BY <1>1, <1>2, <1>3, <1>6, <2>1 DEF Decided, Renewed, Finished
<1> HIDE DEF w
<1> QED
  BY <1>1, <1>2, <1>3, <1>7, <1>8 DEF Legit

LEMMA AddIsLegit ==
    ASSUME Types, NEW r \in Slots, NEW s \in Sessions, NEW e \in Employees,
           AddWorkSessionEmployee(r, s, e)
    PROVE  \E w : Load(r, w) /\ Legit(w)
<1> DEFINE waits == IfChanged(s, {FALSE})
           w == [NoWrite(s) EXCEPT !.waits = waits, !.adds = {e}]
<1>1. sess[s].state = "open" /\ ~WorksElsewhere({e}, s) /\ Load(r, w)
  BY DEF AddWorkSessionEmployee
<1>2. /\ w.s = s /\ w.ver = NextVersion(s) /\ w.state = "same" /\ w.waits = waits
      /\ w.to = "working" /\ w.set = {} /\ w.ends = {} /\ w.pause = {} /\ w.adds = {e}
      /\ w.drops = {} /\ w.close = {} /\ w.insert = {}
  BY DEF NoWrite
<1>3. waits \in {{}, {TRUE}, {FALSE}}
  BY WaitsKnown
<1> HIDE DEF waits
<1>4. w \in Write
  <2>1. NextVersion(s) \in 1..MaxVersion
    BY <1>1, <1>2, VersionKnown
  <2> QED
    BY <1>3, <2>1 DEF NoWrite, Write
<1>5. Decided(w) /\ Renewed(w, w.insert)
  <2> HIDE DEF w
  <2> QED
    BY <1>1, <1>2 DEF Decided, Renewed, Finished
<1> HIDE DEF w
<1> QED
  BY <1>1, <1>2, <1>4, <1>5 DEF Legit

LEMMA LeaveIsLegit ==
    ASSUME Types, NEW r \in Slots, NEW s \in Sessions, NEW i \in DOMAIN rows,
           NEW to \in Finished, Leave(r, s, i, to)
    PROVE  \E w : Load(r, w) /\ Legit(w)
<1> DEFINE E == {rows[i].e}
           waits == IfChanged(s, WaitsWith(ActiveRows(s) \ {i}))
           ends == OpenPauses(s, E)
           w == [NoWrite(s) EXCEPT !.waits = waits, !.to = to, !.set = {i}, !.ends = ends,
                                   !.close = E]
<1>1. sess[s].state = "open" /\ Load(r, w)
      /\ i \in IF to = "done" THEN ActiveRows(s) ELSE RowsOf(s)
  BY DEF Leave
<1>2. /\ w.s = s /\ w.ver = NextVersion(s) /\ w.state = "same" /\ w.waits = waits
      /\ w.to = to /\ w.set = {i} /\ w.ends = ends /\ w.pause = {} /\ w.adds = {}
      /\ w.drops = {} /\ w.close = E /\ w.insert = {}
  BY DEF NoWrite
<1>3. /\ i \in RowsOf(s) /\ i \in RowIds /\ E \subseteq Employees
      /\ ends \subseteq DOMAIN pauses /\ DOMAIN pauses \subseteq PauseIds
  BY <1>1, Reads
<1>4. waits \in {{}, {TRUE}, {FALSE}}
  BY WaitsKnown DEF WaitsWith
<1>5. OpenPauses(s, {rows[i].e}) = ends
  OBVIOUS
<1>8. \A p \in ends : pauses[p].s = s
  BY DEF OpenPauses
<1> HIDE DEF E, waits, ends
<1>6. w \in Write
  <2>1. NextVersion(s) \in 1..MaxVersion
    BY <1>1, <1>2, VersionKnown
  <2> QED
    BY <1>3, <1>4, <2>1 DEF NoWrite, Write
<1>7. Decided(w) /\ Renewed(w, w.insert)
  <2> HIDE DEF w
  <2>1. \A k \in w.set : OpenPauses(w.s, {rows[k].e}) \subseteq w.ends
    BY <1>2, <1>5
  <2> QED
    BY <1>1, <1>2, <1>3, <2>1 DEF Decided, Renewed, Finished
<1> HIDE DEF w
<1> QED
  BY <1>1, <1>2, <1>3, <1>6, <1>7, <1>8 DEF Legit

LEMMA DeleteIsLegit ==
    ASSUME Types, NEW r \in Slots, NEW s \in Sessions, DeleteWorkSession(r, s)
    PROVE  \E w : Load(r, w) /\ Legit(w)
<1> DEFINE w == [NoWrite(s) EXCEPT !.state = "deleted"]
<1>1. sess[s].state \in {"open", "completed"} /\ Load(r, w)
  BY DEF DeleteWorkSession
<1>2. /\ w.s = s /\ w.ver = NextVersion(s) /\ w.state = "deleted" /\ w.waits = {} /\ w.to = "working"
      /\ w.set = {} /\ w.ends = {} /\ w.pause = {} /\ w.adds = {} /\ w.drops = {}
      /\ w.close = {} /\ w.insert = {}
  BY DEF NoWrite
<1>3. w \in Write
  <2>1. NextVersion(s) \in 1..MaxVersion
    BY <1>1, <1>2, VersionKnown
  <2> QED
    BY <2>1 DEF NoWrite, Write
<1>4. Decided(w) /\ Renewed(w, w.insert)
  <2> HIDE DEF w
  <2> QED
    BY <1>1, <1>2 DEF Decided, Renewed, Finished
<1> HIDE DEF w
<1> QED
  BY <1>1, <1>2, <1>3, <1>4 DEF Legit

LEMMA BeginIsLegit ==
    ASSUME Types, NEW r \in Slots, Begin(r)
    PROVE  \E w : Load(r, w) /\ Legit(w)
BY CreateIsLegit, TouchIsLegit, UpdateIsLegit, PauseIsLegit, ResumeIsLegit,
   CompleteIsLegit, AddIsLegit, LeaveIsLegit, DeleteIsLegit DEF Begin

-----------------------------------------------------------------------------
(* What a commit of SaveChanges leaves in each table *)

LEMMA Held ==
    ASSUME Types, NEW r \in Slots, req[r].step # "free", NEW w, w = req[r].w
    PROVE  /\ req[r] \in Requests
           /\ w \in Write /\ w.set \cup w.drops \cup w.insert \subseteq DOMAIN rows
           /\ w.ends \subseteq DOMAIN pauses
           /\ w.s \in Sessions /\ w.ver \in 1..MaxVersion
           /\ w.state \in {"new", "same", "completed", "deleted"}
           /\ w.to \in {"working", "waiting"} \cup Finished
           /\ w.adds \in SUBSET Employees /\ w.pause \in SUBSET Employees
<1>1. req[r] # Free
  BY DEF Free
<1>2. /\ req[r] \in Requests
      /\ req[r].w.set \cup req[r].w.drops \cup req[r].w.insert \subseteq DOMAIN rows
      /\ req[r].w.ends \subseteq DOMAIN pauses
  BY <1>1 DEF Types, RequestTypes
<1>3. w \in Write
  BY <1>2 DEF Requests
<1>4. /\ w.s \in Sessions /\ w.ver \in 1..MaxVersion
      /\ w.state \in {"new", "same", "completed", "deleted"}
      /\ w.to \in {"working", "waiting"} \cup Finished
      /\ w.adds \in SUBSET Employees /\ w.pause \in SUBSET Employees
  BY <1>3 DEF Write
<1> QED
  BY <1>2, <1>3, <1>4

LEMMA SavedRows ==
    ASSUME Types, NEW r \in Slots, Save(r), NEW w, w = req[r].w
    PROVE  /\ w \in Write /\ w.set \cup w.drops \cup w.insert \subseteq DOMAIN rows
           /\ rows' \in Seq(RowType) /\ Len(rows') <= MaxRows
           /\ Len(rows') = Len(rows) + Len(SetToSeq(w.adds))
           /\ Len(SetToSeq(w.adds)) \in Nat
           /\ DOMAIN SetToSeq(w.adds) = 1..Len(SetToSeq(w.adds))
           /\ \A i \in DOMAIN rows :
                 /\ i \in DOMAIN rows' /\ rows'[i].s = rows[i].s /\ rows'[i].e = rows[i].e
                 /\ rows'[i].status = IF i \in w.set THEN w.to
                                      ELSE IF i \in w.drops THEN "removed"
                                      ELSE rows[i].status
           /\ \A i \in DOMAIN rows' \ DOMAIN rows :
                 rows'[i].s = w.s /\ rows'[i].e \in w.adds /\ rows'[i].status = "working"
<1> DEFINE new == SetToSeq(w.adds)
           Status(i) == IF i \in w.set THEN w.to ELSE IF i \in w.drops THEN "removed" ELSE rows[i].status
           old == [i \in DOMAIN rows |-> [rows[i] EXCEPT !.status = Status(i)]]
           added == [k \in DOMAIN new |-> [s |-> w.s, e |-> new[k], status |-> "working"]]
<1>1. req[r].step = "save" /\ Len(rows) + Len(new) <= MaxRows /\ rows' = old \o added
  BY DEF Save
<1>2. /\ w \in Write /\ w.set \cup w.drops \cup w.insert \subseteq DOMAIN rows
      /\ w.adds \in SUBSET Employees /\ w.s \in Sessions
      /\ w.to \in {"working", "waiting"} \cup Finished
  BY <1>1, Held
<1>3. /\ Cardinality(w.adds) \in Nat /\ new \in [1..Cardinality(w.adds) -> w.adds]
  BY <1>2, FS_Subset, ConstantsAssumption, SetInOrder
<1>4. Len(new) \in Nat /\ DOMAIN new = 1..Len(new) /\ \A k \in DOMAIN new : new[k] \in w.adds
  BY <1>3, FunctionIsSeq
<1>5. /\ Len(rows) \in Nat /\ DOMAIN rows = 1..Len(rows) /\ \A i \in DOMAIN rows : rows[i] \in RowType
  BY DEF Types
<1> HIDE DEF new
<1>6. \A i \in DOMAIN rows : Status(i) \in {"working", "waiting", "removed"} \cup Finished
  BY <1>2, <1>5 DEF RowType
<1>7. \A i \in DOMAIN rows : [rows[i] EXCEPT !.status = Status(i)] \in RowType
  <2> HIDE DEF Status
  <2> QED
    BY <1>5, <1>6 DEF RowType
<1>8. /\ old \in Seq(RowType) /\ Len(old) = Len(rows) /\ DOMAIN old = DOMAIN rows
  <2>1. old \in [1..Len(rows) -> RowType]
    BY <1>5, <1>7
  <2> HIDE DEF old
  <2> QED
    BY <1>5, <2>1, FunctionIsSeq
<1>9. /\ added \in Seq(RowType) /\ Len(added) = Len(new) /\ DOMAIN added = DOMAIN new
  <2>1. added \in [1..Len(new) -> RowType]
    BY <1>2, <1>4 DEF RowType
  <2> HIDE DEF added
  <2> QED
    BY <1>4, <2>1, FunctionIsSeq
<1>10. /\ old \o added \in Seq(RowType) /\ Len(old \o added) = Len(rows) + Len(new)
       /\ \A i \in DOMAIN rows : i \in DOMAIN (old \o added) /\ (old \o added)[i] = old[i]
       /\ \A i \in DOMAIN (old \o added) \ DOMAIN rows :
             i - Len(rows) \in DOMAIN new /\ (old \o added)[i] = added[i - Len(rows)]
  <2> HIDE DEF old, added, Status
  <2>1. /\ old \o added \in Seq(RowType) /\ Len(old \o added) = Len(old) + Len(added)
        /\ \A i \in DOMAIN old : i \in DOMAIN (old \o added) /\ (old \o added)[i] = old[i]
        /\ \A i \in DOMAIN (old \o added) \ DOMAIN old :
              i - Len(old) \in DOMAIN added /\ (old \o added)[i] = added[i - Len(old)]
    BY <1>8, <1>9, Appended
  <2> QED
    BY <1>8, <1>9, <2>1
<1>11. \A i \in DOMAIN rows : /\ old[i].s = rows[i].s /\ old[i].e = rows[i].e /\ old[i].status = Status(i)
  <2> HIDE DEF Status
  <2> QED
    BY <1>5 DEF RowType
<1>12. \A k \in DOMAIN new : added[k].s = w.s /\ added[k].e \in w.adds /\ added[k].status = "working"
  BY <1>4
<1>13. \A i \in DOMAIN rows : rows'[i].status = Status(i)
  <2> HIDE DEF Status, old, added
  <2> QED
    BY <1>1, <1>10, <1>11
<1>14. \A i \in DOMAIN rows : i \in DOMAIN rows' /\ rows'[i].s = rows[i].s /\ rows'[i].e = rows[i].e
  <2> HIDE DEF Status, old, added
  <2> QED
    BY <1>1, <1>10, <1>11
<1>15. \A i \in DOMAIN rows' \ DOMAIN rows :
          rows'[i].s = w.s /\ rows'[i].e \in w.adds /\ rows'[i].status = "working"
  <2> HIDE DEF Status, old, added
  <2> QED
    BY <1>1, <1>10, <1>12
<1>16. rows' \in Seq(RowType) /\ Len(rows') <= MaxRows /\ Len(rows') = Len(rows) + Len(new)
  <2> HIDE DEF Status, old, added
  <2> QED
    BY <1>1, <1>10
<1> HIDE DEF old, added
<1> QED
  BY <1>2, <1>4, <1>13, <1>14, <1>15, <1>16 DEF new

LEMMA SavedPauses ==
    ASSUME Types, NEW r \in Slots, Save(r), NEW w, w = req[r].w
    PROVE  /\ w.ends \subseteq DOMAIN pauses
           /\ pauses' \in Seq(PauseType)
           /\ \A p \in DOMAIN pauses :
                 /\ p \in DOMAIN pauses' /\ pauses'[p].s = pauses[p].s /\ pauses'[p].emps = pauses[p].emps
                 /\ pauses'[p].open <=> pauses[p].open /\ p \notin w.ends
           /\ \A p \in DOMAIN pauses' \ DOMAIN pauses :
                 w.pause # {} /\ pauses'[p].s = w.s /\ pauses'[p].emps = w.pause
<1> DEFINE old == [p \in DOMAIN pauses |-> [pauses[p] EXCEPT !.open = @ /\ p \notin w.ends]]
           added == IF w.pause = {} THEN <<>> ELSE <<[s |-> w.s, emps |-> w.pause, open |-> TRUE]>>
<1>1. req[r].step = "save" /\ pauses' = old \o added
  BY DEF Save
<1>2. /\ w \in Write /\ w.ends \subseteq DOMAIN pauses
      /\ w.pause \in SUBSET Employees /\ w.s \in Sessions
  BY <1>1, Held
<1>3. /\ Len(pauses) \in Nat /\ DOMAIN pauses = 1..Len(pauses)
      /\ \A p \in DOMAIN pauses : pauses[p] \in PauseType
  BY DEF Types
<1>4. /\ old \in Seq(PauseType) /\ Len(old) = Len(pauses) /\ DOMAIN old = DOMAIN pauses
  <2>1. old \in [1..Len(pauses) -> PauseType]
    BY <1>3 DEF PauseType
  <2> HIDE DEF old
  <2> QED
    BY <1>3, <2>1, FunctionIsSeq
<1>5. \A p \in DOMAIN pauses : /\ old[p].s = pauses[p].s /\ old[p].emps = pauses[p].emps
                               /\ old[p].open <=> pauses[p].open /\ p \notin w.ends
  BY <1>3 DEF PauseType
<1>6. /\ added \in Seq(PauseType)
      /\ \A k \in DOMAIN added : w.pause # {} /\ added[k].s = w.s /\ added[k].emps = w.pause
  <2>1. CASE w.pause = {}
    BY <2>1
  <2>2. CASE w.pause # {}
    <3> DEFINE one == [s |-> w.s, emps |-> w.pause, open |-> TRUE]
    <3>1. one \in PauseType /\ one.s = w.s /\ one.emps = w.pause
      BY <1>2 DEF PauseType
    <3>2. added = <<one>>
      BY <2>2
    <3> HIDE DEF one, added
    <3> QED
      BY <2>2, <3>1, <3>2
  <2> QED
    BY <2>1, <2>2
<1> HIDE DEF old, added
<1>7. /\ old \o added \in Seq(PauseType)
      /\ \A p \in DOMAIN pauses : p \in DOMAIN (old \o added) /\ (old \o added)[p] = old[p]
      /\ \A p \in DOMAIN (old \o added) \ DOMAIN pauses :
            p - Len(pauses) \in DOMAIN added /\ (old \o added)[p] = added[p - Len(pauses)]
  BY <1>4, <1>6, Appended
<1> QED
  BY <1>1, <1>2, <1>5, <1>6, <1>7

LEMMA SavedTimed ==
    ASSUME Types, NEW r \in Slots, Save(r), NEW w, w = req[r].w
    PROVE  /\ timed' \in Seq(Nat) /\ Len(timed') = Len(rows')
           /\ DOMAIN timed = DOMAIN rows /\ DOMAIN timed' = DOMAIN rows'
           /\ \A i \in DOMAIN rows : timed'[i] = 0 \/ timed'[i] = timed[i]
           /\ \A i \in DOMAIN rows' \ DOMAIN rows :
                 timed'[i] = IF w.state = "new" THEN 1 ELSE 0
<1> DEFINE new == SetToSeq(w.adds)
           old == [i \in DOMAIN timed |-> IF i \in w.drops THEN 0 ELSE timed[i]]
           added == [k \in DOMAIN new |-> IF w.state = "new" THEN 1 ELSE 0]
<1>1. timed' = old \o added
  BY DEF Save
<1>2. /\ Len(timed) \in Nat /\ DOMAIN timed = 1..Len(timed) /\ \A i \in DOMAIN timed : timed[i] \in Nat
      /\ Len(timed) = Len(rows) /\ DOMAIN rows = 1..Len(rows)
  BY DEF Types
<1>3. /\ rows' \in Seq(RowType) /\ Len(rows') = Len(rows) + Len(new) /\ Len(new) \in Nat
      /\ DOMAIN new = 1..Len(new)
  BY SavedRows
<1> HIDE DEF new
<1>4. /\ old \in Seq(Nat) /\ Len(old) = Len(timed) /\ DOMAIN old = DOMAIN timed
      /\ \A i \in DOMAIN timed : old[i] = 0 \/ old[i] = timed[i]
  <2>1. old \in [1..Len(timed) -> Nat] /\ \A i \in DOMAIN timed : old[i] = 0 \/ old[i] = timed[i]
    BY <1>2
  <2> HIDE DEF old
  <2> QED
    BY <1>2, <2>1, FunctionIsSeq
<1>5. /\ added \in Seq(Nat) /\ Len(added) = Len(new) /\ DOMAIN added = DOMAIN new
      /\ \A k \in DOMAIN new : added[k] = IF w.state = "new" THEN 1 ELSE 0
  <2>1. /\ added \in [1..Len(new) -> Nat]
        /\ \A k \in DOMAIN new : added[k] = IF w.state = "new" THEN 1 ELSE 0
    BY <1>3
  <2> HIDE DEF added
  <2> QED
    BY <1>3, <2>1, FunctionIsSeq
<1> HIDE DEF old, added
<1>6. /\ old \o added \in Seq(Nat) /\ Len(old \o added) = Len(timed) + Len(new)
      /\ \A i \in DOMAIN timed : (old \o added)[i] = old[i]
      /\ \A i \in DOMAIN (old \o added) \ DOMAIN timed :
            i - Len(timed) \in DOMAIN new /\ (old \o added)[i] = added[i - Len(timed)]
  <2>1. /\ old \o added \in Seq(Nat) /\ Len(old \o added) = Len(old) + Len(added)
        /\ \A i \in DOMAIN old : (old \o added)[i] = old[i]
        /\ \A i \in DOMAIN (old \o added) \ DOMAIN old :
              i - Len(old) \in DOMAIN added /\ (old \o added)[i] = added[i - Len(old)]
    <3> DEFINE T == Nat
    <3>1. old \in Seq(T) /\ added \in Seq(T)
      BY <1>4, <1>5
    <3> HIDE DEF T
    <3>2. /\ old \o added \in Seq(T) /\ Len(old \o added) = Len(old) + Len(added)
          /\ \A i \in DOMAIN old : (old \o added)[i] = old[i]
          /\ \A i \in DOMAIN (old \o added) \ DOMAIN old :
                i - Len(old) \in DOMAIN added /\ (old \o added)[i] = added[i - Len(old)]
      BY <3>1, Appended
    <3> QED
      BY <3>2 DEF T
  <2> QED
    BY <1>4, <1>5, <2>1
<1>7. DOMAIN (old \o added) = 1..Len(old \o added) /\ DOMAIN rows' = 1..Len(rows')
  BY <1>3, <1>6
<1> QED
  BY <1>1, <1>2, <1>3, <1>4, <1>5, <1>6, <1>7

LEMMA SavedSession ==
    ASSUME Types, NEW r \in Slots, Save(r), NEW w, w = req[r].w
    PROVE  /\ sess' \in [Sessions -> SessionType]
           /\ sess'[w.s].state = StateAfter(sess[w.s].state, w)
           /\ \A s \in Sessions \ {w.s} : sess'[s] = sess[s]
<1>1. req[r].step = "save"
  BY DEF Save
<1>2. /\ w \in Write /\ w.s \in Sessions /\ w.ver \in 1..MaxVersion
      /\ w.state \in {"new", "same", "completed", "deleted"}
  BY <1>1, Held
<1> DEFINE state == StateAfter(sess[w.s].state, w)
           waits == IF w.waits = {} THEN sess[w.s].waits ELSE w.waits = {TRUE}
           new == [state |-> state, waits |-> waits, ver |-> w.ver]
<1>3. sess' = [sess EXCEPT ![w.s] = new]
  BY DEF Save
<1>4. sess[w.s] \in SessionType
  BY <1>2 DEF Types
<1>5. state \in {"none", "open", "completed", "deleted"}
  <2>1. sess[w.s].state \in {"none", "open", "completed", "deleted"}
    BY <1>4 DEF SessionType
  <2> QED
    BY <1>2, <2>1 DEF StateAfter
<1>6. waits \in BOOLEAN
  BY <1>4 DEF SessionType
<1>7. w.ver \in 0..MaxVersion
  BY <1>2, Bounds
<1> HIDE DEF state, waits
<1>8. new \in SessionType /\ new.state = state
  BY <1>5, <1>6, <1>7 DEF SessionType
<1> HIDE DEF new
<1> QED
  BY <1>2, <1>3, <1>8 DEF Types, state

\* A commit leaves the other requests as they are, or marks them as overtaken.
Kept(r, q) ==
    /\ req[q] = Free => req'[q] = Free
    /\ req[q] # Free =>
          /\ req'[q] \in Requests /\ req'[q] # Free
          /\ req'[q].step = req[q].step /\ req'[q].w = req[q].w /\ req'[q].todo = req[q].todo
          /\ ~req'[q].late => ~req[q].late /\ ~Overlap(req[q].w, req[r].w)

LEMMA Committed ==
    ASSUME Types, NEW r \in Slots, NEW next, Commits(r, next)
    PROVE  /\ DOMAIN req' = Slots /\ req'[r] = next
           /\ \A q \in Slots \ {r} : Kept(r, q)
           /\ raced' = IF req[r].late THEN raced \cup {req[r].w.s} ELSE raced
<1>1. /\ DOMAIN req' = Slots /\ req'[r] = next
      /\ raced' = IF req[r].late THEN raced \cup {req[r].w.s} ELSE raced
  BY DEF Commits
<1>2. ASSUME NEW q \in Slots \ {r} PROVE Kept(r, q)
  <2> DEFINE v == Overlap(req[q].w, req[r].w)
  <2>1. req'[q] = IF req[q] # Free /\ v THEN [req[q] EXCEPT !.late = TRUE] ELSE req[q]
    BY DEF Commits
  <2>2. req[q] = Free \/ req[q] \in Requests
    BY DEF Types, RequestTypes
  <2> HIDE DEF v
  <2>3. ASSUME NEW m \in Requests
        PROVE  /\ [m EXCEPT !.late = TRUE] \in Requests /\ [m EXCEPT !.late = TRUE].late
               /\ [m EXCEPT !.late = TRUE].step = m.step /\ [m EXCEPT !.late = TRUE].w = m.w
               /\ [m EXCEPT !.late = TRUE].todo = m.todo
    BY DEF Requests
  <2>4. \A m \in Requests : m # Free
    BY DEF Requests, Free
  <2>5. CASE req[q] = Free
    BY <2>1, <2>5 DEF Kept
  <2>6. CASE req[q] # Free /\ v
    <3>1. req[q] \in Requests /\ req'[q] = [req[q] EXCEPT !.late = TRUE]
      BY <2>1, <2>2, <2>6
    <3> QED
      BY <2>3, <2>4, <2>6, <3>1 DEF Kept
  <2>7. CASE req[q] # Free /\ ~v
    <3>1. req[q] \in Requests /\ req'[q] = req[q]
      BY <2>1, <2>2, <2>7
    <3> QED
      BY <2>4, <2>7, <3>1 DEF Kept, v
  <2> QED
    BY <2>5, <2>6, <2>7
<1> QED
  BY <1>1, <1>2

LEMMA KeptTypes ==
    ASSUME Types, NEW r \in Slots, NEW q \in Slots, Kept(r, q),
           DOMAIN rows \subseteq DOMAIN rows', DOMAIN pauses \subseteq DOMAIN pauses'
    PROVE  RequestTypes(q)'
<1>1. CASE req[q] = Free
  BY <1>1 DEF Kept, RequestTypes
<1>2. CASE req[q] # Free
  <2>1. /\ req[q].w.set \cup req[q].w.drops \cup req[q].w.insert \subseteq DOMAIN rows
        /\ req[q].w.ends \subseteq DOMAIN pauses
    BY <1>2 DEF Types, RequestTypes
  <2>2. /\ req'[q] \in Requests /\ req'[q].w = req[q].w
    BY <1>2 DEF Kept
  <2>3. req'[q] \in Requests'
    <3>1. ASSUME NEW m \in Requests PROVE m \in Requests'
      BY <3>1 DEF Requests
    <3> QED
      BY <2>2, <3>1
  <2> QED
    BY <2>1, <2>2, <2>3 DEF RequestTypes
<1> QED
  BY <1>1, <1>2

\* A work that is created is done with at once; otherwise the intervals follow.
LEMMA SavedRequest ==
    ASSUME Types, NEW r \in Slots, Save(r), NEW w, w = req[r].w
    PROVE  /\ w.state = "new" => req'[r] = Free
           /\ w.state # "new" =>
                 /\ req'[r].step = "close" /\ req'[r].w = w /\ req'[r].late = req[r].late
                 /\ req'[r].todo = w.insert \cup (DOMAIN rows' \ DOMAIN rows)
                 /\ req'[r] = [step |-> "close", w |-> w, todo |-> req'[r].todo,
                               late |-> req[r].late]
           /\ \E next : Commits(r, next)
<1>1. req[r].step = "save"
  BY DEF Save
<1>2. req[r] \in Requests
  BY <1>1, Held
<1> DEFINE todo == w.insert \cup {Len(rows) + k : k \in DOMAIN SetToSeq(w.adds)}
           next == IF w.state = "new" THEN Free
                   ELSE [req[r] EXCEPT !.step = "close", !.todo = todo]
<1>3. Commits(r, next)
  BY DEF Save
<1>7. req'[r] = next
  <2> HIDE DEF next
  <2> QED
    BY <1>3, Committed
<1>4. DOMAIN rows' \ DOMAIN rows = {Len(rows) + k : k \in DOMAIN SetToSeq(w.adds)}
  <2> DEFINE n == Len(SetToSeq(w.adds))
  <2>1. /\ Len(rows') = Len(rows) + n /\ n \in Nat /\ DOMAIN SetToSeq(w.adds) = 1..n
        /\ rows' \in Seq(RowType)
    BY SavedRows
  <2>2. DOMAIN rows' = 1..(Len(rows) + n) /\ DOMAIN rows = 1..Len(rows) /\ Len(rows) \in Nat
    BY <2>1 DEF Types
  <2> HIDE DEF n
  <2>3. \A i \in 1..(Len(rows) + n) \ 1..Len(rows) : i - Len(rows) \in 1..n /\ i = Len(rows) + (i - Len(rows))
    BY <2>1, <2>2
  <2>4. \A k \in 1..n : Len(rows) + k \in 1..(Len(rows) + n) \ 1..Len(rows)
    BY <2>1, <2>2
  <2>5. ASSUME NEW i PROVE i \in DOMAIN rows' \ DOMAIN rows <=> \E k \in 1..n : i = Len(rows) + k
    BY <2>2, <2>3, <2>4
  <2>6. DOMAIN rows' \ DOMAIN rows = {Len(rows) + k : k \in 1..n}
    BY <2>5
  <2> QED
    BY <2>1, <2>6
<1> HIDE DEF todo
<1>5. CASE w.state = "new"
  BY <1>3, <1>5, <1>7
<1>6. CASE w.state # "new"
  <2>1. req'[r] = [req[r] EXCEPT !.step = "close", !.todo = todo]
    BY <1>6, <1>7
  <2>2. req'[r] = [step |-> "close", w |-> w, todo |-> todo, late |-> req[r].late]
    BY <1>2, <2>1 DEF Requests
  <2>3. todo = w.insert \cup (DOMAIN rows' \ DOMAIN rows)
    BY <1>4 DEF todo
  <2> HIDE DEF todo, next
  <2> QED
    BY <1>3, <1>6, <2>2, <2>3
<1> QED
  BY <1>5, <1>6

-----------------------------------------------------------------------------
(* Types *)

LEMMA TypesInit == Init => Types
<1> SUFFICES ASSUME Init PROVE Types
  OBVIOUS
<1>1. \A s \in Sessions : NoSession \in SessionType
  BY Bounds DEF NoSession, SessionType
<1> QED
  BY <1>1, Bounds DEF Init, Types, RequestTypes

LEMMA TypesNext == Types /\ [Next]_vars => Types'
<1> SUFFICES ASSUME Types, [Next]_vars PROVE Types'
  OBVIOUS
<1>1. ASSUME NEW r \in Slots, Begin(r) PROVE Types'
  <2>1. PICK w : Load(r, w) /\ Legit(w)
    BY <1>1, BeginIsLegit
  <2>2. /\ UNCHANGED <<sess, rows, pauses, timed>>
        /\ req' = [req EXCEPT ![r] = [step |-> "save", w |-> w, todo |-> {}, late |-> FALSE]]
        /\ raced' = raced
    BY <2>1 DEF Load, db
  <2>3. /\ w \in Write /\ w.set \cup w.drops \cup w.insert \subseteq DOMAIN rows
        /\ w.ends \subseteq DOMAIN pauses
    BY <2>1 DEF Legit
  <2>4. DOMAIN req' = Slots /\ req'[r] = [step |-> "save", w |-> w, todo |-> {}, late |-> FALSE]
        /\ \A q \in Slots \ {r} : req'[q] = req[q]
    BY <2>2 DEF Types
  <2>5. RequestTypes(r)'
    BY <2>2, <2>3, <2>4 DEF RequestTypes, Requests
  <2>6. \A q \in Slots : RequestTypes(q)'
    BY <2>2, <2>4, <2>5 DEF Types, RequestTypes, Requests
  <2> QED
    BY <2>2, <2>4, <2>6 DEF Types
<1>2. ASSUME NEW r \in Slots, Save(r) PROVE Types'
  <2> DEFINE w == req[r].w
  <2>1. req[r].step = "save"
    BY <1>2 DEF Save
  <2>2. /\ w \in Write /\ w.set \cup w.drops \cup w.insert \subseteq DOMAIN rows
        /\ w.ends \subseteq DOMAIN pauses
    BY <2>1, Held
  <2>3. /\ rows' \in Seq(RowType) /\ Len(rows') <= MaxRows /\ DOMAIN rows \subseteq DOMAIN rows'
    BY <1>2, SavedRows
  <2>4. pauses' \in Seq(PauseType) /\ DOMAIN pauses \subseteq DOMAIN pauses'
    BY <1>2, SavedPauses
  <2>5. timed' \in Seq(Nat) /\ Len(timed') = Len(rows')
    BY <1>2, SavedTimed
  <2>6. sess' \in [Sessions -> SessionType]
    BY <1>2, SavedSession
  <2>7. /\ w.state = "new" => req'[r] = Free
        /\ w.state # "new" =>
              /\ req'[r].todo = w.insert \cup (DOMAIN rows' \ DOMAIN rows)
              /\ req'[r] = [step |-> "close", w |-> w, todo |-> req'[r].todo,
                            late |-> req[r].late]
        /\ \E next : Commits(r, next)
    BY <1>2, SavedRequest
  <2>10. req[r].late \in BOOLEAN /\ w.s \in Sessions
    BY <2>1, Held DEF Requests
  <2>11. /\ DOMAIN req' = Slots /\ \A q \in Slots \ {r} : Kept(r, q)
         /\ raced' \subseteq Sessions
    <3>1. PICK next : Commits(r, next)
      BY <2>7
    <3>2. /\ DOMAIN req' = Slots /\ \A q \in Slots \ {r} : Kept(r, q)
          /\ raced' = IF req[r].late THEN raced \cup {w.s} ELSE raced
      BY <3>1, Committed DEF w
    <3> QED
      BY <2>10, <3>2 DEF Types
  <2> HIDE DEF w
  <2>8. RequestTypes(r)'
    <3>1. CASE w.state = "new"
      BY <2>7, <3>1 DEF RequestTypes
    <3>2. CASE w.state # "new"
      <4> DEFINE todo == w.insert \cup (DOMAIN rows' \ DOMAIN rows)
      <4>1. todo \in SUBSET DOMAIN rows'
            /\ req'[r] = [step |-> "close", w |-> w, todo |-> todo, late |-> req[r].late]
        BY <2>2, <2>3, <2>7, <3>2
      <4> HIDE DEF todo
      <4>2. req'[r].w = w
        BY <4>1
      <4> QED
        BY <2>2, <2>3, <2>4, <2>10, <4>1, <4>2 DEF RequestTypes, Requests
    <3> QED
      BY <3>1, <3>2
  <2>9. ASSUME NEW q \in Slots \ {r} PROVE RequestTypes(q)'
    BY <2>3, <2>4, <2>11, KeptTypes
  <2> QED
    BY <2>3, <2>4, <2>5, <2>6, <2>8, <2>9, <2>11 DEF Types
<1>3. ASSUME NEW r \in Slots, Close(r) PROVE Types'
  <2>1. req[r].step = "close" /\ UNCHANGED <<sess, rows, pauses>>
    BY <1>3 DEF Close
  <2>2. /\ Len(timed) \in Nat /\ DOMAIN timed = 1..Len(timed) /\ \A i \in DOMAIN timed : timed[i] \in Nat
    BY DEF Types
  <2>3. timed' \in [1..Len(timed) -> Nat]
    BY <1>3, <2>2 DEF Close
  <2>4. timed' \in Seq(Nat) /\ Len(timed') = Len(timed)
    BY <2>2, <2>3, FunctionIsSeq
  <2>5. req[r] \in Requests
    BY <2>1, Held
  <2>6. RequestTypes(r)'
    <3> DEFINE m == [req[r] EXCEPT !.step = "insert"]
    <3>1. /\ m \in Requests
          /\ m.w = req[r].w
      BY <2>5 DEF Requests
    <3>2. req'[r] = Free \/ req'[r] = m
      BY <1>3, Committed DEF Close
    <3> HIDE DEF m
    <3>3. CASE req'[r] = m
      <4>1. /\ req[r].w.set \cup req[r].w.drops \cup req[r].w.insert \subseteq DOMAIN rows
            /\ req[r].w.ends \subseteq DOMAIN pauses
        BY <2>1, Held
      <4> QED
        BY <2>1, <3>1, <3>2, <3>3, <4>1 DEF RequestTypes, Requests
    <3> QED
      BY <3>2, <3>3 DEF RequestTypes
  <2>8. /\ DOMAIN req' = Slots /\ \A q \in Slots \ {r} : Kept(r, q)
        /\ raced' \subseteq Sessions
    <3>1. req[r].late \in BOOLEAN /\ req[r].w.s \in Sessions
      BY <2>1, Held DEF Requests
    <3>2. \E next : Commits(r, next)
      BY <1>3 DEF Close
    <3> QED
      BY <3>1, <3>2, Committed DEF Types
  <2>7. ASSUME NEW q \in Slots \ {r} PROVE RequestTypes(q)'
    BY <2>1, <2>8, KeptTypes
  <2> QED
    BY <2>1, <2>4, <2>6, <2>7, <2>8 DEF Types
<1>4. ASSUME NEW r \in Slots, NEW i \in DOMAIN rows, Insert(r, i) PROVE Types'
  <2>1. req[r].step = "insert" /\ UNCHANGED <<sess, rows, pauses>>
    BY <1>4 DEF Insert
  <2>2. /\ Len(timed) \in Nat /\ DOMAIN timed = 1..Len(timed) /\ \A k \in DOMAIN timed : timed[k] \in Nat
        /\ DOMAIN timed = DOMAIN rows
    BY DEF Types
  <2>3. timed' \in [1..Len(timed) -> Nat]
    <3>1. timed \in [1..Len(timed) -> Nat] /\ timed[i] + 1 \in Nat
      BY <2>2 DEF Types
    <3>2. timed' = [timed EXCEPT ![i] = timed[i] + 1]
      BY <1>4 DEF Insert
    <3> QED
      BY <3>1, <3>2
  <2>4. timed' \in Seq(Nat) /\ Len(timed') = Len(timed)
    BY <2>2, <2>3, FunctionIsSeq
  <2>5. req[r] \in Requests
    BY <2>1, Held
  <2>6. RequestTypes(r)'
    <3> DEFINE m == [req[r] EXCEPT !.todo = req[r].todo \ {i}]
    <3>1. /\ m \in Requests
          /\ m.w = req[r].w
      BY <2>5 DEF Requests
    <3>2. req'[r] = Free \/ req'[r] = m
      BY <1>4, Committed DEF Insert
    <3> HIDE DEF m
    <3>3. CASE req'[r] = m
      <4>1. /\ req[r].w.set \cup req[r].w.drops \cup req[r].w.insert \subseteq DOMAIN rows
            /\ req[r].w.ends \subseteq DOMAIN pauses
        BY <2>1, Held
      <4> QED
        BY <2>1, <3>1, <3>2, <3>3, <4>1 DEF RequestTypes, Requests
    <3> QED
      BY <3>2, <3>3 DEF RequestTypes
  <2>8. /\ DOMAIN req' = Slots /\ \A q \in Slots \ {r} : Kept(r, q)
        /\ raced' \subseteq Sessions
    <3>1. req[r].late \in BOOLEAN /\ req[r].w.s \in Sessions
      BY <2>1, Held DEF Requests
    <3>2. \E next : Commits(r, next)
      BY <1>4 DEF Insert
    <3> QED
      BY <3>1, <3>2, Committed DEF Types
  <2>7. ASSUME NEW q \in Slots \ {r} PROVE RequestTypes(q)'
    BY <2>1, <2>8, KeptTypes
  <2> QED
    BY <2>1, <2>4, <2>6, <2>7, <2>8 DEF Types
<1>5. ASSUME NEW r \in Slots, Die(r) PROVE Types'
  BY <1>5 DEF Die, db, Types, RequestTypes, Requests
<1>6. CASE UNCHANGED vars
  BY <1>6 DEF vars, Types, RequestTypes, Requests
<1> QED
  BY <1>1, <1>2, <1>3, <1>4, <1>5, <1>6 DEF Next

LEMMA TypesAlways == Spec => []Types
BY TypesInit, TypesNext, PTL DEF Spec

-----------------------------------------------------------------------------
(* What a commit keeps, of its own session and of the others *)

\* A step of a request that leaves the works, rows and pauses alone.
LEMMA TablesStay ==
    ASSUME UNCHANGED <<sess, rows, pauses>>, raced \subseteq raced'
    PROVE  /\ RowsKnown => RowsKnown'
           /\ PausedAreActive => PausedAreActive'
           /\ OneWorkAtATime => OneWorkAtATime'
           /\ CompletedIsClosed => CompletedIsClosed'
           /\ \A w : Decided(w)' <=> Decided(w)
           /\ \A w, R : Renewed(w, R)' <=> Renewed(w, R)
<1>1. \A s : /\ RowsOf(s)' = RowsOf(s) /\ ActiveRows(s)' = ActiveRows(s)
             /\ \A E : RowsOfAny(s, E)' = RowsOfAny(s, E) /\ OpenPauses(s, E)' = OpenPauses(s, E)
                       /\ (WorksElsewhere(E, s)' <=> WorksElsewhere(E, s))
             /\ \A R : Names(R)' = Names(R)
  BY DEF RowsOf, ActiveRows, RowsOfAny, OpenPauses, WorksElsewhere, Names
<1>2. RowsKnown => RowsKnown'
  BY DEF RowsKnown
<1>3. PausedAreActive => PausedAreActive'
  BY DEF PausedAreActive, ActiveRows, RowsOf
<1>4. OneWorkAtATime => OneWorkAtATime'
  BY DEF OneWorkAtATime, WorksIn
<1>5. CompletedIsClosed => CompletedIsClosed'
  BY <1>1 DEF CompletedIsClosed
<1>6. \A w : Decided(w)' <=> Decided(w)
  BY DEF Decided, RowsOf, ActiveRows, RowsOfAny, OpenPauses, WorksElsewhere
<1>7. \A w, R : Renewed(w, R)' <=> Renewed(w, R)
  BY DEF Renewed
<1> QED
  BY <1>2, <1>3, <1>4, <1>5, <1>6, <1>7

\* The session saved to exists afterwards, and is open only if it is new or was open.
LEMMA StateSaved ==
    ASSUME Types, NEW r \in Slots, Save(r), Placed(r), NEW w, w = req[r].w
    PROVE  /\ sess'[w.s].state # "none"
           /\ sess'[w.s].state = "open" => w.state = "new" \/ sess[w.s].state = "open"
           /\ w.state = "new" => sess[w.s].state = "none"
<1>1. req[r].step = "save" /\ (w.state = "new" => sess[w.s].state = "none")
  BY DEF Save
<1>2. /\ w.state \in {"new", "same", "completed", "deleted"}
      /\ sess'[w.s].state = StateAfter(sess[w.s].state, w)
  BY <1>1, Held, SavedSession
<1>3. w.state # "new" => sess[w.s].state # "none"
  BY <1>1 DEF Placed, Free
<1> QED
  BY <1>1, <1>2, <1>3 DEF StateAfter

\* What a save writes is its own session's.
LEMMA SavedOwn ==
    ASSUME Types, NEW r \in Slots, Save(r), Placed(r), NEW w, w = req[r].w
    PROVE  /\ \A i \in w.set \cup w.drops \cup w.insert : rows[i].s = w.s
           /\ \A p \in w.ends : pauses[p].s = w.s
           /\ raced \subseteq raced' /\ (req[r].late => w.s \in raced')
<1>1. req[r] # Free
  <2>1. req[r].step = "save"
    BY DEF Save
  <2> QED
    BY <2>1 DEF Free
<1>2. PICK next : Commits(r, next)
  BY SavedRequest
<1>3. raced' = IF req[r].late THEN raced \cup {w.s} ELSE raced
  BY <1>2, Committed
<1> QED
  BY <1>1, <1>3 DEF Placed

LEMMA StateKnown ==
    ASSUME Types, NEW r \in Slots, Save(r), NEW w, w = req[r].w, Decided(w)
    PROVE  \/ w.state = "new"       /\ sess[w.s].state = "none" /\ sess'[w.s].state = "open"
           \/ w.state = "same"      /\ sess[w.s].state = "open" /\ sess'[w.s].state = "open"
           \/ w.state = "completed" /\ sess[w.s].state = "open" /\ sess'[w.s].state = "completed"
           \/ w.state = "deleted"   /\ sess'[w.s].state = "deleted"
<1>1. req[r].step = "save"
  BY DEF Save
<1>2. /\ w.state \in {"new", "same", "completed", "deleted"}
      /\ sess'[w.s].state = StateAfter(sess[w.s].state, w)
  BY <1>1, Held, SavedSession
<1> QED
  BY <1>2 DEF Decided, StateAfter

LEMMA SaveKeepsKnown ==
    ASSUME Types, RowsKnown, NEW r \in Slots, Save(r), Placed(r), NEW w, w = req[r].w
    PROVE  RowsKnown'
<1> SUFFICES ASSUME NEW i \in DOMAIN rows' PROVE sess'[rows'[i].s].state # "none"
  BY DEF RowsKnown
<1>1. sess'[w.s].state # "none"
  BY StateSaved
<1>2. CASE i \in DOMAIN rows
  <2>1. rows'[i].s = rows[i].s /\ rows[i].s \in Sessions
    BY <1>2, SavedRows, RowsTyped
  <2> QED
    BY <1>1, <1>2, <2>1, SavedSession DEF RowsKnown
<1>3. CASE i \notin DOMAIN rows
  BY <1>1, <1>3, SavedRows
<1> QED
  BY <1>2, <1>3

\* Whoever comes to work does not work elsewhere.
LEMMA SaveKeepsOneWork ==
    ASSUME Types, RowsKnown, OneWorkAtATime, NEW r \in Slots, Save(r), Placed(r),
           NEW w, w = req[r].w, w.s \in raced' \/ Decided(w)
    PROVE  OneWorkAtATime'
<1>1. ASSUME NEW i \in DOMAIN rows', WorksIn(i)', rows'[i].s # w.s
      PROVE  i \in DOMAIN rows /\ WorksIn(i) /\ rows'[i].s = rows[i].s /\ rows'[i].e = rows[i].e
  <2>1. i \in DOMAIN rows /\ rows'[i].s = rows[i].s /\ rows'[i].e = rows[i].e
    BY <1>1, SavedRows
  <2>2. i \notin w.set \cup w.drops
    BY <1>1, <2>1, SavedOwn
  <2>3. rows'[i].status = rows[i].status
    BY <2>1, <2>2, SavedRows
  <2>4. sess'[rows[i].s] = sess[rows[i].s]
    BY <1>1, <2>1, RowsTyped, SavedSession
  <2> QED
    BY <1>1, <2>1, <2>3, <2>4 DEF WorksIn
<1>2. ASSUME NEW i \in DOMAIN rows', WorksIn(i)', rows'[i].s = w.s, Decided(w)
      PROVE  \/ ~WorksElsewhere({rows'[i].e}, w.s)
             \/ i \in DOMAIN rows /\ WorksIn(i) /\ rows'[i].s = rows[i].s /\ rows'[i].e = rows[i].e
  <2>1. CASE i \notin DOMAIN rows
    BY <1>2, <2>1, SavedRows DEF Decided
  <2>2. CASE i \in DOMAIN rows
    <3>1. /\ rows'[i].s = rows[i].s /\ rows'[i].e = rows[i].e /\ rows'[i].status = "working"
          /\ sess'[w.s].state = "open"
          /\ rows'[i].status = IF i \in w.set THEN w.to
                               ELSE IF i \in w.drops THEN "removed"
                               ELSE rows[i].status
      BY <1>2, <2>2, SavedRows DEF WorksIn
    <3>2. CASE i \in w.set
      BY <1>2, <3>1, <3>2 DEF Decided
    <3>3. CASE i \notin w.set
      <4>1. rows[i].status = "working"
        BY <3>1, <3>3
      <4>2. sess[w.s].state # "none"
        BY <1>2, <2>2, <3>1 DEF RowsKnown
      <4>3. sess[w.s].state = "open"
        BY <1>2, <3>1, <4>2, StateKnown
      <4> QED
        BY <1>2, <2>2, <3>1, <4>1, <4>3 DEF WorksIn
    <3> QED
      BY <3>2, <3>3
  <2> QED
    BY <2>1, <2>2
<1>3. ASSUME NEW i \in DOMAIN rows', WorksIn(i)', NEW j \in DOMAIN rows', WorksIn(j)',
             rows'[i].e = rows'[j].e, rows'[i].s = w.s, rows'[j].s # w.s,
             rows'[i].s \notin raced', rows'[j].s \notin raced'
      PROVE  FALSE
  <2>1. j \in DOMAIN rows /\ WorksIn(j) /\ rows'[j].s = rows[j].s /\ rows'[j].e = rows[j].e
    BY <1>1, <1>3
  <2>2. WorksElsewhere({rows'[i].e}, w.s)
    BY <1>3, <2>1 DEF WorksElsewhere, WorksIn
  <2>3. i \in DOMAIN rows /\ WorksIn(i) /\ rows'[i].s = rows[i].s /\ rows'[i].e = rows[i].e
    BY <1>2, <1>3, <2>2
  <2>4. raced \subseteq raced'
    BY SavedOwn
  <2>5. rows[i].e = rows[j].e /\ rows[i].s # rows[j].s /\ {rows[i].s, rows[j].s} \cap raced = {}
    BY <1>3, <2>1, <2>3, <2>4
  <2> QED
    BY <2>1, <2>3, <2>5 DEF OneWorkAtATime
<1>4. ASSUME NEW i \in DOMAIN rows', WorksIn(i)', NEW j \in DOMAIN rows', WorksIn(j)',
             rows'[i].e = rows'[j].e, rows'[i].s \notin raced', rows'[j].s \notin raced'
      PROVE  rows'[i].s = rows'[j].s
  <2>1. CASE rows'[i].s # w.s /\ rows'[j].s # w.s
    <3>1. /\ i \in DOMAIN rows /\ WorksIn(i) /\ rows'[i].s = rows[i].s /\ rows'[i].e = rows[i].e
          /\ j \in DOMAIN rows /\ WorksIn(j) /\ rows'[j].s = rows[j].s /\ rows'[j].e = rows[j].e
      BY <1>1, <1>4, <2>1
    <3>2. raced \subseteq raced'
      BY SavedOwn
    <3>3. {rows[i].s, rows[j].s} \cap raced = {}
      BY <1>4, <3>1, <3>2
    <3> QED
      BY <1>4, <3>1, <3>3 DEF OneWorkAtATime
  <2>2. CASE rows'[i].s = w.s \/ rows'[j].s = w.s
    BY <1>3, <1>4, <2>2
  <2> QED
    BY <2>1, <2>2
<1> QED
  BY <1>4 DEF OneWorkAtATime

\* Who is done has no pause left, and a pause is of rows that stay active.
LEMMA SaveKeepsPaused ==
    ASSUME Types, PausedAreActive, NEW r \in Slots, Save(r), Placed(r), NEW w, w = req[r].w,
           w.s \in raced' \/ Decided(w)
    PROVE  PausedAreActive'
<1> SUFFICES ASSUME NEW i \in DOMAIN rows', NEW p \in DOMAIN pauses', rows'[i].status # "removed",
                    rows'[i].s \notin raced',
                    pauses'[p].open, pauses'[p].s = rows'[i].s, rows'[i].e \in pauses'[p].emps
             PROVE  \E k \in DOMAIN rows' :
                       /\ rows'[k].s = rows'[i].s /\ rows'[k].e = rows'[i].e
                       /\ rows'[k].status # "removed" /\ rows'[k].status \notin Finished
  BY DEF PausedAreActive, ActiveRows, RowsOf
<1> DEFINE Status(k) == IF k \in w.set THEN w.to ELSE IF k \in w.drops THEN "removed" ELSE rows[k].status
<1>1. \A k \in DOMAIN rows : /\ k \in DOMAIN rows' /\ rows'[k].s = rows[k].s /\ rows'[k].e = rows[k].e
                             /\ rows'[k].status = Status(k)
  BY SavedRows
<1>2. w.to \in {"working", "waiting"} \cup Finished
  <2>1. req[r].step = "save"
    BY DEF Save
  <2> QED
    BY <2>1, Held
<1>3. CASE rows'[i].status \notin Finished
  BY <1>3
<1>5. raced \subseteq raced' /\ \A k \in w.set \cup w.drops : rows[k].s = w.s
  BY SavedOwn
<1>6. rows'[i].s = w.s => Decided(w)
  OBVIOUS
<1>4. CASE rows'[i].status \in Finished
  <2>1. i \in DOMAIN rows /\ rows'[i].s = rows[i].s /\ rows'[i].e = rows[i].e /\ Status(i) \in Finished
    BY <1>4, SavedRows DEF Finished
  <2>2. CASE p \notin DOMAIN pauses
    <3>1. w.pause # {} /\ rows[i].s = w.s /\ rows[i].e \in w.pause
      BY <2>1, <2>2, SavedPauses
    <3>2. PICK k \in DOMAIN rows : /\ rows[k].s = w.s /\ rows[k].status # "removed"
                                   /\ rows[k].status \notin Finished /\ rows[k].e = rows[i].e
      BY <1>6, <2>1, <3>1 DEF Decided, RowsOfAny, ActiveRows, RowsOf
    <3>3. w.drops = {} /\ w.to = "waiting"
      BY <1>6, <2>1, <3>1 DEF Decided
    <3>4. Status(k) # "removed" /\ Status(k) \notin Finished
      BY <3>2, <3>3 DEF Finished
    <3> HIDE DEF Status
    <3> QED
      BY <1>1, <2>1, <3>1, <3>2, <3>4
  <2>3. CASE p \in DOMAIN pauses
    <3>1. pauses[p].open /\ p \notin w.ends /\ pauses[p].s = rows[i].s /\ rows[i].e \in pauses[p].emps
      BY <2>1, <2>3, SavedPauses
    <3>2. ASSUME NEW k \in w.set, w.to \in Finished, rows[k].e = rows[i].e, rows[i].s = w.s PROVE FALSE
      <4>1. p \in OpenPauses(w.s, {rows[k].e})
        BY <2>3, <3>1, <3>2 DEF OpenPauses
      <4> QED
        BY <1>6, <2>1, <3>1, <3>2, <4>1 DEF Decided
    <3>3. i \notin w.set
      BY <1>5, <2>1, <3>2
    <3>4. rows[i].status \in Finished
      BY <2>1, <3>3 DEF Finished
    <3>5. PICK k \in DOMAIN rows : /\ rows[k].s = rows[i].s /\ rows[k].status # "removed"
                                   /\ rows[k].status \notin Finished /\ rows[k].e = rows[i].e
      BY <1>5, <2>1, <2>3, <3>1, <3>4 DEF PausedAreActive, ActiveRows, RowsOf, Finished
    <3>6. CASE k \in w.set
      <4>1. w.to \notin Finished
        BY <1>5, <3>2, <3>5, <3>6
      <4>2. Status(k) # "removed" /\ Status(k) \notin Finished
        BY <1>2, <3>6, <4>1
      <4> HIDE DEF Status
      <4> QED
        BY <1>1, <2>1, <3>5, <4>2
    <3>7. CASE k \notin w.set
      <4>1. k \notin w.drops
        BY <1>5, <1>6, <2>1, <3>4, <3>5 DEF Decided, RowsOf, ActiveRows, Finished
      <4>2. Status(k) # "removed" /\ Status(k) \notin Finished
        BY <3>5, <3>7, <4>1
      <4> HIDE DEF Status
      <4> QED
        BY <1>1, <2>1, <3>5, <4>2
    <3> QED
      BY <3>6, <3>7
  <2> QED
    BY <2>2, <2>3
<1> QED
  BY <1>3, <1>4

LEMMA SaveKeepsClosed ==
    ASSUME Types, CompletedIsClosed, PausedAreActive', NEW r \in Slots, Save(r), Placed(r),
           NEW w, w = req[r].w, w.s \in raced' \/ Decided(w)
    PROVE  CompletedIsClosed'
<1> SUFFICES ASSUME NEW s \in Sessions, s \notin raced', sess'[s].state = "completed"
             PROVE  ActiveRows(s)' = {} /\ OpenPauses(s, Names(RowsOf(s)))' = {}
  BY DEF CompletedIsClosed
<1>1. ASSUME NEW i \in DOMAIN rows', rows'[i].s = s
      PROVE  rows'[i].status = "removed" \/ rows'[i].status \in Finished
  <2>1. CASE s # w.s
    <3>1. i \in DOMAIN rows /\ rows[i].s = s
      BY <1>1, <2>1, SavedRows
    <3>2. i \notin w.set \cup w.drops
      BY <2>1, <3>1, SavedOwn
    <3>3. rows'[i].status = rows[i].status
      BY <3>1, <3>2, SavedRows
    <3>4. sess[s].state = "completed" /\ s \notin raced
      BY <2>1, SavedSession, SavedOwn
    <3>5. i \notin ActiveRows(s)
      BY <3>4 DEF CompletedIsClosed
    <3> QED
      BY <3>1, <3>3, <3>5 DEF ActiveRows, RowsOf
  <2>2. CASE s = w.s
    <3>1. w.state = "completed"
      BY <2>2, StateKnown
    <3>2. ActiveRows(w.s) \subseteq w.set /\ w.to \in Finished /\ w.adds = {}
      BY <2>2, <3>1 DEF Decided
    <3>3. i \in DOMAIN rows /\ rows[i].s = s
      BY <1>1, <3>2, SavedRows
    <3>4. rows'[i].status = IF i \in w.set THEN w.to
                            ELSE IF i \in w.drops THEN "removed"
                            ELSE rows[i].status
      BY <3>3, SavedRows
    <3> QED
      BY <2>2, <3>2, <3>3, <3>4 DEF ActiveRows, RowsOf
  <2> QED
    BY <2>1, <2>2
<1>2. ActiveRows(s)' = {}
  BY <1>1 DEF ActiveRows, RowsOf
<1>3. OpenPauses(s, Names(RowsOf(s)))' = {}
  <2> SUFFICES ASSUME NEW p \in DOMAIN pauses', NEW i \in DOMAIN rows', pauses'[p].s = s,
                      pauses'[p].open, rows'[i].s = s, rows'[i].status # "removed",
                      rows'[i].e \in pauses'[p].emps
               PROVE  FALSE
    BY DEF OpenPauses, Names, RowsOf
  <2>1. \E k \in DOMAIN rows' : /\ rows'[k].s = s /\ rows'[k].status # "removed"
                                /\ rows'[k].status \notin Finished
    BY DEF PausedAreActive, ActiveRows, RowsOf
  <2> QED
    BY <1>1, <2>1
<1> QED
  BY <1>2, <1>3

LEMMA SaveKeepsIntervals ==
    ASSUME Types, OneOpenInterval, NEW r \in Slots, Save(r), Placed(r), NEW w, w = req[r].w
    PROVE  OneOpenInterval'
<1>1. /\ timed' \in Seq(Nat) /\ DOMAIN timed = DOMAIN rows /\ DOMAIN timed' = DOMAIN rows'
      /\ \A i \in DOMAIN rows : timed'[i] = 0 \/ timed'[i] = timed[i]
      /\ \A i \in DOMAIN rows' \ DOMAIN rows : timed'[i] = IF w.state = "new" THEN 1 ELSE 0
  BY SavedTimed
<1>2. /\ raced \subseteq raced' /\ \A i \in DOMAIN rows : rows'[i].s = rows[i].s
  BY SavedRows, SavedOwn
<1> SUFFICES ASSUME NEW i \in DOMAIN rows', rows'[i].s \notin raced' PROVE timed'[i] <= 1
  BY <1>1 DEF OneOpenInterval
<1>3. CASE i \in DOMAIN rows
  <2>1. timed[i] <= 1
    BY <1>1, <1>2, <1>3 DEF OneOpenInterval
  <2> QED
    BY <1>1, <1>3, <2>1
<1>4. CASE i \notin DOMAIN rows
  BY <1>1, <1>4
<1> QED
  BY <1>3, <1>4

\* The request that has saved closes the intervals of the rows it renews.
LEMMA SaveStays ==
    ASSUME Types, NEW r \in Slots, Save(r), Stays(r)
    PROVE  Stays(r)'
<1>0. PICK w : w = req[r].w
  OBVIOUS
<1>1. /\ DOMAIN timed' = DOMAIN rows'
      /\ \A i \in DOMAIN rows' \ DOMAIN rows : timed'[i] = IF w.state = "new" THEN 1 ELSE 0
  BY <1>0, SavedTimed
<1>2. /\ w.state = "new" => req'[r] = Free
      /\ w.state # "new" => /\ req'[r].step = "close" /\ req'[r].w = w /\ req'[r].late = req[r].late
                            /\ req'[r].todo = w.insert \cup (DOMAIN rows' \ DOMAIN rows)
  BY <1>0, SavedRequest
<1>3. req[r].step = "save" /\ req[r] # Free /\ w.insert \subseteq DOMAIN rows
  <2>1. req[r].step = "save"
    BY DEF Save
  <2> QED
    BY <1>0, <2>1, Held DEF Free
<1>4. \A i \in w.insert : rows'[i].s = rows[i].s /\ rows'[i].e = rows[i].e
  BY <1>0, <1>3, SavedRows
<1>5. CASE w.state = "new"
  BY <1>2, <1>5 DEF Stays
<1>6. CASE w.state # "new" /\ req[r].late
  BY <1>2, <1>6 DEF Stays
<1>7. CASE w.state # "new" /\ ~req[r].late
  <2>1. Renewed(w, w.insert)
    BY <1>0, <1>3, <1>7 DEF Stays
  <2>2. ASSUME NEW i \in req'[r].todo PROVE timed'[i] = 0 \/ Renewed(w, {i})'
    BY <1>1, <1>2, <1>4, <1>7, <2>1 DEF Renewed
  <2> QED
    BY <1>2, <1>7, <2>2 DEF Stays
<1> QED
  BY <1>5, <1>6, <1>7

\* What a save of another session writes cannot be seen by who reads a session.
LEMMA SaveUnseen ==
    ASSUME Types, NEW r \in Slots, Save(r), Placed(r), NEW w, w = req[r].w,
           NEW s \in Sessions, s # w.s
    PROVE  /\ sess'[s] = sess[s] /\ RowsOf(s)' = RowsOf(s) /\ ActiveRows(s)' = ActiveRows(s)
           /\ \A E : RowsOfAny(s, E)' = RowsOfAny(s, E)
           /\ \A E : OpenPauses(s, E)' = OpenPauses(s, E)
<1>1. sess'[s] = sess[s]
  BY SavedSession
<1>2. ASSUME NEW i, \/ i \in DOMAIN rows' /\ rows'[i].s = s
                    \/ i \in DOMAIN rows /\ rows[i].s = s
      PROVE  /\ i \in DOMAIN rows /\ i \in DOMAIN rows' /\ rows'[i].s = rows[i].s
             /\ rows'[i].e = rows[i].e /\ rows'[i].status = rows[i].status
  <2>1. i \in DOMAIN rows /\ i \in DOMAIN rows' /\ rows[i].s = s /\ rows'[i].s = rows[i].s
    BY <1>2, SavedRows
  <2>2. i \notin w.set \cup w.drops
    BY <2>1, SavedOwn
  <2> QED
    BY <2>1, <2>2, SavedRows
<1>3. RowsOf(s)' = RowsOf(s)
  <2>1. ASSUME NEW i PROVE i \in RowsOf(s)' <=> i \in RowsOf(s)
    BY <1>2 DEF RowsOf
  <2> QED
    BY <2>1
<1>4. \A i \in RowsOf(s) : rows'[i].status = rows[i].status /\ rows'[i].e = rows[i].e
  BY <1>2 DEF RowsOf
<1>5. ActiveRows(s)' = ActiveRows(s)
  BY <1>3, <1>4 DEF ActiveRows
<1>6. \A E : RowsOfAny(s, E)' = RowsOfAny(s, E)
  BY <1>4, <1>5 DEF RowsOfAny, ActiveRows
<1>7. ASSUME NEW q, \/ q \in DOMAIN pauses' /\ pauses'[q].s = s
                    \/ q \in DOMAIN pauses /\ pauses[q].s = s
      PROVE  /\ q \in DOMAIN pauses /\ q \in DOMAIN pauses' /\ pauses'[q].s = pauses[q].s
             /\ pauses'[q].emps = pauses[q].emps /\ (pauses'[q].open <=> pauses[q].open)
  <2>1. q \in DOMAIN pauses /\ q \in DOMAIN pauses' /\ pauses[q].s = s /\ pauses'[q].s = pauses[q].s
    BY <1>7, SavedPauses
  <2>2. q \notin w.ends
    BY <2>1, SavedOwn
  <2> QED
    BY <2>1, <2>2, SavedPauses
<1>8. ASSUME NEW E PROVE OpenPauses(s, E)' = OpenPauses(s, E)
  <2>1. ASSUME NEW q PROVE q \in OpenPauses(s, E)' <=> q \in OpenPauses(s, E)
    BY <1>7 DEF OpenPauses
  <2> QED
    BY <2>1
<1> QED
  BY <1>1, <1>3, <1>5, <1>6, <1>8

\* Nor can it put to work elsewhere anybody it has nothing to do with.
LEMMA SaveElsewhere ==
    ASSUME Types, RowsKnown, NEW r \in Slots, Save(r), Placed(r), NEW w, w = req[r].w,
           NEW e, e \notin Concerned(w), NEW s, WorksElsewhere({e}, s)'
    PROVE  WorksElsewhere({e}, s)
<1>1. PICK i \in DOMAIN rows' : /\ rows'[i].e = e /\ rows'[i].status = "working"
                                /\ rows'[i].s # s /\ sess'[rows'[i].s].state = "open"
  BY DEF WorksElsewhere
<1>2. i \in DOMAIN rows
  BY <1>1, SavedRows DEF Concerned
<1>3. rows'[i].s = rows[i].s /\ rows'[i].e = rows[i].e
  BY <1>2, SavedRows
<1>4. i \notin w.set
  BY <1>1, <1>2, <1>3 DEF Concerned, Names
<1>5. rows[i].status = "working"
  BY <1>1, <1>2, <1>4, SavedRows
<1>6. sess[rows[i].s].state = "open"
  <2>1. CASE rows[i].s = w.s
    <3>1. sess[w.s].state # "none"
      BY <1>2, <2>1 DEF RowsKnown
    <3> QED
      BY <1>1, <1>3, <2>1, <3>1, StateSaved
  <2>2. CASE rows[i].s # w.s
    <3>1. rows[i].s \in Sessions
      BY <1>2, RowsTyped
    <3> QED
      BY <1>1, <1>3, <2>2, <3>1, SavedSession
  <2> QED
    BY <2>1, <2>2
<1> QED
  BY <1>1, <1>2, <1>3, <1>5, <1>6 DEF WorksElsewhere

\* What a request has made sure of stays so, unless another one overtakes it.
LEMMA OtherDecided ==
    ASSUME Types, RowsKnown, NEW r \in Slots, Save(r), Placed(r), NEW w, w = req[r].w,
           NEW v, v \in Write, v.set \subseteq DOMAIN rows, ~Overlap(v, w), Decided(v)
    PROVE  Decided(v)'
<1>1. v.s \in Sessions /\ v.s # w.s
  BY DEF Overlap, Write
<1>2. /\ sess'[v.s] = sess[v.s] /\ RowsOf(v.s)' = RowsOf(v.s) /\ ActiveRows(v.s)' = ActiveRows(v.s)
      /\ \A E : RowsOfAny(v.s, E)' = RowsOfAny(v.s, E)
      /\ \A E : OpenPauses(v.s, E)' = OpenPauses(v.s, E)
  BY <1>1, SaveUnseen
<1>3. \A i \in v.set : rows'[i].e = rows[i].e
  BY SavedRows
<1>4. ASSUME NEW e \in Concerned(v), ~WorksElsewhere({e}, v.s) PROVE ~WorksElsewhere({e}, v.s)'
  BY <1>4, SaveElsewhere DEF Overlap
<1>5. \A e \in v.adds : ~WorksElsewhere({e}, v.s)'
  BY <1>4 DEF Decided, Concerned
<1>6. ASSUME v.to = "working", NEW i \in v.set PROVE ~WorksElsewhere({rows[i].e}, v.s)'
  <2>1. PICK e : e = rows[i].e
    OBVIOUS
  <2>2. e \in Concerned(v) /\ ~WorksElsewhere({e}, v.s)
    BY <1>6, <2>1 DEF Concerned, Names, Decided
  <2>3. ~WorksElsewhere({e}, v.s)'
    BY <1>4, <2>2
  <2>4. rows'[i].e = e
    BY <1>3, <2>1
  <2> QED
    BY <2>3, <2>4
<1>7. ASSUME v.to \in Finished, NEW i \in v.set
      PROVE  OpenPauses(v.s, {rows[i].e})' \subseteq v.ends
  <2>1. PICK e : e = rows[i].e
    OBVIOUS
  <2>2. OpenPauses(v.s, {e})' \subseteq v.ends
    BY <1>2, <1>7, <2>1 DEF Decided
  <2>3. rows'[i].e = e
    BY <1>3, <2>1
  <2> QED
    BY <2>2, <2>3
<1> QED
  BY <1>2, <1>5, <1>6, <1>7 DEF Decided

LEMMA OtherStaysOnSave ==
    ASSUME Types, InPlace, NEW r \in Slots, Save(r), NEW q \in Slots \ {r}, Stays(q)
    PROVE  Stays(q)'
<1>1. PICK next : Commits(r, next)
  BY SavedRequest
<1>2. Kept(r, q)
  BY <1>1, Committed
<1>3. SUFFICES ASSUME req[q] # Free, ~req'[q].late PROVE Stays(q)'
  BY <1>2 DEF Stays, Kept
<1>0. PICK w, v : w = req[r].w /\ v = req[q].w
  OBVIOUS
<1>4. /\ req'[q].step = req[q].step /\ req'[q].w = v /\ req'[q].todo = req[q].todo
      /\ ~req[q].late /\ ~Overlap(v, w)
  BY <1>0, <1>2, <1>3 DEF Kept
<1>5. /\ v \in Write /\ v.set \subseteq DOMAIN rows /\ v.insert \subseteq DOMAIN rows
      /\ req[q].todo \subseteq DOMAIN rows
  BY <1>0, <1>3 DEF Types, RequestTypes, Requests
<1>6. Placed(r) /\ RowsKnown
  BY DEF InPlace
<1>7. \A i \in DOMAIN rows : /\ rows'[i].s = rows[i].s /\ rows'[i].e = rows[i].e
                             /\ timed'[i] = 0 \/ timed'[i] = timed[i]
  BY SavedRows, SavedTimed
<1>8. /\ req[q].step = "save"   => Decided(v) /\ Renewed(v, v.insert)
      /\ req[q].step = "close"  => \A i \in req[q].todo : timed[i] = 0 \/ Renewed(v, {i})
      /\ req[q].step = "insert" => \A i \in req[q].todo : timed[i] = 0
  BY <1>0, <1>3, <1>4 DEF Stays
<1>9. Decided(v) => Decided(v)'
  BY <1>0, <1>4, <1>5, <1>6, OtherDecided
<1>10. ASSUME NEW R, R \subseteq DOMAIN rows, Renewed(v, R) PROVE Renewed(v, R)'
  BY <1>7, <1>10 DEF Renewed
<1>11. ASSUME req[q].step = "close", NEW i \in req[q].todo PROVE timed'[i] = 0 \/ Renewed(v, {i})'
  <2>1. {i} \subseteq DOMAIN rows
    BY <1>5
  <2> QED
    BY <1>7, <1>8, <1>10, <1>11, <2>1
<1>12. req[q].step = "insert" => \A i \in req[q].todo : timed'[i] = 0
  BY <1>5, <1>7, <1>8
<1>13. req[q].step = "save" => Decided(v)' /\ Renewed(v, v.insert)'
  BY <1>5, <1>8, <1>9, <1>10
<1> QED
  BY <1>4, <1>11, <1>12, <1>13 DEF Stays

\* A commit that changes open intervals only, and no more of them than it says.
LEMMA OtherStaysOnTimed ==
    ASSUME Types, UNCHANGED <<sess, rows, pauses>>, NEW r \in Slots, NEW q \in Slots \ {r},
           Kept(r, q), Stays(q), Placed(q), raced \subseteq raced',
           req[q] # Free /\ ~Overlap(req[q].w, req[r].w) =>
               \A i \in req[q].todo : timed'[i] = 0 \/ timed'[i] = timed[i]
    PROVE  Stays(q)'
<1>1. SUFFICES ASSUME req[q] # Free, ~req'[q].late PROVE Stays(q)'
  BY DEF Stays, Kept
<1>0. PICK v : v = req[q].w
  OBVIOUS
<1>2. /\ req'[q].step = req[q].step /\ req'[q].w = v /\ req'[q].todo = req[q].todo
      /\ ~req[q].late /\ ~Overlap(v, req[r].w)
  BY <1>0, <1>1 DEF Kept
<1>3. /\ req[q].step = "save"   => Decided(v) /\ Renewed(v, v.insert)
      /\ req[q].step = "close"  => \A i \in req[q].todo : timed[i] = 0 \/ Renewed(v, {i})
      /\ req[q].step = "insert" => \A i \in req[q].todo : timed[i] = 0
  BY <1>0, <1>1, <1>2 DEF Stays
<1>4. \A i \in req[q].todo : timed'[i] = 0 \/ timed'[i] = timed[i]
  BY <1>0, <1>1, <1>2
<1>5. /\ Decided(v)' <=> Decided(v)
      /\ \A R : Renewed(v, R)' <=> Renewed(v, R)
  BY TablesStay
<1> QED
  BY <1>2, <1>3, <1>4, <1>5 DEF Stays

-----------------------------------------------------------------------------
(* A request changes what is its own *)

\* A request that has not changed stays in place while rows and pauses keep theirs.
LEMMA KeptInPlace ==
    ASSUME Types, NEW q \in Slots, Placed(q),
           req[q] = Free => req'[q] = Free,
           req[q] # Free => req'[q].w = req[q].w /\ req'[q].todo \subseteq req[q].todo,
           \A i \in DOMAIN rows : rows'[i].s = rows[i].s,
           \A p \in DOMAIN pauses : pauses'[p].s = pauses[p].s,
           \A s \in Sessions : sess[s].state # "none" => sess'[s].state # "none"
    PROVE  Placed(q)'
<1> SUFFICES ASSUME req[q] # Free PROVE Placed(q)'
  BY DEF Placed
<1> DEFINE v == req[q].w
<1>1. /\ v \in Write /\ v.set \cup v.drops \cup v.insert \subseteq DOMAIN rows
      /\ v.ends \subseteq DOMAIN pauses /\ req[q].todo \subseteq DOMAIN rows
  BY DEF Types, RequestTypes, Requests
<1>2. v.s \in Sessions
  BY <1>1 DEF Write
<1>3. req'[q].w = v /\ req'[q].todo \subseteq req[q].todo
  OBVIOUS
<1>4. /\ \A i \in v.set \cup v.drops \cup v.insert \cup req[q].todo : rows[i].s = v.s
      /\ \A p \in v.ends : pauses[p].s = v.s
      /\ v.state # "new" => sess[v.s].state # "none"
  BY DEF Placed
<1> HIDE DEF v
<1>5. \A i \in v.set \cup v.drops \cup v.insert \cup req[q].todo : rows'[i].s = v.s
  BY <1>1, <1>4
<1>6. \A p \in v.ends : pauses'[p].s = v.s
  BY <1>1, <1>4
<1>7. v.state # "new" => sess'[v.s].state # "none"
  BY <1>2, <1>4
<1> QED
  BY <1>3, <1>5, <1>6, <1>7 DEF Placed

LEMMA PlacedInit == Init => InPlace
BY DEF Init, InPlace, RowsKnown, Placed, Free

LEMMA PlacedNext ==
    ASSUME Types, InPlace, [Next]_vars
    PROVE  InPlace'
<1>1. ASSUME NEW r \in Slots, Begin(r) PROVE InPlace'
  <2>1. PICK w : Load(r, w) /\ Legit(w)
    BY <1>1, BeginIsLegit
  <2>2. /\ UNCHANGED <<sess, rows, pauses>>
        /\ req' = [req EXCEPT ![r] = [step |-> "save", w |-> w, todo |-> {}, late |-> FALSE]]
    BY <2>1 DEF Load, db
  <2>3. /\ req'[r].w = w /\ req'[r].todo = {} /\ \A q \in Slots \ {r} : req'[q] = req[q]
    BY <2>2 DEF Types
  <2>4. /\ \A i \in w.set \cup w.drops \cup w.insert : rows[i].s = w.s
        /\ \A p \in w.ends : pauses[p].s = w.s
        /\ w.state # "new" => sess[w.s].state # "none"
    <3>1. w.state \in {"new", "same", "completed", "deleted"}
      BY <2>1 DEF Legit, Write
    <3> QED
      BY <2>1, <3>1 DEF Legit, Decided, Renewed, RowsOf
  <2>5. Placed(r)'
    BY <2>2, <2>3, <2>4 DEF Placed
  <2>6. \A q \in Slots : Placed(q)'
    BY <2>2, <2>3, <2>5 DEF Placed, InPlace
  <2> QED
    BY <2>2, <2>6 DEF InPlace, RowsKnown
<1>2. ASSUME NEW r \in Slots, Save(r) PROVE InPlace'
  <2> DEFINE w == req[r].w
  <2>1. Placed(r) /\ RowsKnown /\ req[r].step = "save"
    BY <1>2 DEF InPlace, Save
  <2>2. RowsKnown' /\ sess'[w.s].state # "none"
    BY <1>2, <2>1, SaveKeepsKnown, StateSaved
  <2>3. /\ \A i \in DOMAIN rows : rows'[i].s = rows[i].s
        /\ \A i \in DOMAIN rows' \ DOMAIN rows : rows'[i].s = w.s
    BY <1>2, SavedRows
  <2>4. \A p \in DOMAIN pauses : pauses'[p].s = pauses[p].s
    BY <1>2, SavedPauses
  <2>5. \A s \in Sessions : sess[s].state # "none" => sess'[s].state # "none"
    BY <1>2, <2>2, SavedSession
  <2>6. PICK next : Commits(r, next)
    BY <1>2, SavedRequest
  <2>7. ASSUME NEW q \in Slots \ {r} PROVE Placed(q)'
    <3>1. Kept(r, q) /\ Placed(q)
      BY <2>6, Committed DEF InPlace
    <3> QED
      BY <2>3, <2>4, <2>5, <3>1, KeptInPlace DEF Kept
  <2>8. Placed(r)'
    <3>1. CASE w.state = "new"
      <4>1. req'[r] = Free
        BY <1>2, <3>1, SavedRequest
      <4> QED
        BY <4>1 DEF Placed, Free
    <3>2. CASE w.state # "new"
      <4>1. req'[r].w = w /\ req'[r].todo = w.insert \cup (DOMAIN rows' \ DOMAIN rows)
        BY <1>2, <3>2, SavedRequest
      <4>2. /\ w.set \cup w.drops \cup w.insert \subseteq DOMAIN rows
            /\ w.ends \subseteq DOMAIN pauses
        BY <2>1, Held
      <4>3. /\ \A i \in w.set \cup w.drops \cup w.insert : rows[i].s = w.s
            /\ \A p \in w.ends : pauses[p].s = w.s
        BY <1>2, <2>1, SavedOwn
      <4> HIDE DEF w
      <4> QED
        BY <2>2, <2>3, <2>4, <4>1, <4>2, <4>3 DEF Placed
    <3> QED
      BY <3>1, <3>2
  <2> QED
    BY <2>2, <2>7, <2>8 DEF InPlace
<1>3. ASSUME NEW r \in Slots, NEW next, Commits(r, next), UNCHANGED <<sess, rows, pauses>>,
             req[r] \in Requests,
             next = Free \/ (next.w = req[r].w /\ next.todo \subseteq req[r].todo)
      PROVE  InPlace'
  <2>1. req'[r] = next /\ \A q \in Slots \ {r} : Kept(r, q)
    BY <1>3, Committed
  <2>2. ASSUME NEW q \in Slots PROVE Placed(q)'
    <3>1. CASE q # r
      <4>1. Kept(r, q) /\ Placed(q)
        BY <2>1, <3>1 DEF InPlace
      <4> QED
        BY <1>3, <4>1, KeptInPlace DEF Kept
    <3>2. CASE q = r /\ next = Free
      BY <2>1, <3>2 DEF Placed, Free
    <3>3. CASE q = r /\ next # Free
      <4>1. Placed(q) /\ req[q] # Free
        BY <1>3, <3>3 DEF InPlace, Requests, Free
      <4> QED
        BY <1>3, <2>1, <3>3, <4>1, KeptInPlace
    <3> QED
      BY <3>1, <3>2, <3>3
  <2> QED
    BY <1>3, <2>2 DEF InPlace, RowsKnown
<1>4. ASSUME NEW r \in Slots, Close(r) PROVE InPlace'
  <2> DEFINE m == [req[r] EXCEPT !.step = "insert"]
             next == IF req[r].todo = {} THEN Free ELSE m
  <2>1. req[r].step = "close" /\ UNCHANGED <<sess, rows, pauses>> /\ Commits(r, next)
    BY <1>4 DEF Close
  <2>2. req[r] \in Requests
    BY <2>1, Held
  <2>3. m.w = req[r].w /\ m.todo = req[r].todo
    BY <2>2 DEF Requests
  <2> HIDE DEF m
  <2>4. next = Free \/ (next.w = req[r].w /\ next.todo \subseteq req[r].todo)
    BY <2>3
  <2> HIDE DEF next
  <2> QED
    BY <1>3, <2>1, <2>2, <2>4
<1>5. ASSUME NEW r \in Slots, NEW i \in DOMAIN rows, Insert(r, i) PROVE InPlace'
  <2> DEFINE m == [req[r] EXCEPT !.todo = req[r].todo \ {i}]
             next == IF req[r].todo = {i} THEN Free ELSE m
  <2>1. req[r].step = "insert" /\ UNCHANGED <<sess, rows, pauses>> /\ Commits(r, next)
    BY <1>5 DEF Insert
  <2>2. req[r] \in Requests
    BY <2>1, Held
  <2>3. m.w = req[r].w /\ m.todo \subseteq req[r].todo
    BY <2>2 DEF Requests
  <2> HIDE DEF m
  <2>4. next = Free \/ (next.w = req[r].w /\ next.todo \subseteq req[r].todo)
    BY <2>3
  <2> HIDE DEF next
  <2> QED
    BY <1>3, <2>1, <2>2, <2>4
<1>6. ASSUME NEW r \in Slots, Die(r) PROVE InPlace'
  BY <1>6 DEF Die, db, Types, InPlace, RowsKnown, Placed, Free
<1>7. CASE UNCHANGED vars
  BY <1>7 DEF vars, InPlace, RowsKnown, Placed
<1> QED
  BY <1>1, <1>2, <1>4, <1>5, <1>6, <1>7 DEF Next

-----------------------------------------------------------------------------
(* The sessions not raced for *)

LEMMA SafeInit == Init => Safe
BY DEF Init, Safe, PausedAreActive, OneWorkAtATime, CompletedIsClosed,
       OneOpenInterval, Stays, Free, NoSession

LEMMA SafeNext ==
    ASSUME Types, Types', InPlace, Safe, [Next]_vars
    PROVE  Safe'
<1>1. ASSUME NEW r \in Slots, Begin(r) PROVE Safe'
  <2>1. PICK w : Load(r, w) /\ Legit(w)
    BY <1>1, BeginIsLegit
  <2>2. /\ UNCHANGED <<sess, rows, pauses, timed, raced>>
        /\ req'[r] = [step |-> "save", w |-> w, todo |-> {}, late |-> FALSE]
        /\ \A q \in Slots \ {r} : req'[q] = req[q]
    BY <2>1 DEF Load, db, Types
  <2>3. Decided(w)' /\ Renewed(w, w.insert)'
    BY <2>1, <2>2, TablesStay DEF Legit
  <2>4. Stays(r)'
    BY <2>2, <2>3 DEF Stays
  <2>5. ASSUME NEW q \in Slots \ {r} PROVE Stays(q)'
    BY <2>2, TablesStay DEF Safe, Stays
  <2> QED
    BY <2>2, <2>4, <2>5, TablesStay DEF Safe, OneOpenInterval
<1>2. ASSUME NEW r \in Slots, Save(r) PROVE Safe'
  <2>1. Placed(r) /\ RowsKnown /\ Stays(r)
    BY DEF Safe, InPlace
  <2>2. req[r].w.s \in raced' \/ Decided(req[r].w)
    <3>1. req[r].step = "save"
      BY <1>2 DEF Save
    <3>3. req[r] # Free
      BY <3>1 DEF Free
    <3>2. req[r].late => req[r].w.s \in raced'
      BY <1>2, <2>1, SavedOwn
    <3> QED
      BY <2>1, <3>1, <3>2, <3>3 DEF Stays
  <2>3. PausedAreActive' /\ OneWorkAtATime' /\ OneOpenInterval'
    BY <1>2, <2>1, <2>2, SaveKeepsPaused, SaveKeepsOneWork, SaveKeepsIntervals DEF Safe
  <2>4. CompletedIsClosed'
    BY <1>2, <2>1, <2>2, <2>3, SaveKeepsClosed DEF Safe
  <2>5. \A q \in Slots : Stays(q)'
    BY <1>2, <2>1, SaveStays, OtherStaysOnSave DEF Safe
  <2> QED
    BY <2>3, <2>4, <2>5 DEF Safe
<1>3. ASSUME NEW r \in Slots, Close(r) PROVE Safe'
  <2> DEFINE m == [req[r] EXCEPT !.step = "insert"]
             next == IF req[r].todo = {} THEN Free ELSE m
  <2>1. /\ req[r].step = "close" /\ UNCHANGED <<sess, rows, pauses>>
        /\ timed' = [i \in DOMAIN timed |->
                       IF rows[i].s = req[r].w.s /\ rows[i].e \in req[r].w.close THEN 0 ELSE timed[i]]
        /\ Commits(r, next)
    BY <1>3 DEF Close
  <2>2. req[r] \in Requests /\ req[r] # Free /\ DOMAIN timed = DOMAIN rows
    <3>1. req[r] \in Requests
      BY <2>1, Held
    <3>2. req[r] # Free
      BY <2>1 DEF Free
    <3> QED
      BY <3>1, <3>2 DEF Types
  <2>3. m.step = "insert" /\ m.todo = req[r].todo /\ m.late = req[r].late
    BY <2>2 DEF Requests
  <2> HIDE DEF m
  <2>4. next = Free \/ next = m
    OBVIOUS
  <2> HIDE DEF next
  <2>5. /\ req'[r] = next /\ raced \subseteq raced' /\ \A q \in Slots \ {r} : Kept(r, q)
    BY <2>1, Committed
  <2>6. \A i \in DOMAIN timed : timed'[i] = 0 \/ timed'[i] = timed[i]
    BY <2>1
  <2>7. OneOpenInterval'
    <3>1. DOMAIN timed' = DOMAIN timed
      BY <2>1
    <3> QED
      BY <2>1, <2>5, <2>6, <3>1 DEF OneOpenInterval, Safe
  <2>8. Stays(r)'
    <3>1. CASE req[r].late
      BY <2>3, <2>4, <2>5, <3>1 DEF Stays
    <3>2. CASE ~req[r].late
      <4>1. \A i \in req[r].todo : timed[i] = 0 \/ Renewed(req[r].w, {i})
        BY <2>1, <2>2, <3>2 DEF Safe, Stays
      <4>2. req[r].todo \subseteq DOMAIN timed
        BY <2>2 DEF Requests
      <4>3. \A i \in req[r].todo : timed'[i] = 0
        BY <2>1, <4>1, <4>2 DEF Renewed
      <4> QED
        BY <2>3, <2>4, <2>5, <4>3 DEF Stays
    <3> QED
      BY <3>1, <3>2
  <2>9. ASSUME NEW q \in Slots \ {r} PROVE Stays(q)'
    <3>1. Kept(r, q) /\ Stays(q) /\ Placed(q)
      BY <2>5 DEF Safe, InPlace
    <3>2. req[q] # Free => req[q].todo \subseteq DOMAIN timed
      BY <2>2 DEF Types, RequestTypes, Requests
    <3>3. req[q] # Free => \A i \in req[q].todo : timed'[i] = 0 \/ timed'[i] = timed[i]
      BY <2>6, <3>2
    <3> QED
      BY <2>1, <2>5, <3>1, <3>3, OtherStaysOnTimed
  <2> QED
    BY <2>1, <2>5, <2>7, <2>8, <2>9, TablesStay DEF Safe
<1>4. ASSUME NEW r \in Slots, NEW i \in DOMAIN rows, Insert(r, i) PROVE Safe'
  <2> DEFINE w == req[r].w
             m == [req[r] EXCEPT !.todo = req[r].todo \ {i}]
             next == IF req[r].todo = {i} THEN Free ELSE m
  <2>1. /\ req[r].step = "insert" /\ UNCHANGED <<sess, rows, pauses>> /\ i \in req[r].todo
        /\ timed' = [timed EXCEPT ![i] = timed[i] + 1]
        /\ Commits(r, next)
    BY <1>4 DEF Insert
  <2>2. req[r] \in Requests /\ req[r] # Free
    <3>1. req[r] # Free
      BY <2>1 DEF Free
    <3> QED
      BY <2>1, <3>1, Held
  <2>3. /\ DOMAIN timed = DOMAIN rows /\ timed'[i] = timed[i] + 1 /\ DOMAIN timed' = DOMAIN timed
        /\ \A k \in DOMAIN timed \ {i} : timed'[k] = timed[k]
    BY <2>1 DEF Types
  <2>4. m.step = "insert" /\ m.todo = req[r].todo \ {i} /\ m.late = req[r].late
    BY <2>1, <2>2 DEF Requests
  <2> HIDE DEF m
  <2>5. next = Free \/ next = m
    OBVIOUS
  <2> HIDE DEF next
  <2>6. /\ req'[r] = next /\ \A q \in Slots \ {r} : Kept(r, q)
        /\ raced \subseteq raced' /\ (req[r].late => w.s \in raced')
    BY <2>1, Committed
  <2>7. rows[i].s = w.s
    BY <2>1, <2>2 DEF InPlace, Placed
  <2>8. ~req[r].late => \A k \in req[r].todo : timed[k] = 0
    BY <2>1, <2>2 DEF Safe, Stays
  <2> HIDE DEF w
  <2>9. OneOpenInterval'
    <3> SUFFICES ASSUME NEW k \in DOMAIN timed, rows[k].s \notin raced' PROVE timed'[k] <= 1
      BY <2>1, <2>3 DEF OneOpenInterval
    <3>1. CASE k = i
      BY <2>1, <2>3, <2>6, <2>7, <2>8, <3>1
    <3>2. CASE k # i
      BY <2>3, <2>6, <3>2 DEF OneOpenInterval, Safe
    <3> QED
      BY <3>1, <3>2
  <2>10. Stays(r)'
    <3>1. CASE req[r].late
      BY <2>4, <2>5, <2>6, <3>1 DEF Stays
    <3>2. CASE ~req[r].late
      <4>1. req[r].todo \subseteq DOMAIN timed
        BY <2>2, <2>3 DEF Requests
      <4>2. \A k \in req[r].todo \ {i} : timed'[k] = 0
        BY <2>3, <2>8, <3>2, <4>1
      <4> QED
        BY <2>4, <2>5, <2>6, <4>2 DEF Stays
    <3> QED
      BY <3>1, <3>2
  <2>11. ASSUME NEW q \in Slots \ {r} PROVE Stays(q)'
    <3>1. Kept(r, q) /\ Stays(q) /\ Placed(q)
      BY <2>6 DEF Safe, InPlace
    <3>2. req[q] # Free => req[q].todo \subseteq DOMAIN timed
      BY <2>3 DEF Types, RequestTypes, Requests
    <3>3. ASSUME req[q] # Free, ~Overlap(req[q].w, w)
          PROVE  \A k \in req[q].todo : timed'[k] = 0 \/ timed'[k] = timed[k]
      <4>1. i \notin req[q].todo
        BY <2>7, <3>1, <3>3 DEF Placed, Overlap
      <4> QED
        BY <2>3, <3>2, <3>3, <4>1
    <3> QED
      BY <2>1, <2>6, <3>1, <3>3, OtherStaysOnTimed DEF w
  <2> QED
    BY <2>1, <2>6, <2>9, <2>10, <2>11, TablesStay DEF Safe
<1>5. ASSUME NEW r \in Slots, Die(r) PROVE Safe'
  <2>1. /\ UNCHANGED <<sess, rows, pauses, timed, raced>> /\ req'[r] = Free
        /\ \A q \in Slots \ {r} : req'[q] = req[q]
    BY <1>5 DEF Die, db, Types
  <2>2. \A q \in Slots : Stays(q)'
    BY <2>1, TablesStay DEF Safe, Stays
  <2> QED
    BY <2>1, <2>2, TablesStay DEF Safe, OneOpenInterval
<1>6. CASE UNCHANGED vars
  <2>1. UNCHANGED <<sess, rows, pauses, timed, req, raced>>
    BY <1>6 DEF vars
  <2>2. \A q \in Slots : Stays(q)'
    BY <2>1, TablesStay DEF Safe, Stays
  <2> QED
    BY <2>1, <2>2, TablesStay DEF Safe, OneOpenInterval
<1> QED
  BY <1>1, <1>2, <1>3, <1>4, <1>5, <1>6 DEF Next

LEMMA SafeAlways == Spec => [](Types /\ InPlace /\ Safe)
<1>1. Init => Types /\ InPlace /\ Safe
  BY TypesInit, PlacedInit, SafeInit
<1>2. Types /\ InPlace /\ Safe /\ [Next]_vars => (Types /\ InPlace /\ Safe)'
  BY TypesNext, PlacedNext, SafeNext
<1> QED
  BY <1>1, <1>2, PTL DEF Spec

-----------------------------------------------------------------------------
(* The theorems *)

\* The types: what a request holds is about rows and pauses that are there, and a
\* version is within its bound.
THEOREM TypeCorrect == Spec => []TypeOK
<1>1. Types => TypeOK
  <2> SUFFICES ASSUME Types PROVE TypeOK
    OBVIOUS
  <2>1. ASSUME NEW r \in Slots, req[r] # Free
        PROVE  /\ req[r].step \in {"save", "close", "insert"} /\ req[r].late \in BOOLEAN
               /\ req[r].w \in Write
               /\ UNION {req[r].w.set, req[r].w.drops, req[r].w.insert, req[r].todo} \subseteq DOMAIN rows
               /\ req[r].w.ends \subseteq DOMAIN pauses
    <3>1. /\ req[r] \in Requests
          /\ req[r].w.set \cup req[r].w.drops \cup req[r].w.insert \subseteq DOMAIN rows
          /\ req[r].w.ends \subseteq DOMAIN pauses
      BY <2>1 DEF Types, RequestTypes
    <3> QED
      BY <3>1 DEF Requests
  <2> QED
    BY <2>1 DEF Types, TypeOK, SessionType, RowType, PauseType
<1> QED
  BY <1>1, TypesAlways, PTL

\* FindWorkingConflicts is asked once on every way to work, and not again before the
\* commit: with any number of requests at once nobody works in two open sessions,
\* unless one of the two has been committed to by a request that another one, of the
\* same session or of the same person, had overtaken.
THEOREM WorksOnce == Spec => []OneWorkAtATime
<1>1. Types /\ InPlace /\ Safe => OneWorkAtATime
  BY DEF Safe
<1> QED
  BY <1>1, SafeAlways, PTL

\* CompleteWorkSession: a completed session has no participant who is not done, and
\* no open pause of one of them, whatever participants were dropped, came back or
\* were marked a mistake before, unless it has been committed to by a request that
\* another one had overtaken.
THEOREM CompletedStaysClosed == Spec => []CompletedIsClosed
<1>1. Types /\ InPlace /\ Safe => CompletedIsClosed
  BY DEF Safe
<1> QED
  BY <1>1, SafeAlways, PTL

\* CloseOpenParticipationIntervals and InsertParticipationInterval: a participant has
\* one open interval at most, though a request may die between any two of its commits
\* and others run at once, unless his session has been committed to by a request that
\* another one had overtaken.
THEOREM TimeCountedOnce == Spec => []OneOpenInterval
<1>1. Types /\ InPlace /\ Safe => OneOpenInterval
  BY DEF Safe
<1> QED
  BY <1>1, SafeAlways, PTL
=============================================================================
