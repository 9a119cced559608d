------------------------- MODULE ConnectorSyncProofs -------------------------
(***************************************************************************)
(* Proofs about ConnectorSync: for every set of ids, contents and          *)
(* overlapping runs, the knowledge items and the source versions disagree  *)
(* only about an id whose pair of writes was split or mixed.               *)
(***************************************************************************)
EXTENDS ConnectorSync, TLAPS

\* What a run holds at each of its steps: a record still to do is one the source
\* had, and a pair of writes is about an id.
Shape(r) ==
  /\ pc[r] \in {"records", "upsert", "version"} => todo[r] \subseteq SeenIds(r)
  /\ pc[r] \in {"upsert", "version", "archive"} => cur[r] \in Ext
  /\ pc[r] \in {"upsert", "version"} => snap[r][cur[r]] \in Content

ShapeInv == \A r \in Run : Shape(r)

LEMMA LeaveType ==
  ASSUME TypeOK, NEW r \in Run, Leave(r)
  PROVE  /\ pc' \in [Run -> RunStates]
         /\ snap' \in [Run -> Snapshot]
         /\ todo' \in [Run -> SUBSET Ext]
         /\ cur' \in [Run -> Ext \cup {NoExt}]
<1>1. Nothing \in Snapshot
  BY DEF Nothing, Snapshot
<1>2. pc' \in [Run -> RunStates]
  BY DEF TypeOK, Leave, Goto, RunStates
<1>3. snap' \in [Run -> Snapshot]
  BY <1>1 DEF TypeOK, Leave
<1>4. todo' \in [Run -> SUBSET Ext] /\ cur' \in [Run -> Ext \cup {NoExt}]
  BY DEF TypeOK, Leave
<1> QED
  BY <1>2, <1>3, <1>4

\* Types and shapes are kept together: what is written is what a run holds.
LEMMA TypeStep == TypeOK /\ ShapeInv /\ [Next]_vars => TypeOK' /\ ShapeInv'
<1> SUFFICES ASSUME TypeOK, ShapeInv, [Next]_vars PROVE TypeOK' /\ ShapeInv'
  OBVIOUS
<1> USE SentinelsApart DEF TypeOK, worldVars, storeVars, runVars, history, Snapshot, Item, RunStates
<1>1. ASSUME NEW x \in Ext, NEW c \in Content \cup {Absent}, SourceChanges(x, c)
      PROVE  TypeOK' /\ ShapeInv'
  BY <1>1 DEF SourceChanges, ShapeInv, Shape, SeenIds
<1>2. CASE ToggleEnabled
  BY <1>2 DEF ToggleEnabled, ShapeInv, Shape, SeenIds
<1>3. ASSUME NEW r \in Run, Start(r) PROVE TypeOK' /\ ShapeInv'
  <2>1. row' \in [Run -> {"none", "running", "skipped", "succeeded", "failed"}]
    BY <1>3 DEF Start
  <2>2. pc' \in [Run -> RunStates]
    BY <1>3 DEF Start, Goto
  <2>3. alone' \in SUBSET Run /\ orphaned' \in SUBSET Run
    BY <1>3 DEF Start, InFlight
  <2>4. TypeOK'
    BY <1>3, <2>1, <2>2, <2>3 DEF Start
  <2>5. \A q \in Run : Shape(q)'
    BY <1>3 DEF Start, Goto, ShapeInv, Shape, SeenIds
  <2> QED
    BY <2>4, <2>5 DEF ShapeInv
<1>4. ASSUME NEW r \in Run, Fetch(r) PROVE TypeOK' /\ ShapeInv'
  <2>1. TypeOK'
    BY <1>4 DEF Fetch, Goto
  <2>2. \A q \in Run : Shape(q)'
    BY <1>4 DEF Fetch, Goto, ShapeInv, Shape, SeenIds
  <2> QED
    BY <2>1, <2>2 DEF ShapeInv
<1>5. ASSUME NEW r \in Run, Examine(r) PROVE TypeOK' /\ ShapeInv'
  <2>1. PICK x \in todo[r] :
          /\ todo' = [todo EXCEPT ![r] = @ \ {x}]
          /\ IF Unchanged(r, x)
             THEN UNCHANGED <<pc, cur>>
             ELSE Goto(r, "upsert") /\ cur' = [cur EXCEPT ![r] = x]
    BY <1>5 DEF Examine
  <2>2. pc' \in [Run -> RunStates] /\ cur' \in [Run -> Ext \cup {NoExt}]
    <3>1. x \in Ext
      OBVIOUS
    <3>2. CASE Unchanged(r, x)
      BY <2>1, <3>2
    <3>3. CASE ~Unchanged(r, x)
      BY <2>1, <3>1, <3>3 DEF Goto
    <3> QED
      BY <3>2, <3>3
  <2>3. todo' \in [Run -> SUBSET Ext]
    BY <2>1
  <2>4. TypeOK'
    BY <1>5, <2>2, <2>3 DEF Examine
  <2>5. \A q \in Run : Shape(q)'
    <3> SUFFICES ASSUME NEW q \in Run PROVE Shape(q)'
      OBVIOUS
    <3>1. Shape(q) /\ x \in SeenIds(r)
      BY <1>5 DEF Examine, ShapeInv, Shape
    <3>2. snap' = snap /\ snap[r][x] \in Content
      BY <1>5, <3>1 DEF Examine, SeenIds
    <3> QED
      BY <1>5, <2>1, <3>1, <3>2 DEF Examine, Goto, Shape, SeenIds
  <2> QED
    BY <2>4, <2>5 DEF ShapeInv
<1>6. ASSUME NEW r \in Run, UpsertKnowledge(r) PROVE TypeOK' /\ ShapeInv'
  <2>1. cur[r] \in Ext /\ snap[r][cur[r]] \in Content
    BY <1>6 DEF UpsertKnowledge, ShapeInv, Shape
  <2>2. TypeOK'
    BY <1>6, <2>1 DEF UpsertKnowledge, Goto, WriteInto
  <2>3. \A q \in Run : Shape(q)'
    BY <1>6, <2>1 DEF UpsertKnowledge, Goto, ShapeInv, Shape, SeenIds
  <2> QED
    BY <2>2, <2>3 DEF ShapeInv
<1>7. ASSUME NEW r \in Run, SaveVersion(r) PROVE TypeOK' /\ ShapeInv'
  <2>1. cur[r] \in Ext /\ snap[r][cur[r]] \in Content
    BY <1>7 DEF SaveVersion, ShapeInv, Shape
  <2>2. TypeOK'
    BY <1>7, <2>1 DEF SaveVersion, Goto, CloseWrite
  <2>3. \A q \in Run : Shape(q)'
    BY <1>7, <2>1 DEF SaveVersion, Goto, ShapeInv, Shape, SeenIds
  <2> QED
    BY <2>2, <2>3 DEF ShapeInv
<1>8. ASSUME NEW r \in Run, ListRemoved(r) PROVE TypeOK' /\ ShapeInv'
  <2>1. TypeOK'
    BY <1>8 DEF ListRemoved, Goto, ActiveIds
  <2>2. \A q \in Run : Shape(q)'
    BY <1>8 DEF ListRemoved, Goto, ShapeInv, Shape, SeenIds
  <2> QED
    BY <2>1, <2>2 DEF ShapeInv
<1>9. ASSUME NEW r \in Run, Deactivate(r) PROVE TypeOK' /\ ShapeInv'
  <2>1. TypeOK'
    BY <1>9 DEF Deactivate, Goto, WriteInto
  <2>2. \A q \in Run : Shape(q)'
    BY <1>9 DEF Deactivate, Goto, ShapeInv, Shape, SeenIds
  <2> QED
    BY <2>1, <2>2 DEF ShapeInv
<1>10. ASSUME NEW r \in Run, Archive(r) PROVE TypeOK' /\ ShapeInv'
  <2>1. cur[r] \in Ext
    BY <1>10 DEF Archive, ShapeInv, Shape
  <2>2. knowledge' \in [Ext -> Item]
    <3>1. CASE knowledge[cur[r]].status = "none"
      BY <1>10, <3>1 DEF Archive
    <3>2. CASE knowledge[cur[r]].status # "none"
      <4>1. knowledge[cur[r]] \in Item
        BY <2>1
      <4>2. [knowledge[cur[r]] EXCEPT !.status = "archived"] \in Item
        BY <4>1
      <4> QED
        BY <1>10, <2>1, <3>2, <4>2 DEF Archive
    <3> QED
      BY <3>1, <3>2
  <2>3. pc' \in [Run -> RunStates] /\ cur' \in [Run -> Ext \cup {NoExt}]
    BY <1>10 DEF Archive, Goto
  <2>4. torn' \in SUBSET Ext /\ mixed' \in SUBSET Run
    BY <1>10, <2>1 DEF Archive, CloseWrite
  <2>5. TypeOK'
    BY <1>10, <2>2, <2>3, <2>4 DEF Archive
  <2>6. \A q \in Run : Shape(q)'
    BY <1>10 DEF Archive, Goto, ShapeInv, Shape, SeenIds
  <2> QED
    BY <2>5, <2>6 DEF ShapeInv
<1>11. ASSUME NEW r \in Run, BookSuccess(r) \/ HealthOk(r) \/ BookFailure(r) \/ HealthError(r)
       PROVE  TypeOK' /\ ShapeInv'
  <2>1. TypeOK'
    <3>1. CASE BookSuccess(r) \/ BookFailure(r)
      BY <3>1 DEF BookSuccess, BookFailure, Goto
    <3>2. CASE HealthOk(r) \/ HealthError(r)
      <4>1. Leave(r)
        BY <3>2 DEF HealthOk, HealthError
      <4> QED
        BY <3>2, <4>1, LeaveType DEF HealthOk, HealthError
    <3> QED
      BY <1>11, <3>1, <3>2
  <2>2. \A q \in Run : Shape(q)'
    <3> SUFFICES ASSUME NEW q \in Run PROVE Shape(q)'
      OBVIOUS
    <3>1. Shape(q)
      BY DEF ShapeInv
    <3>2. CASE BookSuccess(r) \/ BookFailure(r)
      BY <3>1, <3>2 DEF BookSuccess, BookFailure, Goto, Shape, SeenIds
    <3>3. CASE HealthOk(r) \/ HealthError(r)
      BY <3>1, <3>3 DEF HealthOk, HealthError, Leave, Goto, Shape, SeenIds
    <3> QED
      BY <1>11, <3>2, <3>3
  <2> QED
    BY <2>1, <2>2 DEF ShapeInv
<1>12. ASSUME NEW r \in Run, CallFails(r) \/ Lost(r) PROVE TypeOK' /\ ShapeInv'
  <2>1. torn' \in SUBSET Ext /\ mixed' \in SUBSET Run
    BY <1>12 DEF CallFails, Lost, Interrupted, HalfWritten, ShapeInv, Shape
  <2>2. TypeOK'
    <3>1. CASE CallFails(r)
      BY <2>1, <3>1, BoundsNat DEF CallFails, Goto
    <3>2. CASE Lost(r)
      <4>1. Leave(r)
        BY <3>2 DEF Lost
      <4> QED
        BY <2>1, <3>2, <4>1, LeaveType, BoundsNat DEF Lost
    <3> QED
      BY <1>12, <3>1, <3>2
  <2>3. \A q \in Run : Shape(q)'
    BY <1>12 DEF CallFails, Lost, Goto, Leave, ShapeInv, Shape, SeenIds
  <2> QED
    BY <2>2, <2>3 DEF ShapeInv
<1>13. CASE UNCHANGED vars
  BY <1>13 DEF vars, ShapeInv, Shape, SeenIds
<1> QED
  BY <1>1, <1>2, <1>3, <1>4, <1>5, <1>6, <1>7, <1>8, <1>9, <1>10, <1>11, <1>12, <1>13
     DEF Next, RunStep

LEMMA InitTyped == Init => TypeOK /\ ShapeInv
BY SentinelsApart DEF Init, TypeOK, ShapeInv, Shape, Snapshot, Item, Nothing, RunStates, SeenIds

LEMMA ShapeAlways == Spec => [](TypeOK /\ ShapeInv)
BY InitTyped, TypeStep, PTL DEF Spec

\* Type correctness.
THEOREM TypeCorrect == Spec => []TypeOK
BY ShapeAlways, PTL
-----------------------------------------------------------------------------
\* Of a pair of writes no other run has written into, the first still stands.
Standing(r) ==
  r \notin mixed =>
    /\ pc[r] = "version" =>
         knowledge[cur[r]] = [status |-> "approved", content |-> snap[r][cur[r]]]
    /\ pc[r] = "archive" => cur[r] \notin ActiveIds

StandingInv == \A r \in Run : Standing(r)

IInv == TypeOK /\ ShapeInv /\ StandingInv /\ StoresAgree

\* What the agreement of id x and the standing of run q are about.
SameStores(x) ==
  /\ knowledge'[x] = knowledge[x]
  /\ latest'[x] = latest[x]
  /\ \A c \in Content : <<x, c>> \in active' <=> <<x, c>> \in active

LEMMA SameAgree ==
  ASSUME NEW x \in Ext, SameStores(x), Agree(x)
  PROVE  Agree(x)'
BY DEF SameStores, Agree, Mirrors, ActiveIds

LEMMA SameStanding ==
  ASSUME TypeOK, NEW q \in Run, Shape(q), Standing(q), q \in mixed => q \in mixed',
         pc'[q] = pc[q], cur'[q] = cur[q], snap'[q] = snap[q],
         cur[q] \in Ext => SameStores(cur[q])
  PROVE  Standing(q)'
BY DEF SameStores, Standing, Shape, ActiveIds

\* Steps that write no store: the runs between two writes stay there, or their
\* id becomes torn.
LEMMA QuietStep ==
  ASSUME IInv, UNCHANGED storeVars, torn \subseteq torn',
         \A q \in Run :
           \/ /\ pc'[q] = pc[q] /\ cur'[q] = cur[q] /\ snap'[q] = snap[q]
              /\ q \in mixed' <=> q \in mixed
           \/ /\ ~HalfWritten(q)'
              /\ HalfWritten(q) => cur[q] \in torn'
  PROVE  StandingInv' /\ StoresAgree'
<1>1. ASSUME NEW q \in Run PROVE Standing(q)'
  BY DEF IInv, StandingInv, Standing, storeVars, ActiveIds, HalfWritten
<1>2. ASSUME NEW x \in Ext, x \notin torn',
             \A q \in Run : cur'[q] = x => ~HalfWritten(q)'
      PROVE  Agree(x)'
  <2>1. \A q \in Run : cur[q] = x => ~HalfWritten(q)
    BY <1>2 DEF HalfWritten
  <2>2. Agree(x)
    BY <1>2, <2>1 DEF IInv, StoresAgree
  <2> QED
    BY <2>2 DEF storeVars, Agree, Mirrors, ActiveIds
<1> QED
  BY <1>1, <1>2 DEF StandingInv, StoresAgree

\* The first write of a pair: the id leaves the claim, and the pairs of other
\* runs on it are marked.
LEMMA FirstWrite ==
  ASSUME IInv, NEW r \in Run, NEW x \in Ext, WriteInto(r, x), UNCHANGED <<torn, snap>>,
         cur'[r] = x, HalfWritten(r)', ~HalfWritten(r),
         \A q \in Run \ {r} : pc'[q] = pc[q] /\ cur'[q] = cur[q],
         \A y \in Ext \ {x} : SameStores(y),
         Standing(r)'
  PROVE  StandingInv' /\ StoresAgree'
<1>1. ASSUME NEW q \in Run PROVE Standing(q)'
  <2>1. CASE q = r
    BY <2>1
  <2>2. CASE q # r /\ cur[q] = x
    BY <2>2 DEF WriteInto, Standing
  <2>3. CASE q # r /\ cur[q] # x
    <3>1. Standing(q) /\ Shape(q)
      BY DEF IInv, StandingInv, ShapeInv
    <3>2. q \in mixed => q \in mixed'
      BY DEF WriteInto
    <3> QED
      BY <2>3, <3>1, <3>2, SameStanding DEF IInv
  <2> QED
    BY <2>1, <2>2, <2>3
<1>2. ASSUME NEW y \in Ext, y \notin torn',
             \A q \in Run : cur'[q] = y => ~HalfWritten(q)'
      PROVE  Agree(y)'
  <2>1. y # x
    BY <1>2
  <2>2. \A q \in Run : cur[q] = y => ~HalfWritten(q)
    BY <1>2 DEF HalfWritten
  <2> QED
    BY <1>2, <2>1, <2>2, SameAgree DEF IInv, StoresAgree
<1> QED
  BY <1>1, <1>2 DEF StandingInv, StoresAgree

\* The last write of a pair: unless another run wrote into it, the id agrees.
LEMMA LastWrite ==
  ASSUME IInv, NEW r \in Run, NEW x \in Ext, CloseWrite(r, x), UNCHANGED snap,
         cur[r] = x, ~HalfWritten(r)',
         \A q \in Run \ {r} : pc'[q] = pc[q] /\ cur'[q] = cur[q],
         \A y \in Ext \ {x} : SameStores(y),
         r \notin mixed => Agree(x)'
  PROVE  StandingInv' /\ StoresAgree'
<1>1. ASSUME NEW q \in Run PROVE Standing(q)'
  <2>1. CASE q = r
    BY <2>1 DEF Standing, HalfWritten
  <2>2. CASE q # r /\ cur[q] = x
    BY <2>2 DEF CloseWrite, Standing
  <2>3. CASE q # r /\ cur[q] # x
    <3>1. Standing(q) /\ Shape(q)
      BY DEF IInv, StandingInv, ShapeInv
    <3>2. q \in mixed => q \in mixed'
      BY <2>3 DEF CloseWrite
    <3> QED
      BY <2>3, <3>1, <3>2, SameStanding DEF IInv
  <2> QED
    BY <2>1, <2>2, <2>3
<1>2. ASSUME NEW y \in Ext, y \notin torn',
             \A q \in Run : cur'[q] = y => ~HalfWritten(q)'
      PROVE  Agree(y)'
  <2>1. CASE y = x
    BY <1>2, <2>1 DEF CloseWrite
  <2>2. CASE y # x
    <3>1. y \notin torn
      BY <1>2, <2>2 DEF CloseWrite
    <3>2. \A q \in Run : cur[q] = y => ~HalfWritten(q)
      BY <1>2, <2>2 DEF HalfWritten
    <3> QED
      BY <2>2, <3>1, <3>2, SameAgree DEF IInv, StoresAgree
  <2> QED
    BY <2>1, <2>2
<1> QED
  BY <1>1, <1>2 DEF StandingInv, StoresAgree

\* Every step keeps the agreement.
LEMMA AgreeStep == IInv /\ [Next]_vars => StandingInv' /\ StoresAgree'
<1> SUFFICES ASSUME IInv, [Next]_vars PROVE StandingInv' /\ StoresAgree'
  OBVIOUS
<1> USE DEF IInv, TypeOK, storeVars
<1>1. ASSUME NEW r \in Run, UpsertKnowledge(r) PROVE StandingInv' /\ StoresAgree'
  <2> DEFINE x == cur[r]
  <2>1. x \in Ext
    BY <1>1 DEF UpsertKnowledge, ShapeInv, Shape
  <2>2. Standing(r)'
    BY <1>1, <2>1 DEF UpsertKnowledge, Goto, Standing
  <2>3. \A y \in Ext \ {x} : SameStores(y)
    BY <1>1, <2>1 DEF UpsertKnowledge, SameStores
  <2>4. /\ WriteInto(r, x) /\ UNCHANGED <<torn, snap>>
        /\ cur'[r] = x /\ HalfWritten(r)' /\ ~HalfWritten(r)
        /\ \A q \in Run \ {r} : pc'[q] = pc[q] /\ cur'[q] = cur[q]
    BY <1>1 DEF UpsertKnowledge, Goto, HalfWritten
  <2> HIDE DEF x
  <2> QED
    BY <2>1, <2>2, <2>3, <2>4, FirstWrite
<1>2. ASSUME NEW r \in Run, Deactivate(r) PROVE StandingInv' /\ StoresAgree'
  <2>1. PICK x \in todo[r] :
          /\ active' = active \ ({x} \X Content)
          /\ cur' = [cur EXCEPT ![r] = x]
          /\ WriteInto(r, x)
    BY <1>2 DEF Deactivate
  <2>2. x \in Ext
    OBVIOUS
  <2>3. Standing(r)'
    BY <1>2, <2>1, <2>2 DEF Deactivate, Goto, Standing, ActiveIds
  <2>4. \A y \in Ext \ {x} : SameStores(y)
    BY <1>2, <2>1 DEF Deactivate, SameStores
  <2>5. /\ UNCHANGED <<torn, snap>>
        /\ cur'[r] = x /\ HalfWritten(r)' /\ ~HalfWritten(r)
        /\ \A q \in Run \ {r} : pc'[q] = pc[q] /\ cur'[q] = cur[q]
    BY <1>2, <2>1, <2>2 DEF Deactivate, Goto, HalfWritten
  <2> QED
    BY <2>1, <2>2, <2>3, <2>4, <2>5, FirstWrite
<1>3. ASSUME NEW r \in Run, SaveVersion(r) PROVE StandingInv' /\ StoresAgree'
  <2>1. PICK x \in Ext : x = cur[r] /\ snap[r][x] \in Content
    BY <1>3 DEF SaveVersion, ShapeInv, Shape
  <2>2. ASSUME r \notin mixed PROVE Agree(x)'
    <3>1. knowledge[x] = [status |-> "approved", content |-> snap[r][x]]
      BY <1>3, <2>1, <2>2 DEF SaveVersion, StandingInv, Standing
    <3>2. latest'[x] = snap[r][x] /\ x \in ActiveIds'
      BY <1>3, <2>1, <2>2 DEF SaveVersion, ActiveIds, Snapshot
    <3>3. knowledge' = knowledge
      BY <1>3 DEF SaveVersion
    <3> QED
      BY <3>1, <3>2, <3>3, <2>1, SentinelsApart DEF Agree, Mirrors
  <2>3. \A y \in Ext \ {x} : SameStores(y)
    BY <1>3, <2>1 DEF SaveVersion, SameStores, Snapshot
  <2>4. /\ CloseWrite(r, x) /\ UNCHANGED snap
        /\ cur[r] = x /\ ~HalfWritten(r)'
        /\ \A q \in Run \ {r} : pc'[q] = pc[q] /\ cur'[q] = cur[q]
    BY <1>3, <2>1 DEF SaveVersion, Goto, HalfWritten
  <2> QED
    BY <2>1, <2>2, <2>3, <2>4, LastWrite
<1>4. ASSUME NEW r \in Run, Archive(r) PROVE StandingInv' /\ StoresAgree'
  <2>1. PICK x \in Ext : x = cur[r]
    BY <1>4 DEF Archive, ShapeInv, Shape
  <2>2. knowledge'[x].status # "approved"
    <3>1. CASE knowledge[x].status = "none"
      BY <1>4, <2>1, <3>1 DEF Archive
    <3>2. CASE knowledge[x].status # "none"
      BY <1>4, <2>1, <3>2 DEF Archive, Item
    <3> QED
      BY <3>1, <3>2
  <2>3. ASSUME r \notin mixed PROVE Agree(x)'
    <3>1. x \notin ActiveIds
      BY <1>4, <2>1, <2>3 DEF Archive, StandingInv, Standing
    <3>2. x \notin ActiveIds'
      BY <1>4, <3>1 DEF Archive, ActiveIds
    <3> QED
      BY <2>2, <3>2 DEF Agree, Mirrors
  <2>4. \A y \in Ext \ {x} : SameStores(y)
    BY <1>4, <2>1 DEF Archive, SameStores
  <2>5. /\ CloseWrite(r, x) /\ UNCHANGED snap
        /\ cur[r] = x /\ ~HalfWritten(r)'
        /\ \A q \in Run \ {r} : pc'[q] = pc[q] /\ cur'[q] = cur[q]
    BY <1>4, <2>1 DEF Archive, Goto, HalfWritten
  <2> QED
    BY <2>1, <2>3, <2>4, <2>5, LastWrite
<1>5. ASSUME NEW r \in Run,
             \/ Start(r) \/ Fetch(r) \/ Examine(r) \/ ListRemoved(r)
             \/ BookSuccess(r) \/ HealthOk(r) \/ BookFailure(r) \/ HealthError(r)
             \/ CallFails(r) \/ Lost(r)
      PROVE  StandingInv' /\ StoresAgree'
  <2>1. UNCHANGED storeVars
    BY <1>5 DEF Start, Fetch, Examine, ListRemoved, BookSuccess, HealthOk,
                BookFailure, HealthError, CallFails, Lost
  <2>2. torn \subseteq torn'
    BY <1>5 DEF Start, Fetch, Examine, ListRemoved, BookSuccess, HealthOk,
                BookFailure, HealthError, CallFails, Lost, Interrupted, history
  <2>3. \A q \in Run \ {r} : /\ pc'[q] = pc[q] /\ cur'[q] = cur[q] /\ snap'[q] = snap[q]
                             /\ q \in mixed' <=> q \in mixed
    BY <1>5 DEF Start, Fetch, Examine, ListRemoved, BookSuccess, HealthOk, Goto, Leave,
                BookFailure, HealthError, CallFails, Lost, Interrupted, history
  <2>4. CASE CallFails(r) \/ Lost(r)
    <3>1. ~HalfWritten(r)' /\ (HalfWritten(r) => cur[r] \in torn')
      BY <2>4 DEF CallFails, Lost, Goto, Leave, Interrupted, HalfWritten
    <3> QED
      BY <2>1, <2>2, <2>3, <3>1, QuietStep
  <2>5. CASE ~(CallFails(r) \/ Lost(r))
    <3>1. \/ ~HalfWritten(r) /\ ~HalfWritten(r)'
          \/ UNCHANGED <<pc, cur, snap, mixed>>
      BY <1>5, <2>5
         DEF Start, Fetch, Examine, ListRemoved, BookSuccess, HealthOk, Goto, Leave,
             BookFailure, HealthError, HalfWritten, history
    <3> QED
      BY <2>1, <2>2, <2>3, <3>1, QuietStep
  <2> QED
    BY <2>4, <2>5
<1>6. ASSUME NEW x \in Ext, NEW c \in Content \cup {Absent}, SourceChanges(x, c)
      PROVE  StandingInv' /\ StoresAgree'
  BY <1>6, QuietStep DEF SourceChanges, runVars, history
<1>7. CASE ToggleEnabled
  BY <1>7, QuietStep DEF ToggleEnabled, runVars, history
<1>8. CASE UNCHANGED vars
  BY <1>8, QuietStep DEF vars, runVars, history
<1> QED
  BY <1>1, <1>2, <1>3, <1>4, <1>5, <1>6, <1>7, <1>8 DEF Next, RunStep

LEMMA IInvAlways == Spec => []IInv
<1>1. Init => StandingInv /\ StoresAgree
  BY DEF Init, StandingInv, Standing, StoresAgree, Agree, Mirrors, ActiveIds, Nothing
<1>2. IInv /\ [Next]_vars => IInv'
  BY TypeStep, AgreeStep DEF IInv
<1>3. Init => IInv
  BY <1>1, InitTyped DEF IInv
<1> QED
  BY <1>2, <1>3, PTL DEF Spec

\* The stores agree on every id whose writes were neither split nor mixed,
\* however many runs overlap, fail or die.
THEOREM StoresAlwaysAgree == Spec => []StoresAgree
<1>1. IInv => StoresAgree
  BY DEF IInv
<1> QED
  BY <1>1, IInvAlways, PTL
-----------------------------------------------------------------------------
(* How runs are booked.                                                      *)

\* RunsAreBooked needs the row of a run whose health is still to be written.
BookedRow(r) ==
  /\ pc[r] = "health" => row[r] = "succeeded"
  /\ pc[r] = "failHealth" => row[r] = "failed"
  /\ pc[r] = "idle" /\ row[r] = "running" => r \in orphaned

BookedInv == \A r \in Run : BookedRow(r)

LEMMA BookedStep == TypeOK /\ BookedInv /\ [Next]_vars => BookedInv'
<1> SUFFICES ASSUME TypeOK, BookedInv, [Next]_vars, NEW q \in Run PROVE BookedRow(q)'
  BY DEF BookedInv
<1> USE DEF worldVars, storeVars, runVars, history
<1>0. BookedRow(q)
  BY DEF BookedInv
<1>1. ASSUME UNCHANGED <<pc, row, orphaned>> PROVE BookedRow(q)'
  BY <1>0, <1>1 DEF BookedRow
<1>2. ASSUME NEW x \in Ext, NEW c \in Content \cup {Absent}, SourceChanges(x, c)
      PROVE  BookedRow(q)'
  BY <1>1, <1>2 DEF SourceChanges
<1>3. CASE ToggleEnabled \/ UNCHANGED vars
  BY <1>1, <1>3 DEF ToggleEnabled, vars
<1>4. ASSUME NEW r \in Run, Start(r) PROVE BookedRow(q)'
  BY <1>0, <1>4 DEF Start, Goto, BookedRow, TypeOK
<1>5. ASSUME NEW r \in Run,
             \/ Fetch(r) \/ Examine(r) \/ UpsertKnowledge(r) \/ SaveVersion(r)
             \/ ListRemoved(r) \/ Deactivate(r) \/ Archive(r)
      PROVE  BookedRow(q)'
  <2>1. UNCHANGED <<row, orphaned>>
    BY <1>5 DEF Fetch, Examine, UpsertKnowledge, SaveVersion, ListRemoved, Deactivate, Archive
  <2>2. \/ pc'[q] = pc[q]
        \/ pc'[q] \in {"records", "upsert", "version", "remove", "archive"}
    BY <1>5 DEF Fetch, Examine, UpsertKnowledge, SaveVersion, ListRemoved, Deactivate, Archive,
                Goto, TypeOK
  <2> QED
    BY <1>0, <2>1, <2>2 DEF BookedRow
<1>6. ASSUME NEW r \in Run, BookSuccess(r) \/ BookFailure(r) PROVE BookedRow(q)'
  BY <1>0, <1>6 DEF BookSuccess, BookFailure, Goto, BookedRow, TypeOK
<1>7. ASSUME NEW r \in Run, HealthOk(r) \/ HealthError(r) PROVE BookedRow(q)'
  BY <1>0, <1>7 DEF HealthOk, HealthError, Leave, Goto, BookedRow, TypeOK
<1>8. ASSUME NEW r \in Run, CallFails(r) PROVE BookedRow(q)'
  BY <1>0, <1>8 DEF CallFails, Goto, BookedRow, TypeOK
<1>9. ASSUME NEW r \in Run, Lost(r) PROVE BookedRow(q)'
  BY <1>0, <1>9 DEF Lost, Leave, Goto, BookedRow, TypeOK
<1> QED
  BY <1>2, <1>3, <1>4, <1>5, <1>6, <1>7, <1>8, <1>9 DEF Next, RunStep

\* A run that is over is booked, whatever call of it threw, unless its process
\* was lost.
THEOREM EveryRunBooked == Spec => []RunsAreBooked
<1>1. Init => BookedInv
  BY DEF Init, BookedInv, BookedRow
<1>2. Spec => []BookedInv
  BY <1>1, BookedStep, ShapeAlways, PTL DEF Spec
<1>3. BookedInv => RunsAreBooked
  BY DEF BookedInv, BookedRow, RunsAreBooked
<1> QED
  BY <1>2, <1>3, PTL
-----------------------------------------------------------------------------
(* What a run that no other overlaps leaves behind.                          *)

\* Outside a pair of writes a run has no id in hand, and none to be mixed.
OpenPair(r) ==
  pc[r] \notin {"upsert", "version", "archive"} => cur[r] = NoExt /\ r \notin mixed

\* A run alone is the only one, and nobody has written into its pair.
Solo(r) ==
  r \in alone /\ pc[r] # "idle" =>
    r \notin mixed /\ \A q \in Run \ {r} : pc[q] = "idle"

\* The stored version of x is the record the run fetched.
Current(r, x) == <<x, snap[r][x]>> \in active /\ latest[x] = snap[r][x]

\* How far a run alone has come: the records it has handled are current, and once
\* all are, an active version of a record it has not seen is still to be removed.
Progress(r) ==
  r \in alone =>
    /\ pc[r] \in {"records", "upsert", "version"} =>
         \A x \in SeenIds(r) : x \in todo[r] \/ x = cur[r] \/ Current(r, x)
    /\ pc[r] \in {"remove", "archive"} =>
         /\ \A x \in SeenIds(r) : x \notin todo[r] /\ Current(r, x)
         /\ ActiveIds \ SeenIds(r) \subseteq todo[r]

SoloInv == \A r \in Run : OpenPair(r) /\ Solo(r) /\ Progress(r)

\* A step of run r is felt by another run only in its mark.
Apart(r, q) ==
  /\ pc'[q] = pc[q] /\ cur'[q] = cur[q] /\ snap'[q] = snap[q] /\ todo'[q] = todo[q]
  /\ cur[q] = NoExt => (q \in mixed' <=> q \in mixed)

LEMMA OthersApart ==
  ASSUME TypeOK, ShapeInv, NEW r \in Run, Start(r) \/ RunStep(r) \/ CallFails(r) \/ Lost(r),
         NEW q \in Run \ {r}
  PROVE  Apart(r, q)
<1> USE SentinelsApart DEF TypeOK, worldVars, storeVars, runVars, history, Apart
<1>1. CASE Start(r)
  BY <1>1 DEF Start, Goto
<1>2. CASE Fetch(r) \/ ListRemoved(r) \/ BookSuccess(r) \/ BookFailure(r)
  BY <1>2 DEF Fetch, ListRemoved, BookSuccess, BookFailure, Goto
<1>3. CASE Examine(r)
  BY <1>3 DEF Examine, Goto
<1>4. CASE UpsertKnowledge(r) \/ SaveVersion(r) \/ Archive(r)
  <2>1. cur[r] \in Ext
    BY <1>4 DEF UpsertKnowledge, SaveVersion, Archive, ShapeInv, Shape
  <2> QED
    BY <1>4, <2>1 DEF UpsertKnowledge, SaveVersion, Archive, WriteInto, CloseWrite, Goto
<1>5. CASE Deactivate(r)
  BY <1>5 DEF Deactivate, WriteInto, Goto
<1>6. CASE HealthOk(r) \/ HealthError(r)
  BY <1>6 DEF HealthOk, HealthError, Leave, Goto
<1>7. CASE CallFails(r)
  BY <1>7 DEF CallFails, Interrupted, Goto
<1>8. CASE Lost(r)
  BY <1>8 DEF Lost, Interrupted, Leave, Goto
<1> QED
  BY <1>1, <1>2, <1>3, <1>4, <1>5, <1>6, <1>7, <1>8 DEF RunStep

\* The pair of the run that moves.
LEMMA OwnPair ==
  ASSUME TypeOK, NEW r \in Run, OpenPair(r),
         Start(r) \/ RunStep(r) \/ CallFails(r) \/ Lost(r)
  PROVE  OpenPair(r)' /\ (r \in mixed' => r \in mixed)
<1> USE DEF TypeOK, worldVars, storeVars, runVars, history, OpenPair
<1>1. CASE Start(r)
  BY <1>1 DEF Start, Goto
<1>2. CASE Fetch(r) \/ ListRemoved(r) \/ BookSuccess(r) \/ BookFailure(r)
  BY <1>2 DEF Fetch, ListRemoved, BookSuccess, BookFailure, Goto
<1>3. CASE Examine(r)
  BY <1>3 DEF Examine, Goto
<1>4. CASE UpsertKnowledge(r) \/ SaveVersion(r) \/ Archive(r)
  BY <1>4 DEF UpsertKnowledge, SaveVersion, Archive, WriteInto, CloseWrite, Goto
<1>5. CASE Deactivate(r)
  BY <1>5 DEF Deactivate, WriteInto, Goto
<1>6. CASE HealthOk(r) \/ HealthError(r)
  BY <1>6 DEF HealthOk, HealthError, Leave, Goto
<1>7. CASE CallFails(r)
  BY <1>7 DEF CallFails, Interrupted, Goto
<1>8. CASE Lost(r)
  BY <1>8 DEF Lost, Interrupted, Leave, Goto
<1> QED
  BY <1>1, <1>2, <1>3, <1>4, <1>5, <1>6, <1>7, <1>8 DEF RunStep

\* A start ends the solitude of every run in flight.
LEMMA StartSolo ==
  ASSUME TypeOK, ShapeInv, SoloInv, NEW r \in Run, Start(r), NEW q \in Run
  PROVE  Solo(q)' /\ Progress(q)'
<1>1. CASE ~enabled
  <2>1. UNCHANGED <<pc, alone, snap, todo, cur, mixed, storeVars>>
    BY <1>1 DEF Start
  <2>2. Solo(q) /\ Progress(q)
    BY DEF SoloInv
  <2> QED
    BY <2>1, <2>2 DEF Solo, Progress, SeenIds, ActiveIds, Current, storeVars
<1>2. CASE enabled
  <2>1. /\ pc[r] = "idle" /\ pc'[r] = "fetch" /\ mixed' = mixed
        /\ \A p \in Run \ {r} : pc'[p] = pc[p]
        /\ r \in alone' => InFlight = {}
        /\ \A p \in Run \ {r} : p \in alone' => p \in alone /\ p \notin InFlight
    BY <1>2 DEF Start, Goto, InFlight, TypeOK
  <2>2. CASE q = r
    <3>1. r \notin mixed
      BY <2>1 DEF SoloInv, OpenPair
    <3>2. r \in alone' => \A p \in Run \ {r} : pc[p] = "idle"
      BY <2>1 DEF InFlight
    <3> QED
      BY <2>1, <2>2, <3>1, <3>2 DEF Solo, Progress
  <2>3. CASE q # r
    <3>1. q \in alone' => pc'[q] = "idle"
      BY <2>1, <2>3 DEF InFlight
    <3> QED
      BY <3>1 DEF Solo, Progress
  <2> QED
    BY <2>2, <2>3
<1> QED
  BY <1>1, <1>2

\* A run alone goes on: it examines, writes and removes what its snapshot asks.
LEMMA ProgressStep ==
  ASSUME TypeOK, ShapeInv, NEW r \in Run, RunStep(r) \/ CallFails(r) \/ Lost(r),
         r \in alone, r \notin mixed, OpenPair(r), Progress(r)
  PROVE  Progress(r)'
<1> USE SentinelsApart DEF TypeOK, worldVars, storeVars, history
<1>0. Shape(r)
  BY DEF ShapeInv
<1>1. CASE Fetch(r)
  BY <1>1 DEF Fetch, Goto, Progress, SeenIds
<1>2. CASE Examine(r)
  <2>1. PICK x \in todo[r] :
          /\ todo' = [todo EXCEPT ![r] = @ \ {x}]
          /\ IF Unchanged(r, x)
             THEN UNCHANGED <<pc, cur>>
             ELSE Goto(r, "upsert") /\ cur' = [cur EXCEPT ![r] = x]
    BY <1>2 DEF Examine
  <2>2. /\ pc[r] = "records" /\ UNCHANGED <<snap, active, latest>>
        /\ todo'[r] = todo[r] \ {x} /\ cur[r] = NoExt
    BY <1>2, <2>1 DEF Examine, OpenPair
  <2>3. pc'[r] \in {"records", "upsert"}
    BY <2>1, <2>2 DEF Goto
  <2>4. \A y \in SeenIds(r) : y \in todo'[r] \/ y = cur'[r] \/ Current(r, y)
    <3> SUFFICES ASSUME NEW y \in SeenIds(r) PROVE y \in todo'[r] \/ y = cur'[r] \/ Current(r, y)
      OBVIOUS
    <3>1. y \in todo[r] \/ Current(r, y)
      BY <2>2 DEF Progress, SeenIds
    <3>2. y = x => Current(r, y) \/ cur'[r] = x
      BY <2>1, <2>2 DEF Unchanged, Current
    <3> QED
      BY <2>2, <3>1, <3>2
  <2> QED
    BY <2>2, <2>3, <2>4 DEF Progress, SeenIds, Current
<1>3. CASE UpsertKnowledge(r)
  BY <1>3 DEF UpsertKnowledge, Goto, Progress, SeenIds, Current
<1>4. CASE SaveVersion(r)
  <2>1. PICK x \in Ext : x = cur[r]
    BY <1>0, <1>4 DEF SaveVersion, Shape
  <2>2. /\ active' = active \cup {<<x, snap[r][x]>>}
        /\ latest' = [latest EXCEPT ![x] = snap[r][x]]
        /\ UNCHANGED <<snap, todo>> /\ pc[r] = "version" /\ pc'[r] = "records"
    BY <1>4, <2>1 DEF SaveVersion, Goto
  <2>3. latest'[x] = snap[r][x] /\ \A y \in Ext \ {x} : latest'[y] = latest[y]
    BY <2>2 DEF Snapshot
  <2>4. \A y \in SeenIds(r) : y \in todo[r] \/ y = x \/ Current(r, y)
    BY <2>1, <2>2 DEF Progress
  <2>5. \A y \in SeenIds(r) : y \in todo'[r] \/ Current(r, y)'
    BY <2>2, <2>3, <2>4 DEF Current, SeenIds
  <2> QED
    BY <2>2, <2>5 DEF Progress, SeenIds
<1>5. CASE ListRemoved(r)
  <2>1. /\ pc[r] = "records" /\ todo[r] = {} /\ pc'[r] = "remove"
        /\ todo'[r] = ActiveIds \ SeenIds(r)
        /\ UNCHANGED <<snap, active, latest>>
    BY <1>5 DEF ListRemoved, Goto
  <2>2. cur[r] \notin Ext
    BY <2>1 DEF OpenPair
  <2>3. \A x \in SeenIds(r) : Current(r, x)
    BY <2>1, <2>2 DEF Progress, SeenIds
  <2> QED
    BY <2>1, <2>3 DEF Progress, SeenIds, Current, ActiveIds
<1>6. CASE Deactivate(r)
  <2>1. PICK x \in todo[r] : /\ active' = active \ ({x} \X Content)
                             /\ todo' = [todo EXCEPT ![r] = @ \ {x}]
    BY <1>6 DEF Deactivate
  <2>2. /\ pc[r] = "remove" /\ pc'[r] = "archive" /\ todo'[r] = todo[r] \ {x}
        /\ UNCHANGED <<snap, latest>>
    BY <1>6, <2>1 DEF Deactivate, Goto
  <2>3. /\ \A y \in SeenIds(r) : y \notin todo[r] /\ Current(r, y)
        /\ ActiveIds \ SeenIds(r) \subseteq todo[r]
    BY <2>2 DEF Progress
  <2>4. \A y \in SeenIds(r) : y \notin todo'[r] /\ Current(r, y)'
    BY <2>1, <2>2, <2>3 DEF Current, SeenIds
  <2>5. ActiveIds' \subseteq ActiveIds \ {x}
    BY <2>1 DEF ActiveIds
  <2> QED
    BY <2>2, <2>3, <2>4, <2>5 DEF Progress, SeenIds
<1>7. CASE Archive(r)
  BY <1>7 DEF Archive, Goto, Progress, SeenIds, Current, ActiveIds
<1>8. CASE BookSuccess(r) \/ HealthOk(r) \/ BookFailure(r) \/ HealthError(r)
  BY <1>8 DEF BookSuccess, HealthOk, BookFailure, HealthError, Leave, Goto, Progress
<1>9. CASE CallFails(r) \/ Lost(r)
  BY <1>9 DEF CallFails, Lost, Leave, Goto, Progress
<1> QED
  BY <1>1, <1>2, <1>3, <1>4, <1>5, <1>6, <1>7, <1>8, <1>9 DEF RunStep

LEMMA SoloStep == TypeOK /\ ShapeInv /\ SoloInv /\ [Next]_vars => SoloInv'
<1> SUFFICES ASSUME TypeOK, ShapeInv, SoloInv, [Next]_vars PROVE SoloInv'
  OBVIOUS
<1> USE DEF worldVars, storeVars, runVars, history
<1>1. ASSUME UNCHANGED <<pc, cur, snap, todo, mixed, alone, active, latest>> PROVE SoloInv'
  BY <1>1 DEF SoloInv, OpenPair, Solo, Progress, SeenIds, Current, ActiveIds
<1>2. ASSUME NEW x \in Ext, NEW c \in Content \cup {Absent}, SourceChanges(x, c)
      PROVE  SoloInv'
  BY <1>1, <1>2 DEF SourceChanges
<1>3. CASE ToggleEnabled \/ UNCHANGED vars
  BY <1>1, <1>3 DEF ToggleEnabled, vars
<1>4. ASSUME NEW r \in Run, Start(r) \/ RunStep(r) \/ CallFails(r) \/ Lost(r)
      PROVE  \A q \in Run : OpenPair(q)'
  <2>1. OpenPair(r)'
    BY <1>4, OwnPair DEF SoloInv
  <2>2. ASSUME NEW q \in Run \ {r} PROVE OpenPair(q)'
    <3>1. Apart(r, q) /\ OpenPair(q)
      BY <1>4, OthersApart DEF SoloInv
    <3> QED
      BY <3>1 DEF Apart, OpenPair
  <2> QED
    BY <2>1, <2>2
<1>5. ASSUME NEW r \in Run, RunStep(r) \/ CallFails(r) \/ Lost(r), NEW q \in Run
      PROVE  Solo(q)' /\ Progress(q)'
  <2>1. pc[r] # "idle" /\ UNCHANGED alone
    BY <1>5 DEF RunStep, Fetch, Examine, UpsertKnowledge, SaveVersion, ListRemoved,
       Deactivate, Archive, BookSuccess, HealthOk, BookFailure, HealthError, CallFails, Lost
  <2>2. \A p \in Run \ {r} : Apart(r, p)
    BY <1>5, OthersApart
  <2>3. OpenPair(r) /\ Solo(q) /\ Solo(r) /\ Progress(r)
    BY DEF SoloInv
  <2>4. r \in mixed' => r \in mixed
    BY <1>5, <2>3, OwnPair
  <2>5. CASE q \notin alone
    BY <2>1, <2>5 DEF Solo, Progress
  <2>6. CASE q \in alone /\ q = r
    <3>1. r \notin mixed /\ \A p \in Run \ {r} : pc'[p] = "idle"
      BY <2>1, <2>2, <2>3, <2>6 DEF Solo, Apart
    <3>2. Progress(r)'
      BY <1>5, <2>3, <2>6, <3>1, ProgressStep
    <3> QED
      BY <2>4, <2>6, <3>1, <3>2 DEF Solo
  <2>7. CASE q \in alone /\ q # r
    <3>1. pc'[q] = "idle"
      BY <2>1, <2>2, <2>3, <2>7 DEF Solo, Apart
    <3> QED
      BY <3>1 DEF Solo, Progress
  <2> QED
    BY <2>5, <2>6, <2>7
<1>6. ASSUME NEW r \in Run, Start(r) \/ RunStep(r) \/ CallFails(r) \/ Lost(r) PROVE SoloInv'
  BY <1>4, <1>5, <1>6, StartSolo DEF SoloInv
<1> QED
  BY <1>2, <1>3, <1>6 DEF Next

\* A run that books success with no other having overlapped it leaves every id
\* whose writes were never split as its snapshot says.
THEOREM SuccessMirrors == Spec => SuccessMirrorsSnapshot
<1>1. Init => SoloInv
  BY DEF Init, SoloInv, OpenPair, Solo, Progress
<1>2. Spec => []SoloInv
  BY <1>1, SoloStep, ShapeAlways, PTL DEF Spec
<1>3. ASSUME IInv, SoloInv, [Next]_vars, NEW r \in Run, row[r] = "running",
             row'[r] = "succeeded", r \in alone, NEW x \in Ext \ torn
      PROVE  Mirrors(x, snap[r][x])
  <2>1. pc[r] = "remove" /\ todo[r] = {}
    <3>1. ~ UNCHANGED row
      BY <1>3
    <3>2. \E q \in Run : Start(q) \/ BookSuccess(q) \/ BookFailure(q)
      BY <1>3, <3>1 DEF Next, RunStep, vars, SourceChanges, ToggleEnabled, Fetch, Examine,
         UpsertKnowledge, SaveVersion, ListRemoved, Deactivate, Archive, HealthOk,
         HealthError, CallFails, Lost
    <3>3. \A q \in Run : Start(q) \/ BookFailure(q) => row'[r] # "succeeded" \/ row'[r] = row[r]
      BY <1>3 DEF Start, BookFailure, IInv, TypeOK
    <3>4. PICK q \in Run : BookSuccess(q)
      BY <1>3, <3>2, <3>3
    <3>5. q = r
      BY <1>3, <3>4 DEF BookSuccess, IInv, TypeOK
    <3> QED
      BY <3>4, <3>5 DEF BookSuccess
  <2>2. Solo(r) /\ Progress(r)
    BY <1>3 DEF SoloInv
  <2>3. \A q \in Run : cur[q] = x => ~HalfWritten(q)
    BY <1>3, <2>1, <2>2 DEF Solo, HalfWritten
  <2>4. Agree(x)
    BY <1>3, <2>3 DEF IInv, StoresAgree
  <2>5. CASE x \in SeenIds(r)
    <3>1. Current(r, x) /\ snap[r][x] \in Content
      BY <1>3, <2>1, <2>2, <2>5 DEF Progress, SeenIds, IInv, TypeOK, Snapshot
    <3>2. x \in ActiveIds
      BY <3>1 DEF Current, ActiveIds
    <3> QED
      BY <2>4, <3>1, <3>2 DEF Agree, Current
  <2>6. CASE x \notin SeenIds(r)
    <3>1. snap[r][x] = Absent /\ x \notin ActiveIds
      BY <1>3, <2>1, <2>2, <2>6 DEF Progress, SeenIds
    <3> QED
      BY <2>4, <3>1 DEF Agree
  <2> QED
    BY <2>5, <2>6
<1>4. IInv /\ SoloInv /\ [Next]_vars =>
        \A r \in Run : row[r] = "running" /\ row'[r] = "succeeded" /\ r \in alone
          => \A x \in Ext \ torn : Mirrors(x, snap[r][x])
  BY <1>3
<1> QED
  BY <1>2, <1>4, IInvAlways, PTL DEF Spec, SuccessMirrorsSnapshot
=============================================================================
