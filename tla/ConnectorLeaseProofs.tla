------------------------ MODULE ConnectorLeaseProofs ------------------------
(***************************************************************************)
(* Proofs about ConnectorLease: for every set of instances, ticks and      *)
(* owner ids and every lease duration, the lease excludes, but for the two *)
(* cases the code leaves open.                                             *)
(***************************************************************************)
EXTENDS ConnectorLease, TLAPS

LEMMA OwnerOfRunType ==
  ASSUME NEW r \in Run
  PROVE  OwnerOfRun(r) \in OwnerId
BY InstanceOfType, OwnerOfType DEF OwnerOfRun

LEMMA HeartbeatType == HeartbeatEvery \in Nat
BY NumbersType DEF HeartbeatEvery

\* Every step keeps the types.
LEMMA TypeStep == TypeOK /\ [Next]_vars => TypeOK'
<1> SUFFICES ASSUME TypeOK, [Next]_vars PROVE TypeOK'
  OBVIOUS
<1> USE DEF TypeOK
<1>1. ASSUME NEW r \in Run, Acquire(r) PROVE TypeOK'
  BY <1>1, OwnerOfRunType, NumbersType DEF Acquire, SameOwner
<1>2. ASSUME NEW r \in Run, Heartbeat(r) PROVE TypeOK'
  BY <1>2, NumbersType DEF Heartbeat
<1>3. ASSUME NEW r \in Run, Finish(r) PROVE TypeOK'
  BY <1>3 DEF Finish
<1>4. ASSUME NEW r \in Run, Release(r) PROVE TypeOK'
  BY <1>4, NumbersType DEF Release, Idle
<1>5. ASSUME NEW r \in Run, ReleaseFails(r) PROVE TypeOK'
  BY <1>5 DEF ReleaseFails, Idle
<1>6. ASSUME Pass PROVE left' \in 0..Duration /\ lapsed' \in SUBSET Run
  BY <1>6, NumbersType DEF Pass, Working
<1>7. CASE Tick
  BY <1>6, <1>7 DEF Tick, Pass
<1>8. CASE LateTick
  BY <1>6, <1>8 DEF LateTick, Pass
<1>9. ASSUME NEW i \in Instance, Crash(i) PROVE TypeOK'
  BY <1>9 DEF Crash
<1>10. ASSUME NEW i \in Instance, Restart(i) PROVE TypeOK'
  BY <1>10 DEF Restart
<1>11. CASE UNCHANGED vars
  BY <1>11 DEF vars
<1> QED
  BY <1>1, <1>2, <1>3, <1>4, <1>5, <1>7, <1>8, <1>9, <1>10, <1>11 DEF Next

\* Type correctness.
THEOREM TypeCorrect == Spec => []TypeOK
<1>1. Init => TypeOK
  BY NumbersType DEF Init, TypeOK
<1> QED
  BY <1>1, TypeStep, PTL DEF Spec

-----------------------------------------------------------------------------
\* A run that is not excused holds the lease, unexpired, and is the only one of
\* its owner id.
Holds(r) ==
  /\ owner = OwnerOfRun(r)
  /\ left > 0
  /\ \A q \in Run \ {r} : pc[q] # "idle" => OwnerOfRun(q) # OwnerOfRun(r)

HolderInv ==
  \A r \in Run : pc[r] = "working" /\ r \notin lapsed \cup doubled => Holds(r)

LEMMA HolderExcludes == TypeOK /\ HolderInv => OneUnlessExcused
BY DEF TypeOK, HolderInv, Holds, OneUnlessExcused, Working

\* A run that acquires: either it is alone with its owner id, or it is doubled.
\* Whoever else worked unexcused would hold the lease and bar it.
LEMMA AcquireStep ==
  ASSUME TypeOK, HolderInv, NEW r \in Run, Acquire(r)
  PROVE  HolderInv'
<1> SUFFICES ASSUME NEW q \in Run, pc'[q] = "working", q \notin lapsed' \cup doubled'
             PROVE  Holds(q)'
  BY DEF HolderInv
<1> USE DEF TypeOK
<1>1. CASE q = r
  <2>1. SameOwner(r) = {}
    BY <1>1 DEF Acquire
  <2> QED
    BY <1>1, <2>1, NumbersType DEF Acquire, Holds, SameOwner, OwnerOfRun
<1>2. CASE q # r
  <2>1. pc[q] = "working" /\ q \notin lapsed
    BY <1>2 DEF Acquire
  <2>2. q \notin SameOwner(r)
    BY <1>2 DEF Acquire
  <2>3. OwnerOfRun(q) # OwnerOfRun(r)
    BY <1>2, <2>1, <2>2 DEF SameOwner
  <2>4. q \notin doubled
    BY <1>2 DEF Acquire
  <2>5. owner = OwnerOfRun(q) /\ left > 0
    BY <2>1, <2>4 DEF HolderInv, Holds
  <2> QED
    BY <2>3, <2>5, OwnerOfRunType, OwnerOfType DEF Acquire, MayAcquire
<1> QED
  BY <1>1, <1>2

\* A run that leaves: it may delete the lease of its own owner id only, and no
\* unexcused run shares that id.
LEMMA LeaveStep ==
  ASSUME TypeOK, HolderInv, NEW r \in Run, Release(r) \/ ReleaseFails(r)
  PROVE  HolderInv'
<1> SUFFICES ASSUME NEW q \in Run, pc'[q] = "working", q \notin lapsed' \cup doubled'
             PROVE  Holds(q)'
  BY DEF HolderInv
<1> USE DEF TypeOK
<1>1. q # r /\ pc[q] = "working" /\ q \notin lapsed \cup doubled
  BY DEF Release, ReleaseFails, Idle
<1>2. Holds(q)
  BY <1>1 DEF HolderInv
<1>3. OwnerOfRun(r) # OwnerOfRun(q)
  BY <1>1, <1>2 DEF Holds, Release, ReleaseFails
<1> QED
  BY <1>1, <1>2, <1>3 DEF Holds, Release, ReleaseFails, Idle, OwnerOfRun

LEMMA PassStep ==
  ASSUME TypeOK, HolderInv, Pass
  PROVE  HolderInv'
<1> SUFFICES ASSUME NEW q \in Run, pc'[q] = "working", q \notin lapsed' \cup doubled'
             PROVE  Holds(q)'
  BY DEF HolderInv
<1> USE DEF TypeOK
<1>1. pc[q] = "working" /\ q \notin lapsed \cup doubled
  BY DEF Pass
<1>2. Holds(q)
  BY <1>1 DEF HolderInv
<1>3. left # 1
  BY <1>1, <1>2 DEF Pass, Holds, Working
<1>4. left' > 0
  BY <1>2, <1>3, NumbersType DEF Pass, Holds
<1> QED
  BY <1>2, <1>4 DEF Holds, Pass, OwnerOfRun

LEMMA CrashStep ==
  ASSUME TypeOK, HolderInv, NEW i \in Instance, Crash(i)
  PROVE  HolderInv'
<1> SUFFICES ASSUME NEW q \in Run, pc'[q] = "working", q \notin lapsed' \cup doubled'
             PROVE  Holds(q)'
  BY DEF HolderInv
<1> USE DEF TypeOK
<1>1. pc[q] = "working" /\ q \notin lapsed \cup doubled
  BY DEF Crash
<1>2. Holds(q)
  BY <1>1 DEF HolderInv
<1>3. \A p \in Run : pc'[p] # "idle" => pc[p] # "idle"
  BY DEF Crash
<1> QED
  BY <1>2, <1>3 DEF Holds, Crash, OwnerOfRun

LEMMA HolderStep == TypeOK /\ HolderInv /\ [Next]_vars => HolderInv'
<1> SUFFICES ASSUME TypeOK, HolderInv, [Next]_vars PROVE HolderInv'
  OBVIOUS
<1>1. ASSUME NEW r \in Run, Heartbeat(r) PROVE HolderInv'
  BY <1>1, NumbersType DEF TypeOK, Heartbeat, HolderInv, Holds, OwnerOfRun
<1>2. ASSUME NEW r \in Run, Finish(r) PROVE HolderInv'
  BY <1>2 DEF TypeOK, Finish, HolderInv, Holds, OwnerOfRun
<1>3. ASSUME NEW i \in Instance, Restart(i) PROVE HolderInv'
  BY <1>3 DEF Restart, HolderInv, Holds, OwnerOfRun
<1>4. CASE UNCHANGED vars
  BY <1>4 DEF vars, HolderInv, Holds, OwnerOfRun
<1> QED
  BY <1>1, <1>2, <1>3, <1>4, AcquireStep, LeaveStep, PassStep, CrashStep
     DEF Next, Tick, LateTick

LEMMA HolderAlways == Spec => []HolderInv
<1>1. Init => HolderInv
  BY DEF Init, HolderInv
<1> QED
  BY <1>1, HolderStep, TypeCorrect, PTL DEF Spec

\* The lease excludes: two runs work at once only if the lease expired under one
\* of them or they share an owner id.
THEOREM Exclusion == Spec => []OneUnlessExcused
BY HolderAlways, TypeCorrect, HolderExcludes, PTL

-----------------------------------------------------------------------------
(* Heartbeats in time.                                                       *)

\* While nothing has gone wrong, a run that shares its owner id with none has a
\* lease as old as its last heartbeat, which is never overdue.
InTime(r) ==
  pc[r] = "working" /\ r \notin doubled =>
    /\ r \notin lapsed
    /\ beat[r] <= HeartbeatEvery
    /\ left + beat[r] >= Duration

InTimeInv == faults = 0 => \A r \in Run : InTime(r)

\* The floor under the heartbeat interval is all that can make it too long.
LEMMA BeatsWithinLease ==
  ASSUME MinBeat < Duration
  PROVE  HeartbeatEvery \in Nat \ {0} /\ HeartbeatEvery < Duration
<1>1. Duration \div 3 \in Nat /\ Duration \div 3 < Duration
  BY NumbersType
<1> QED
  BY <1>1, NumbersType DEF HeartbeatEvery

\* Another run that takes, prolongs or gives back a lease does so to its own owner
\* id: the lease an unexcused run counts on is not touched.
LEMMA InTimeStep ==
  ASSUME MinBeat < Duration, TypeOK, HolderInv, InTimeInv, [Next]_vars
  PROVE  InTimeInv'
<1> SUFFICES ASSUME faults' = 0, NEW q \in Run, pc'[q] = "working", q \notin doubled'
             PROVE  InTime(q)'
  BY DEF InTimeInv, InTime
<1> USE BeatsWithinLease, NumbersType DEF TypeOK
<1>0. HeartbeatEvery' = HeartbeatEvery
  BY DEF HeartbeatEvery
<1>1. ASSUME faults = 0, pc[q] = "working", q \notin doubled
      PROVE  /\ q \notin lapsed /\ beat[q] <= HeartbeatEvery /\ left + beat[q] >= Duration
             /\ Holds(q)
  <2>1. InTime(q)
    BY <1>1 DEF InTimeInv
  <2> QED
    BY <1>1, <2>1 DEF InTime, HolderInv
<1>2. ASSUME NEW r \in Run, Acquire(r) PROVE InTime(q)'
  <2>1. CASE q = r
    BY <1>0, <1>2, <2>1 DEF Acquire, InTime
  <2>2. CASE q # r
    <3>1. faults = 0 /\ pc[q] = "working" /\ q \notin SameOwner(r) /\ q \notin doubled
      BY <1>2, <2>2 DEF Acquire
    <3>2. OwnerOfRun(q) # OwnerOfRun(r)
      BY <2>2, <3>1 DEF SameOwner
    <3>3. Holds(q)
      BY <1>1, <3>1
    <3> QED
      BY <1>2, <3>2, <3>3, OwnerOfRunType, OwnerOfType DEF Acquire, MayAcquire, Holds
  <2> QED
    BY <2>1, <2>2
<1>3. ASSUME NEW r \in Run, Heartbeat(r) PROVE InTime(q)'
  <2>1. faults = 0 /\ pc[q] = "working" /\ q \notin doubled
    BY <1>3 DEF Heartbeat
  <2>2. CASE q = r
    BY <1>0, <1>1, <1>3, <2>1, <2>2 DEF Heartbeat, InTime, Holds
  <2>3. CASE q # r
    <3>1. owner # OwnerOfRun(r)
      BY <1>1, <1>3, <2>1, <2>3 DEF Heartbeat, Holds
    <3> QED
      BY <1>0, <1>1, <1>3, <2>1, <2>3, <3>1 DEF Heartbeat, InTime
  <2> QED
    BY <2>2, <2>3
<1>4. ASSUME NEW r \in Run, Finish(r) PROVE InTime(q)'
  BY <1>0, <1>1, <1>4 DEF Finish, InTime
<1>5. ASSUME NEW r \in Run, Release(r) \/ ReleaseFails(r) PROVE InTime(q)'
  <2>1. q # r /\ faults = 0 /\ pc[q] = "working" /\ q \notin doubled
    BY <1>5 DEF Release, ReleaseFails, Idle
  <2>2. owner # OwnerOfRun(r)
    BY <1>1, <1>5, <2>1 DEF Release, ReleaseFails, Holds
  <2> QED
    BY <1>0, <1>1, <1>5, <2>1, <2>2 DEF Release, ReleaseFails, Idle, InTime
<1>6. CASE Tick
  <2>1. faults = 0 /\ pc[q] = "working" /\ q \notin doubled
    BY <1>6 DEF Tick, Pass
  <2>2. beat[q] < HeartbeatEvery /\ beat'[q] = beat[q] + 1
    BY <1>6, <2>1 DEF Tick, Working
  <2>3. left + beat[q] >= Duration /\ q \notin lapsed
    BY <1>1, <2>1
  <2>4. left > 1
    BY <2>2, <2>3
  <2>5. left' = left - 1 /\ lapsed' = lapsed
    BY <1>6, <2>4 DEF Tick, Pass
  <2> QED
    BY <1>0, <2>2, <2>3, <2>5 DEF InTime
<1>7. CASE LateTick
  BY <1>7 DEF LateTick
<1>8. ASSUME NEW i \in Instance, Crash(i) PROVE InTime(q)'
  BY <1>8 DEF Crash
<1>9. ASSUME NEW i \in Instance, Restart(i) PROVE InTime(q)'
  BY <1>0, <1>1, <1>9 DEF Restart, InTime
<1>10. CASE UNCHANGED vars
  BY <1>0, <1>1, <1>10 DEF vars, InTime
<1> QED
  BY <1>2, <1>3, <1>4, <1>5, <1>6, <1>7, <1>8, <1>9, <1>10 DEF Next

\* With a lease longer than the floor under the heartbeat interval (the deployed
\* values are 300 s and 5 s), it runs out under a run that shares its owner id
\* with none only after a stall, a failed call or a crash.
THEOREM LapsesNeedFaults ==
  ASSUME MinBeat < Duration
  PROVE  Spec => []LapseNeedsFault
<1>1. Init => InTimeInv
  BY DEF Init, InTimeInv, InTime
<1>2. TypeOK /\ HolderInv /\ InTimeInv /\ [Next]_vars => InTimeInv'
  BY InTimeStep
<1>3. Spec => []InTimeInv
  BY <1>1, <1>2, TypeCorrect, HolderAlways, PTL DEF Spec
<1>4. TypeOK /\ InTimeInv => LapseNeedsFault
  BY DEF TypeOK, InTimeInv, InTime, LapseNeedsFault, Working
<1> QED
  BY <1>3, <1>4, TypeCorrect, PTL
=============================================================================
