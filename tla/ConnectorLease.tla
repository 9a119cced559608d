---------------------------- MODULE ConnectorLease ----------------------------
(***************************************************************************)
(* packages/knowledge/src/index.ts, DistributedConnectorScheduler over     *)
(* PostgresConnectorLeaseRepository: which instance of the API may         *)
(* synchronise a connector.                                                *)
(*                                                                         *)
(* A schedule tick acquires the connector's lease, synchronises with a     *)
(* heartbeat timer running, and gives the lease back.  The database knows  *)
(* leases by owner id, not by run: nothing tells two ticks of one owner    *)
(* id apart, be they of one process or of two with the same setting.       *)
(***************************************************************************)
EXTENDS Integers

CONSTANTS Instance,    \* processes with a scheduler
          OwnerId,     \* their owner ids
          Run,         \* ticks that may be in flight
          InstanceOf,  \* the process of a tick
          OwnerOf,     \* the owner id of a process
          Duration,    \* leaseDurationMs, in ticks of the clock
          MinBeat,     \* the 5 s floor under the heartbeat interval
          MaxFaults,   \* bound: stalls, failed calls and crashes
          NoOwner

ASSUME InstanceOfType == InstanceOf \in [Run -> Instance]
ASSUME OwnerOfType == OwnerOf \in [Instance -> OwnerId] /\ NoOwner \notin OwnerId
ASSUME NumbersType == Duration \in Nat \ {0} /\ MinBeat \in Nat \ {0} /\ MaxFaults \in Nat

VARIABLES
  owner,     \* owner_id of the lease row, NoOwner when there is no row
  left,      \* expires_at minus the present, 0 when expired
  up,        \* processes that run
  pc,        \* where a tick is
  beat,      \* time since its heartbeat timer fired
  faults,    \* faults so far
  lapsed,    \* history: runs under which the lease expired
  doubled    \* history: runs in flight together with one of the same owner id

vars == <<owner, left, up, pc, beat, faults, lapsed, doubled>>

TypeOK ==
  /\ owner \in OwnerId \cup {NoOwner}
  /\ left \in 0..Duration
  /\ up \in SUBSET Instance
  /\ pc \in [Run -> {"idle", "working", "release"}]
  /\ beat \in [Run -> Nat]
  /\ faults \in Nat
  /\ lapsed \in SUBSET Run
  /\ doubled \in SUBSET Run

Init ==
  /\ owner = NoOwner /\ left = 0
  /\ up = Instance
  /\ pc = [r \in Run |-> "idle"]
  /\ beat = [r \in Run |-> 0]
  /\ faults = 0
  /\ lapsed = {} /\ doubled = {}

-----------------------------------------------------------------------------
OwnerOfRun(r) == OwnerOf[InstanceOf[r]]
Working       == {r \in Run : pc[r] = "working"}
SameOwner(r)  == {q \in Run : q # r /\ pc[q] # "idle" /\ OwnerOfRun(q) = OwnerOfRun(r)}

\* Math.max(5_000, Math.floor(leaseDurationMs / 3))
SlowBeat       == Duration                                  \* mutant of HeartbeatEvery
HeartbeatEvery == IF Duration \div 3 > MinBeat THEN Duration \div 3 ELSE MinBeat

\* Which rows the upsert of acquire may overwrite.
OwnLease(r)    == owner \in {NoOwner, OwnerOfRun(r)}        \* mutant of MayAcquire
MayAcquire(r)  == owner = NoOwner \/ left = 0 \/ owner = OwnerOfRun(r)

Acquire(r) ==
  /\ InstanceOf[r] \in up
  /\ pc[r] = "idle"
  /\ MayAcquire(r)
  /\ owner' = OwnerOfRun(r)
  /\ left' = Duration
  /\ pc' = [pc EXCEPT ![r] = "working"]
  /\ beat' = [beat EXCEPT ![r] = 0]
  /\ lapsed' = lapsed \ {r}
  /\ doubled' = IF SameOwner(r) = {} THEN doubled \ {r}
                ELSE doubled \cup {r} \cup SameOwner(r)
  /\ UNCHANGED <<up, faults>>

\* renew matches the owner id only: an expired row is prolonged too.
Heartbeat(r) ==
  /\ pc[r] = "working"
  /\ beat[r] >= HeartbeatEvery
  /\ beat' = [beat EXCEPT ![r] = 0]
  /\ left' = IF owner = OwnerOfRun(r) THEN Duration ELSE left
  /\ UNCHANGED <<owner, up, pc, faults, lapsed, doubled>>

\* synchronize returns or throws; the heartbeat timer is cleared.
Finish(r) ==
  /\ pc[r] = "working"
  /\ pc' = [pc EXCEPT ![r] = "release"]
  /\ UNCHANGED <<owner, left, up, beat, faults, lapsed, doubled>>

Idle(r) ==
  /\ pc' = [pc EXCEPT ![r] = "idle"]
  /\ beat' = [beat EXCEPT ![r] = 0]
  /\ lapsed' = lapsed \ {r}
  /\ doubled' = doubled \ {r}

DeleteAny(r) ==                                             \* mutant of Release
  /\ pc[r] = "release"
  /\ owner' = NoOwner /\ left' = 0
  /\ Idle(r)
  /\ UNCHANGED <<up, faults>>

\* DELETE ... WHERE owner_id = the run's owner id.
Release(r) ==
  /\ pc[r] = "release"
  /\ IF owner = OwnerOfRun(r)
     THEN owner' = NoOwner /\ left' = 0
     ELSE UNCHANGED <<owner, left>>
  /\ Idle(r)
  /\ UNCHANGED <<up, faults>>

ReleaseFails(r) ==
  /\ pc[r] = "release"
  /\ faults < MaxFaults
  /\ faults' = faults + 1
  /\ Idle(r)
  /\ UNCHANGED <<owner, left, up>>

-----------------------------------------------------------------------------
\* One tick of the clock.  The lease running out is noted against the runs that
\* still count on it.
Pass ==
  /\ left' = IF left = 0 THEN 0 ELSE left - 1
  /\ lapsed' = IF left = 1 THEN lapsed \cup {r \in Working : OwnerOfRun(r) = owner} ELSE lapsed
  /\ UNCHANGED <<owner, up, pc, doubled>>

\* Timers fire when they are due: time does not pass a heartbeat.
Tick ==
  /\ \A r \in Working : beat[r] < HeartbeatEvery
  /\ beat' = [r \in Run |-> IF pc[r] = "working" THEN beat[r] + 1 ELSE beat[r]]
  /\ Pass
  /\ UNCHANGED faults

\* ... but for a stalled event loop or a slow database.
LateTick ==
  /\ \E r \in Working : beat[r] >= HeartbeatEvery
  /\ faults < MaxFaults
  /\ faults' = faults + 1
  /\ Pass
  /\ UNCHANGED beat

Crash(i) ==
  /\ i \in up
  /\ faults < MaxFaults
  /\ faults' = faults + 1
  /\ up' = up \ {i}
  /\ LET mine == {r \in Run : InstanceOf[r] = i} IN
       /\ pc' = [r \in Run |-> IF r \in mine THEN "idle" ELSE pc[r]]
       /\ beat' = [r \in Run |-> IF r \in mine THEN 0 ELSE beat[r]]
       /\ lapsed' = lapsed \ mine
       /\ doubled' = doubled \ mine
  /\ UNCHANGED <<owner, left>>

Restart(i) ==
  /\ i \notin up
  /\ up' = up \cup {i}
  /\ UNCHANGED <<owner, left, pc, beat, faults, lapsed, doubled>>

-----------------------------------------------------------------------------
Next ==
  \/ \E r \in Run : Acquire(r) \/ Heartbeat(r) \/ Finish(r) \/ Release(r) \/ ReleaseFails(r)
  \/ Tick \/ LateTick
  \/ \E i \in Instance : Crash(i) \/ Restart(i)

Spec == Init /\ [][Next]_vars

\* Schedule ticks recur, timers fire, runs end and time passes; a process that
\* died need never come back.
Fairness ==
  /\ \A r \in Run : /\ WF_vars(Acquire(r))
                    /\ WF_vars(Heartbeat(r))
                    /\ WF_vars(Finish(r))
                    /\ WF_vars(Release(r))
  /\ WF_vars(Tick)

FairSpec == Spec /\ Fairness

-----------------------------------------------------------------------------
(* Properties.                                                             *)

\* A run works alone unless the lease expired under one of the two, or the two
\* carry the same owner id.  In every other interleaving of acquire, heartbeat,
\* release and crash the lease excludes.
OneUnlessExcused ==
  \A r, q \in Working :
    r # q => {r, q} \cap (lapsed \cup doubled) # {}

\* The lease expires under a working run only when its heartbeat came late.
LapseNeedsFault ==
  (\E r \in Working : r \in lapsed \ doubled) => faults > 0

\* A crash is recovered from once the lease expires: while some process runs,
\* the connector is synchronised again and again.
WorkGoesOn == []<>(up = {} \/ Working # {})

\* "Only the lease holder synchronises."
OnlyHolderSynchronizes ==
  \A r \in Working : r \notin lapsed => owner = OwnerOfRun(r)
=============================================================================
