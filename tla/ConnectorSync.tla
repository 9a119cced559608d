---------------------------- MODULE ConnectorSync ----------------------------
(***************************************************************************)
(* packages/knowledge/src/index.ts, KnowledgeConnectorService.synchronize  *)
(* over the Postgres repositories, for one connector in snapshot mode.     *)
(*                                                                         *)
(* A run fetches the whole source, brings every record it contains into    *)
(* the knowledge base and archives what the source no longer has.  Two     *)
(* stores are written one after the other without a transaction: the       *)
(* knowledge items that retrieval reads, and the source versions the next  *)
(* run compares with.  Runs of the scheduler and of the manual route may   *)
(* overlap: the lease (see ConnectorLease) is not taken by the latter.     *)
(***************************************************************************)
EXTENDS Integers

CONSTANTS Ext,         \* external ids of the source's records
          Content,     \* contents a record may have, told apart by their hash
          Run,         \* synchronisations that may be in flight
          MaxChanges,  \* bound: changes of the source or of the definition
          MaxFaults,   \* bound: failed calls and lost processes
          Absent,      \* no such record, no such version
          NoExt

ASSUME SentinelsApart == Absent \notin Content /\ NoExt \notin Ext
ASSUME BoundsNat == MaxChanges \in Nat /\ MaxFaults \in Nat

VARIABLES
  source,     \* what the external source delivers
  enabled,    \* knowledge_connectors.enabled
  changes,    \* changes made so far
  knowledge,  \* knowledge_items of this connector, by external id
  active,     \* knowledge_source_versions with active = true
  latest,     \* content of the version with the latest observed_at
  row,        \* status of the run's row in knowledge_connector_runs
  health,     \* last outcome in knowledge_connectors
  pc,         \* where a run is
  snap,       \* what the run fetched
  todo,       \* records, then removed ids, it has still to handle
  cur,        \* the id whose pair of writes it is making
  faults,     \* faults so far
  torn,       \* history: ids whose last pair of writes was split or mixed
  mixed,      \* history: runs whose current pair another run wrote into
  alone,      \* history: runs that no other run has overlapped
  orphaned    \* history: runs lost since their row was opened

storeVars == <<knowledge, active, latest>>
runVars   == <<pc, snap, todo, cur>>
worldVars == <<source, enabled, changes>>
history   == <<torn, mixed, alone, orphaned>>
vars == <<worldVars, storeVars, row, health, runVars, faults, history>>

RunStates == {"idle", "fetch", "records", "upsert", "version", "remove",
              "archive", "succeed", "health", "fail", "failHealth"}
Item      == [status : {"none", "approved", "archived"}, content : Content \cup {Absent}]
Snapshot  == [Ext -> Content \cup {Absent}]

TypeOK ==
  /\ source \in Snapshot
  /\ enabled \in BOOLEAN
  /\ changes \in Nat
  /\ knowledge \in [Ext -> Item]
  /\ active \in SUBSET (Ext \X Content)
  /\ latest \in Snapshot
  /\ row \in [Run -> {"none", "running", "skipped", "succeeded", "failed"}]
  /\ health \in {"unknown", "ok", "error"}
  /\ pc \in [Run -> RunStates]
  /\ snap \in [Run -> Snapshot]
  /\ todo \in [Run -> SUBSET Ext]
  /\ cur \in [Run -> Ext \cup {NoExt}]
  /\ faults \in Nat
  /\ torn \in SUBSET Ext
  /\ mixed \in SUBSET Run
  /\ alone \in SUBSET Run
  /\ orphaned \in SUBSET Run

Nothing == [x \in Ext |-> Absent]

Init ==
  /\ source \in Snapshot
  /\ enabled = TRUE
  /\ changes = 0
  /\ knowledge = [x \in Ext |-> [status |-> "none", content |-> Absent]]
  /\ active = {}
  /\ latest = Nothing
  /\ row = [r \in Run |-> "none"]
  /\ health = "unknown"
  /\ pc = [r \in Run |-> "idle"]
  /\ snap = [r \in Run |-> Nothing]
  /\ todo = [r \in Run |-> {}]
  /\ cur = [r \in Run |-> NoExt]
  /\ faults = 0
  /\ torn = {} /\ mixed = {} /\ alone = {} /\ orphaned = {}

-----------------------------------------------------------------------------
(* The world around the service.                                           *)

SourceChanges(x, c) ==
  /\ changes < MaxChanges
  /\ changes' = changes + 1
  /\ source[x] # c
  /\ source' = [source EXCEPT ![x] = c]
  /\ UNCHANGED <<enabled, storeVars, row, health, runVars, faults, history>>

\* repository.upsert of the definition, from the back office.
ToggleEnabled ==
  /\ changes < MaxChanges
  /\ changes' = changes + 1
  /\ enabled' = ~enabled
  /\ UNCHANGED <<source, storeVars, row, health, runVars, faults, history>>

-----------------------------------------------------------------------------
(* A run.                                                                  *)

Goto(r, state) == pc' = [pc EXCEPT ![r] = state]
InFlight       == {r \in Run : pc[r] # "idle"}
SeenIds(r)     == {x \in Ext : snap[r][x] # Absent}
ActiveIds      == {x \in Ext : \E c \in Content : <<x, c>> \in active}

\* History kept at a write of run r to id x: another run whose pair of writes to
\* x is open has been written into.
WriteInto(r, x)   == mixed' = mixed \cup {q \in Run \ {r} : cur[q] = x}
\* ... and at the last write of the pair of run r, which settles x.
CloseWrite(r, x) ==
  /\ mixed' = (mixed \cup {q \in Run \ {r} : cur[q] = x}) \ {r}
  /\ torn' = IF r \in mixed THEN torn \cup {x} ELSE torn \ {x}

Leave(r) ==
  /\ Goto(r, "idle")
  /\ snap' = [snap EXCEPT ![r] = Nothing]
  /\ todo' = [todo EXCEPT ![r] = {}]
  /\ cur' = [cur EXCEPT ![r] = NoExt]

\* findByKey and the first saveRun; a disabled connector ends here.
Start(r) ==
  /\ pc[r] = "idle"
  /\ IF enabled
     THEN /\ row' = [row EXCEPT ![r] = "running"]
          /\ Goto(r, "fetch")
          /\ alone' = IF InFlight = {} THEN alone \cup {r} ELSE alone \ (InFlight \cup {r})
     ELSE /\ row' = [row EXCEPT ![r] = "skipped"]
          /\ UNCHANGED <<pc, alone>>
  /\ orphaned' = orphaned \ {r}
  /\ UNCHANGED <<worldVars, storeVars, health, snap, todo, cur, faults, torn, mixed>>

Fetch(r) ==
  /\ pc[r] = "fetch"
  /\ snap' = [snap EXCEPT ![r] = source]
  /\ todo' = [todo EXCEPT ![r] = {x \in Ext : source[x] # Absent}]
  /\ Goto(r, "records")
  /\ UNCHANGED <<worldVars, storeVars, row, health, cur, faults, history>>

HashUnchanged(r, x) == latest[x] = snap[r][x]               \* mutant of Unchanged

\* previous?.contentHash === contentHash && previous.active
Unchanged(r, x) == latest[x] = snap[r][x] /\ <<x, latest[x]>> \in active

\* Next record: normalise, hash, findLatestVersion; an unchanged one is skipped.
Examine(r) ==
  /\ pc[r] = "records"
  /\ \E x \in todo[r] :
       /\ todo' = [todo EXCEPT ![r] = @ \ {x}]
       /\ IF Unchanged(r, x)
          THEN UNCHANGED <<pc, cur>>
          ELSE Goto(r, "upsert") /\ cur' = [cur EXCEPT ![r] = x]
  /\ UNCHANGED <<worldVars, storeVars, row, health, snap, faults, history>>

\* knowledge.upsert of an approved record, then the indexer.
UpsertKnowledge(r) ==
  LET x == cur[r] IN
  /\ pc[r] = "upsert"
  /\ knowledge' = [knowledge EXCEPT ![x] =
                     [status |-> "approved", content |-> snap[r][x]]]
  /\ WriteInto(r, x)
  /\ Goto(r, "version")
  /\ UNCHANGED <<worldVars, active, latest, row, health, snap, todo, cur, faults, torn, alone, orphaned>>

\* saveVersion; versions with another hash stay active.  observed_at is the time
\* of Examine on the run's own host, so that of two runs saving the same id at
\* once either may come out as the latest.
SaveVersion(r) ==
  LET x == cur[r] IN
  /\ pc[r] = "version"
  /\ active' = active \cup {<<x, snap[r][x]>>}
  /\ \/ latest' = [latest EXCEPT ![x] = snap[r][x]]
     \/ r \in mixed /\ UNCHANGED latest
  /\ CloseWrite(r, x)
  /\ Goto(r, "records")
  /\ cur' = [cur EXCEPT ![r] = NoExt]
  /\ UNCHANGED <<worldVars, knowledge, row, health, snap, todo, faults, alone, orphaned>>

\* All records done: listActiveExternalIds minus the ids seen.
ListRemoved(r) ==
  /\ pc[r] = "records" /\ todo[r] = {}
  /\ todo' = [todo EXCEPT ![r] = ActiveIds \ SeenIds(r)]
  /\ Goto(r, "remove")
  /\ UNCHANGED <<worldVars, storeVars, row, health, snap, cur, faults, history>>

DeactivateLatest(r) ==                                      \* mutant of Deactivate
  /\ pc[r] = "remove"
  /\ \E x \in todo[r] :
       /\ active' = active \ {<<x, latest[x]>>}
       /\ todo' = [todo EXCEPT ![r] = @ \ {x}]
       /\ cur' = [cur EXCEPT ![r] = x]
       /\ WriteInto(r, x)
  /\ Goto(r, "archive")
  /\ UNCHANGED <<worldVars, knowledge, latest, row, health, snap, faults, torn, alone, orphaned>>

\* deactivateExternalId: every active version of the id.
Deactivate(r) ==
  /\ pc[r] = "remove"
  /\ \E x \in todo[r] :
       /\ active' = active \ ({x} \X Content)
       /\ todo' = [todo EXCEPT ![r] = @ \ {x}]
       /\ cur' = [cur EXCEPT ![r] = x]
       /\ WriteInto(r, x)
  /\ Goto(r, "archive")
  /\ UNCHANGED <<worldVars, knowledge, latest, row, health, snap, faults, torn, alone, orphaned>>

\* knowledge.archive, an UPDATE that does nothing when there is no item.
Archive(r) ==
  LET x == cur[r] IN
  /\ pc[r] = "archive"
  /\ IF knowledge[x].status = "none"
     THEN UNCHANGED knowledge
     ELSE knowledge' = [knowledge EXCEPT ![x].status = "archived"]
  /\ CloseWrite(r, x)
  /\ Goto(r, "remove")
  /\ cur' = [cur EXCEPT ![r] = NoExt]
  /\ UNCHANGED <<worldVars, active, latest, row, health, snap, todo, faults, alone, orphaned>>

BookSuccess(r) ==
  /\ pc[r] = "remove" /\ todo[r] = {}
  /\ row' = [row EXCEPT ![r] = "succeeded"]
  /\ Goto(r, "health")
  /\ UNCHANGED <<worldVars, storeVars, health, snap, todo, cur, faults, history>>

HealthOk(r) ==
  /\ pc[r] = "health"
  /\ health' = "ok"
  /\ Leave(r)
  /\ UNCHANGED <<worldVars, storeVars, row, faults, history>>

\* Between the two writes of a pair.
HalfWritten(r) == pc[r] \in {"version", "archive"}

\* What a lost run leaves behind.
Interrupted(r) ==
  /\ torn' = IF HalfWritten(r) THEN torn \cup {cur[r]} ELSE torn
  /\ mixed' = mixed \ {r}

\* A call inside the try block throws: fetch, normalise, or any write, the two
\* that book the success included.
CallFails(r) ==
  /\ pc[r] \in {"fetch", "records", "upsert", "version", "remove", "archive", "health"}
  /\ faults < MaxFaults
  /\ faults' = faults + 1
  /\ Interrupted(r)
  /\ Goto(r, "fail")
  /\ todo' = [todo EXCEPT ![r] = {}]
  /\ cur' = [cur EXCEPT ![r] = NoExt]
  /\ UNCHANGED <<worldVars, storeVars, row, health, snap, alone, orphaned>>

\* A mutant of BookFailure: no status at all.
ForgetFailure(r) ==
  /\ pc[r] = "fail"
  /\ Goto(r, "failHealth")
  /\ UNCHANGED <<worldVars, storeVars, row, health, snap, todo, cur, faults, history>>

\* The catch block.
BookFailure(r) ==
  /\ pc[r] = "fail"
  /\ row' = [row EXCEPT ![r] = "failed"]
  /\ Goto(r, "failHealth")
  /\ UNCHANGED <<worldVars, storeVars, health, snap, todo, cur, faults, history>>

HealthError(r) ==
  /\ pc[r] = "failHealth"
  /\ health' = "error"
  /\ Leave(r)
  /\ UNCHANGED <<worldVars, storeVars, row, faults, history>>

\* The process dies, or a write of the catch block throws out of the run.
Lost(r) ==
  /\ pc[r] # "idle"
  /\ faults < MaxFaults
  /\ faults' = faults + 1
  /\ Interrupted(r)
  /\ Leave(r)
  /\ orphaned' = orphaned \cup {r}
  /\ UNCHANGED <<worldVars, storeVars, row, health, alone>>

-----------------------------------------------------------------------------
RunStep(r) ==
  \/ Fetch(r) \/ Examine(r) \/ UpsertKnowledge(r) \/ SaveVersion(r)
  \/ ListRemoved(r) \/ Deactivate(r) \/ Archive(r)
  \/ BookSuccess(r) \/ HealthOk(r) \/ BookFailure(r) \/ HealthError(r)

Next ==
  \/ \E x \in Ext, c \in Content \cup {Absent} : SourceChanges(x, c)
  \/ ToggleEnabled
  \/ \E r \in Run : Start(r) \/ RunStep(r) \/ CallFails(r) \/ Lost(r)

Spec == Init /\ [][Next]_vars

\* The schedule keeps starting runs and a started run goes on.
Fairness == \A r \in Run : WF_vars(Start(r)) /\ WF_vars(RunStep(r))

FairSpec == Spec /\ Fairness

-----------------------------------------------------------------------------
(* Properties.                                                             *)

\* The item of id x says what content c asks for: approved with that content, or
\* not approved when there is none.
Mirrors(x, c) ==
  IF c = Absent THEN knowledge[x].status # "approved"
  ELSE knowledge[x] = [status |-> "approved", content |-> c]

\* The two stores agree on every id that no run has half written and whose last
\* pair of writes was whole: an item is approved exactly while a version is
\* active, and then with the latest content.  The next run's comparison relies
\* on it, whatever runs overlapped, failed or died before.
Agree(x) == Mirrors(x, IF x \in ActiveIds THEN latest[x] ELSE Absent)

StoresAgree ==
  \A x \in Ext \ torn :
    (\A r \in Run : cur[r] = x => ~HalfWritten(r)) => Agree(x)

\* A run that books success and that no other overlapped leaves every id whose
\* writes were never split as its snapshot says: changed ids updated, ids that
\* came back approved again, missing ids archived.
SuccessMirrorsSnapshot ==
  [][\A r \in Run :
       row[r] = "running" /\ row'[r] = "succeeded" /\ r \in alone
         => \A x \in Ext \ torn : Mirrors(x, snap[r][x])]_vars

\* Every run is booked as succeeded or failed, whatever call of it threw: when
\* it is over its row stays "running" only if its process was lost.
RunsAreBooked ==
  \A r \in Run : pc[r] = "idle" /\ row[r] = "running" => r \in orphaned

\* Once source and definition rest and the faults are over, an enabled connector
\* brings the knowledge base in line with the source and keeps it so, but for
\* the ids a split pair of writes has left torn.
CatchesUp ==
  <>[](enabled => \A x \in Ext \ torn : Mirrors(x, source[x]))

\* "Missing ids are deactivated and their item archived": with a run cut short
\* between the two, no later run does it.
MissingIsArchived ==
  [][\A r \in Run :
       row[r] = "running" /\ row'[r] = "succeeded" /\ r \in alone
         => \A x \in Ext : snap[r][x] = Absent => knowledge[x].status # "approved"]_vars
=============================================================================
