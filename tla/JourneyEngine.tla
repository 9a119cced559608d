----------------------------- MODULE JourneyEngine -----------------------------
(***************************************************************************)
(* packages/domain/src/journey-engine-2.ts, JourneyEngine over             *)
(* PostgresJourneyRepository, with the graph of graph-memory.ts kept by    *)
(* GraphMemoryJourneyChangeListener: one user's journey.                   *)
(*                                                                         *)
(* A request runs a list of awaited calls, its code; the tail of a call    *)
(* that needs no other state is part of it.  No call is in a transaction   *)
(* with another, and every row is written whole from the copy the request  *)
(* read.  Blockers have one key: those of other keys do not interact.      *)
(* The queries of findByUserId are taken as one read.                      *)
(***************************************************************************)
EXTENDS MemoryGraph

CONSTANTS Request,    \* slots for requests in flight
          Phases,
          KindOf,     \* the kind of row each of Children is for
          Weights,    \* weights of milestones
          Severities, \* severities of blockers
          ActionStatuses, MilestoneStatuses,   \* what updates ask for
          Starts,     \* what the tables may hold at first, reached by earlier requests
          MaxOps,     \* bound: requests made
          MaxFaults,  \* bound: failed calls
          NoJourney, NoRow

VARIABLES
  journey,    \* row of journeys
  rows,       \* the rows of the six tables under it
  nodes,      \* memory_graph_nodes
  edges,      \* memory_graph_edges
  code,       \* calls a request has still to make
  copy,       \* journey and rows as the request last read them
  arg,        \* what it was asked to save
  inserts,    \* inserts its graph update has still to make
  ops,        \* requests so far
  faults,     \* failed calls so far
  together,   \* history: requests that were not alone for all of their time
  alone,      \* history: requests alone since their last read of all
  excused     \* history: what overlap or failure may have left wrong

tables  == <<journey, rows, nodes, edges>>
locals  == <<code, copy, arg, inserts>>
bounds  == <<ops, faults>>
history == <<together, alone, excused>>
vars    == <<tables, locals, bounds, history>>

Statuses == {"pending", "active", "open", "resolved", "completed", "skipped",
             "doing", "done", "cancelled", "expired"} \cup Phases
Rows     == [kind : {"goal", "milestone", "blocker", "action", "evidence", "decision"},
             status : Statuses, level : Nat, link : Range(Children) \cup {NoLink}]
Journeys == [phase : Phases, status : {"active", "completed"}, progress : 0..One]

Calls == {"create", "copy", "evidence", "context", "decision", "save",
          "read", "refresh", "collect", "dropEdges", "dropNodes", "insert"}

TypeOK ==
  /\ journey \in Journeys \cup {NoJourney}
  /\ DOMAIN rows \subseteq Range(Children) /\ Range(rows) \subseteq Rows
  /\ DOMAIN nodes \subseteq Range(Children) \cup Phases \cup {Journey}
  /\ edges \subseteq (DOMAIN nodes) \X (DOMAIN nodes)
  /\ \A r \in Request : Range(code[r]) \subseteq Calls
  /\ ops \in 0..MaxOps /\ faults \in 0..MaxFaults
  /\ together \subseteq Request /\ alone \subseteq Request
  /\ excused \subseteq {"graph", "progress", "phase"}

NoArg  == [id |-> NoLink, row |-> NoRow, phase |-> NoRow]
NoCopy == [journey |-> NoJourney, rows |-> <<>>]

Init ==
  /\ \E start \in Starts :
       /\ journey = start.journey /\ rows = start.rows
       /\ IF start.graph
          THEN nodes = MirrorNodes(journey, rows) /\ edges = MirrorEdges(journey, rows)
          ELSE nodes = <<>> /\ edges = {}
       /\ excused = IF start.graph THEN {} ELSE {"graph"}
  /\ code = [r \in Request |-> <<>>]
  /\ copy = [r \in Request |-> NoCopy]
  /\ arg = [r \in Request |-> NoArg]
  /\ inserts = [r \in Request |-> <<>>]
  /\ ops = 0 /\ faults = 0
  /\ together = {} /\ alone = {}

-----------------------------------------------------------------------------
(* What the engine does after it saved a row.                              *)

NotifyChanged == <<"collect", "dropEdges", "dropNodes", "insert">>
Refresh       == <<"read", "refresh">> \o NotifyChanged

InFlight == {r \in Request : code[r] # <<>>}
Quiet    == InFlight = {}

\* At the start of a request: everything in flight is in company from here on.
Meet(r) ==
  /\ ops' = ops + 1
  /\ IF InFlight = {}
     THEN together' = together \ {r} /\ UNCHANGED <<alone, excused>>
     ELSE /\ together' = together \cup InFlight \cup {r}
          /\ alone' = {}
          /\ excused' = {"graph", "progress", "phase"}

\* An id for a new row: the next of its kind that is not in use or promised.
Unused(kind) ==
  {c \in Range(Children) : /\ KindOf[c] = kind
                           /\ c \notin DOMAIN rows
                           /\ \A q \in Request : arg[q].id # c}
Position(c)  == CHOOSE i \in DOMAIN Children : Children[i] = c
First(S)     == CHOOSE c \in S : \A d \in S : Position(c) <= Position(d)

\* A request that read the journey, found it, and goes on to save row at id.
Save(r, id, row, then) ==
  /\ journey # NoJourney
  /\ arg' = [arg EXCEPT ![r] = [id |-> id, row |-> row, phase |-> NoRow]]
  /\ code' = [code EXCEPT ![r] = <<"save">> \o then]
  /\ Meet(r)
  /\ UNCHANGED <<tables, copy, inserts, faults>>

Row(kind, status, level, link) ==
  [kind |-> kind, status |-> status, level |-> level, link |-> link]

-----------------------------------------------------------------------------
(* The operations.                                                         *)

EnsureJourney(r, p) ==
  /\ journey = NoJourney
  /\ arg' = [arg EXCEPT ![r].phase = p]
  /\ code' = [code EXCEPT ![r] = <<"create">> \o NotifyChanged]
  /\ Meet(r)
  /\ UNCHANGED <<tables, copy, inserts, faults>>

SynchronizeContext(r, p) ==
  /\ Unused("evidence") # {} /\ Unused("decision") # {}
  /\ arg' = [arg EXCEPT ![r].phase = p]
  /\ code' = [code EXCEPT ![r] =
       (IF journey = NoJourney THEN <<"create">> \o NotifyChanged ELSE <<>>)
         \o <<"copy", "evidence">> \o NotifyChanged
         \o <<"context", "decision">> \o NotifyChanged]
  /\ Meet(r)
  /\ UNCHANGED <<tables, copy, inserts, faults>>

AddGoal(r) ==
  /\ Unused("goal") # {}
  /\ Save(r, First(Unused("goal")), Row("goal", "active", 0, NoLink), Refresh)

AddMilestone(r, weight, goal) ==
  /\ Unused("milestone") # {}
  /\ Save(r, First(Unused("milestone")), Row("milestone", "pending", weight, goal), Refresh)

\* A mutant of UpsertBlocker: a found blocker is reopened.
Reopens(r, severity) ==
  IF OfKind(rows, "blocker") # {}
  THEN Save(r, First(OfKind(rows, "blocker")), Row("blocker", "open", severity, NoLink), Refresh)
  ELSE /\ Unused("blocker") # {}
       /\ Save(r, First(Unused("blocker")), Row("blocker", "open", severity, NoLink), Refresh)

\* The first blocker of the key keeps its id and its status, be it resolved.
UpsertBlocker(r, severity) ==
  IF OfKind(rows, "blocker") # {}
  THEN LET b == First(OfKind(rows, "blocker"))
       IN  Save(r, b, [rows[b] EXCEPT !.level = severity], Refresh)
  ELSE /\ Unused("blocker") # {}
       /\ Save(r, First(Unused("blocker")), Row("blocker", "open", severity, NoLink), Refresh)

AddAction(r, blocker) ==
  /\ Unused("action") # {}
  /\ Save(r, First(Unused("action")), Row("action", "pending", 0, blocker), NotifyChanged)

UpdateActionStatus(r, a, newStatus) ==
  Save(r, a, [rows[a] EXCEPT !.status = newStatus], NotifyChanged)

UnrefreshedMilestone(r, m, newStatus) ==          \* mutant of UpdateMilestoneStatus
  Save(r, m, [rows[m] EXCEPT !.status = newStatus], NotifyChanged)

UpdateMilestoneStatus(r, m, newStatus) ==
  Save(r, m, [rows[m] EXCEPT !.status = newStatus], Refresh)

ResolveBlocker(r, b) ==
  Save(r, b, [rows[b] EXCEPT !.status = "resolved"], Refresh)

\* The manual synchronisation, and the one the coach starts on an empty graph.
Synchronize(r) ==
  /\ journey # NoJourney
  /\ code' = [code EXCEPT ![r] = NotifyChanged]
  /\ Meet(r)
  /\ UNCHANGED <<tables, copy, arg, inserts, faults>>

-----------------------------------------------------------------------------
(* The calls.                                                              *)

\* Request r makes its next call, which is call, and is through with it.
Makes(r, call) ==
  /\ code[r] # <<>> /\ Head(code[r]) = call
  /\ code' = [code EXCEPT ![r] = Tail(@)]

\* saveJourney: every column but the id is overwritten.
SaveJourney(new) == journey' = new

Create(r) ==
  /\ Makes(r, "create")
  /\ SaveJourney([phase |-> arg[r].phase, status |-> "active", progress |-> 0])
  /\ UNCHANGED <<rows, nodes, edges, copy, arg, inserts, bounds, history>>

\* findByUserId into copy, for the context or for the progress.
Read(r) ==
  /\ Makes(r, "copy") \/ Makes(r, "read")
  /\ copy' = [copy EXCEPT ![r] = [journey |-> journey, rows |-> rows]]
  /\ alone' = IF InFlight = {r} THEN alone \cup {r} ELSE alone \ {r}
  /\ UNCHANGED <<tables, arg, inserts, bounds, together, excused>>

SaveRow(r) ==
  /\ Makes(r, "save")
  /\ rows' = With(rows, arg[r].id, arg[r].row)
  /\ UNCHANGED <<journey, nodes, edges, copy, arg, inserts, bounds, history>>

AddEvidence(r) ==
  /\ Makes(r, "evidence")
  /\ Unused("evidence") # {}
  /\ LET e == First(Unused("evidence")) IN
       /\ rows' = With(rows, e, Row("evidence", arg[r].phase, 0, NoLink))
       /\ arg' = [arg EXCEPT ![r].id = e]
  /\ UNCHANGED <<journey, nodes, edges, copy, inserts, bounds, history>>

\* Mutant of SaveContext: the copy is spread over the new phase.
SpreadLast(r) ==
  /\ Makes(r, "context")
  /\ SaveJourney(copy[r].journey)
  /\ copy' = [copy EXCEPT ![r] = NoCopy]
  /\ UNCHANGED <<rows, nodes, edges, arg, inserts, bounds, history>>

\* The second half of synchronizeContext: the journey as read before the
\* evidence, with the new phase.
SaveContext(r) ==
  /\ Makes(r, "context")
  /\ SaveJourney([copy[r].journey EXCEPT !.phase = arg[r].phase])
  /\ copy' = [copy EXCEPT ![r] = NoCopy]
  /\ UNCHANGED <<rows, nodes, edges, arg, inserts, bounds, history>>

RecordDecision(r) ==
  /\ Makes(r, "decision")
  /\ Unused("decision") # {}
  /\ rows' = With(rows, First(Unused("decision")), Row("decision", arg[r].phase, 0, arg[r].id))
  /\ excused' = IF r \in alone THEN excused \ {"phase"} ELSE excused
  /\ UNCHANGED <<journey, nodes, edges, copy, arg, inserts, bounds, together, alone>>

SaveProgress(r) ==
  LET progress == Progress(copy[r].rows) IN
  /\ Makes(r, "refresh")
  /\ SaveJourney([copy[r].journey EXCEPT
       !.progress = progress,
       !.status = IF progress >= One THEN "completed" ELSE @])
  /\ copy' = [copy EXCEPT ![r] = NoCopy]
  /\ excused' = IF r \in alone THEN excused \ {"progress"} ELSE excused
  /\ UNCHANGED <<rows, nodes, edges, arg, inserts, bounds, together, alone>>

\* synchronize of the graph service: read the journey, then replaceUserGraph.
Collect(r) ==
  /\ Makes(r, "collect")
  /\ inserts' = [inserts EXCEPT ![r] = Build(journey, rows)]
  /\ alone' = IF InFlight = {r} THEN alone \cup {r} ELSE alone \ {r}
  /\ UNCHANGED <<tables, copy, arg, bounds, together, excused>>

DropEdges(r) ==
  /\ Makes(r, "dropEdges")
  /\ edges' = {}
  /\ UNCHANGED <<journey, rows, nodes, copy, arg, inserts, bounds, history>>

\* Mutants of DropNodes: nothing is dropped; edges stay when their nodes go.
KeepNodes(r) ==
  /\ Makes(r, "dropNodes")
  /\ UNCHANGED <<tables, copy, arg, inserts, bounds, history>>

NoCascade(r) ==
  /\ Makes(r, "dropNodes")
  /\ nodes' = <<>>
  /\ UNCHANGED <<journey, rows, edges, copy, arg, inserts, bounds, history>>

\* Edges that another request has put back go with their nodes.
DropNodes(r) ==
  /\ Makes(r, "dropNodes")
  /\ nodes' = <<>> /\ edges' = {}
  /\ UNCHANGED <<journey, rows, copy, arg, inserts, bounds, history>>

\* upsertNode or upsertEdge of the next element; the last one ends the update.
Insert(r) ==
  LET insert == Head(inserts[r])
      last   == Tail(inserts[r]) = <<>>
  IN
  /\ code[r] # <<>> /\ Head(code[r]) = "insert"
  /\ \/ /\ IsNode(insert)
        /\ nodes' = UpsertNode(nodes, insert)
        /\ UNCHANGED edges
     \/ /\ ~IsNode(insert) /\ EndsExist(nodes, insert)
        /\ edges' = edges \cup {insert.edge}
        /\ UNCHANGED nodes
  /\ inserts' = [inserts EXCEPT ![r] = Tail(@)]
  /\ IF last
     THEN /\ code' = [code EXCEPT ![r] = Tail(@)]
          /\ arg' = IF Tail(code[r]) = <<>> THEN [arg EXCEPT ![r] = NoArg] ELSE arg
          /\ excused' = IF r \in alone THEN excused \ {"graph"} ELSE excused
     ELSE UNCHANGED <<code, arg, excused>>
  /\ UNCHANGED <<journey, rows, copy, bounds, together, alone>>

\* What a request that ends at its next call has left wrong.
LeftWrong(r) ==
  LET next == Head(code[r]) IN
  (IF next \in {"create", "copy", "evidence", "context", "save"} THEN {} ELSE {"graph"})
    \cup (IF next \in {"read", "refresh"} THEN {"progress"} ELSE {})
    \cup (IF next = "decision" THEN {"phase"} ELSE {})

Abandon(r) ==
  /\ code' = [code EXCEPT ![r] = <<>>]
  /\ copy' = [copy EXCEPT ![r] = NoCopy]
  /\ arg' = [arg EXCEPT ![r] = NoArg]
  /\ inserts' = [inserts EXCEPT ![r] = <<>>]
  /\ excused' = excused \cup LeftWrong(r)
  /\ UNCHANGED <<tables, ops, together, alone>>

\* An edge whose end another request has dropped violates the foreign key: the
\* error goes through the listener to the caller, the saved rows stay.
InsertFails(r) ==
  /\ code[r] # <<>> /\ Head(code[r]) = "insert"
  /\ ~IsNode(Head(inserts[r])) /\ ~EndsExist(nodes, Head(inserts[r]))
  /\ Abandon(r)
  /\ UNCHANGED faults

\* Any call throws, or the process dies.
CallFails(r) ==
  /\ code[r] # <<>>
  /\ faults < MaxFaults
  /\ faults' = faults + 1
  /\ Abandon(r)

-----------------------------------------------------------------------------
Begin(r) ==
  /\ code[r] = <<>> /\ ops < MaxOps
  /\ \/ \E p \in Phases : EnsureJourney(r, p) \/ SynchronizeContext(r, p)
     \/ AddGoal(r)
     \/ \E w \in Weights, g \in OfKind(rows, "goal") \cup {NoLink} : AddMilestone(r, w, g)
     \/ \E s \in Severities : UpsertBlocker(r, s)
     \/ \E b \in OfKind(rows, "blocker") \cup {NoLink} : AddAction(r, b)
     \/ \E a \in OfKind(rows, "action"), s \in ActionStatuses : UpdateActionStatus(r, a, s)
     \/ \E m \in OfKind(rows, "milestone"), s \in MilestoneStatuses :
          UpdateMilestoneStatus(r, m, s)
     \/ \E b \in OfKind(rows, "blocker") : ResolveBlocker(r, b)
     \/ Synchronize(r)

Proceed(r) ==
  \/ Create(r) \/ Read(r) \/ SaveRow(r) \/ AddEvidence(r) \/ SaveContext(r)
  \/ RecordDecision(r) \/ SaveProgress(r) \/ Collect(r) \/ DropEdges(r)
  \/ DropNodes(r) \/ Insert(r) \/ InsertFails(r)

Next == \E r \in Request : Begin(r) \/ Proceed(r) \/ CallFails(r)

Spec == Init /\ [][Next]_vars

-----------------------------------------------------------------------------
(* Properties.                                                             *)

\* At rest the graph is the projection of the journey, node for node and edge for
\* edge, unless an update of it overlapped another request or broke off; the
\* first update that runs alone repairs it.
GraphMirrors ==
  Quiet /\ journey # NoJourney /\ "graph" \notin excused
    => nodes = MirrorNodes(journey, rows) /\ edges = MirrorEdges(journey, rows)

\* At rest the stored progress is that of the stored rows, unless requests
\* overlapped or one broke off before its refresh: every operation that changes
\* what progress depends on refreshes it, and the others leave it alone.
ProgressCurrent ==
  Quiet /\ journey # NoJourney /\ "progress" \notin excused
    => journey.progress = Progress(rows)

\* At rest the phase is the one the last recorded decision explains, unless
\* requests overlapped or one broke off before its decision: no other operation
\* moves the phase, nor puts an old one back.
PhaseExplained ==
  LET decisions == OfKind(rows, "decision") IN
  Quiet /\ decisions # {} /\ "phase" \notin excused
    => \E d \in decisions : /\ \A c \in decisions : Position(c) <= Position(d)
                             /\ rows[d].status = journey.phase
                             /\ rows[d].link \in OfKind(rows, "evidence")

\* A resolved blocker is reopened only by a request that overlapped another and
\* wrote back the row as it was before.
ReopenedByOverlap ==
  \A b \in OfKind(rows, "blocker") :
    rows[b].status = "resolved" /\ rows'[b].status # "resolved"
      => \E r \in together : code[r] # <<>> /\ Head(code[r]) = "save" /\ arg[r].id = b

StaysResolved == [][ReopenedByOverlap]_vars
=============================================================================
