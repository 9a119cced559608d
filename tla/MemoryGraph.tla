------------------------------ MODULE MemoryGraph ------------------------------
(***************************************************************************)
(* packages/domain/src/graph-memory.ts: the projection of a journey into a *)
(* graph, for one user.                                                    *)
(*                                                                         *)
(* Nodes are named by what they stand for: the database keys them by type  *)
(* and external id, and an edge by its ends.  The user's own node and the  *)
(* route's are left out, they behave as the journey's and the phase's do.  *)
(***************************************************************************)
EXTENDS JourneyRules, Sequences, SequencesExt

CONSTANTS Children,   \* ids of rows, in the order in which a graph lists them
          Journey,    \* the node of the journey
          NoLink

-----------------------------------------------------------------------------
\* A table, a function of its keys, after an upsert.
With(table, key, row) ==
  [k \in DOMAIN table \cup {key} |-> IF k = key THEN row ELSE table[k]]

NodeActive(row) ==
  CASE row.kind = "goal"      -> row.status \notin {"completed", "cancelled"}
    [] row.kind = "milestone" -> row.status = "pending"
    [] row.kind = "blocker"   -> row.status \in {"open", "mitigating"}
    [] row.kind = "action"    -> row.status \in {"pending", "doing"}
    [] OTHER                  -> TRUE

\* What the node of a row carries, and that of a phase.
NodeOf(row) == [status |-> row.status, level |-> row.level, active |-> NodeActive(row)]
PhaseNode   == [status |-> "phase", level |-> 0, active |-> TRUE]

\* HAS_MILESTONE leaves the goal of the milestone, if it has one.
Parent(rows, c) ==
  IF rows[c].kind = "milestone" /\ rows[c].link \in DOMAIN rows
  THEN rows[c].link ELSE Journey

NodeInsert(n, value) == [node |-> n, value |-> value]
EdgeInsert(e)        == [edge |-> e]

\* RESOLVES leads from an action, SUPPORTS from the evidence of a decision.
LinkInserts(rows, c) ==
  IF rows[c].link \notin DOMAIN rows THEN <<>>
  ELSE CASE rows[c].kind = "action"   -> <<EdgeInsert(<<c, rows[c].link>>)>>
         [] rows[c].kind = "decision" -> <<EdgeInsert(<<rows[c].link, c>>)>>
         [] OTHER                     -> <<>>

\* What each row there is contributes, in the order of Children.
Listed(rows, inserts) ==
  FlattenSeq([i \in DOMAIN Children |->
                IF Children[i] \in DOMAIN rows THEN inserts[Children[i]] ELSE <<>>])

\* buildJourneyMemoryGraph: its nodes, then its edges, in the order of insertion.
Build(journey, rows) ==
  <<NodeInsert(Journey, journey), NodeInsert(journey.phase, PhaseNode)>>
    \o Listed(rows, [c \in DOMAIN rows |-> <<NodeInsert(c, NodeOf(rows[c]))>>])
    \o <<EdgeInsert(<<Journey, journey.phase>>)>>
    \o Listed(rows, [c \in DOMAIN rows |->
                        <<EdgeInsert(<<Parent(rows, c), c>>)>> \o LinkInserts(rows, c)])

IsNode(insert) == "node" \in DOMAIN insert

-----------------------------------------------------------------------------
\* The tables: nodes is a function from the nodes that exist, edges a set of pairs.
UpsertNode(nodes, insert) == With(nodes, insert.node, insert.value)
EndsExist(nodes, insert)  == Range(insert.edge) \subseteq DOMAIN nodes

\* What a graph that mirrors the journey holds, said without the order of insertion.
MirrorNodes(journey, rows) ==
  With(With([c \in DOMAIN rows |-> NodeOf(rows[c])], journey.phase, PhaseNode),
       Journey, journey)

MirrorEdges(journey, rows) ==
  {<<Journey, journey.phase>>}
    \cup {<<Parent(rows, c), c>> : c \in DOMAIN rows}
    \cup {<<a, rows[a].link>> :
            a \in {c \in OfKind(rows, "action") : rows[c].link \in DOMAIN rows}}
    \cup {<<rows[d].link, d>> :
            d \in {c \in OfKind(rows, "decision") : rows[c].link \in DOMAIN rows}}
=============================================================================
