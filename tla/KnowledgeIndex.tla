--------------------------- MODULE KnowledgeIndex ---------------------------
(***************************************************************************)
(* The knowledge base (packages/knowledge/src/index.ts): the ingestion of  *)
(* the FAQ, desk and route-step datasets, the PostgreSQL tables of items,  *)
(* trusted sources and embeddings they write, and the search that reads    *)
(* three rankings and the sources in parallel and fuses them.              *)
(*                                                                         *)
(* A dataset is the sequence of entries its loop meets.  Every replica of  *)
(* the API ingests at its start, and an administrator may post a dataset,  *)
(* so several ingestions run at once; each statement is a step.  Scores    *)
(* are abstracted: a statement returns any matching rows, the fusion keeps *)
(* any `limit' of them.                                                    *)
(***************************************************************************)
EXTENDS Integers, FiniteSets, Sequences, FiniteSetsExt

CONSTANTS Item,        \* ids of knowledge items
          Text,        \* what an item may say
          Source,      \* keys of trusted sources
          Datasets,    \* the sequences of entries that are ingested
          Ingester,    \* ingestions: replicas starting, posted datasets
          NoItem,      \* text of an item never stored
          Limit,       \* results a search returns at most
          MaxEdits,    \* bound: archivals, expiries and source changes
          MaxFaults    \* bound: failing statements and embedding calls

VARIABLES items,       \* knowledge_items: id -> [text, review, valid, source]
          sources,     \* trusted_sources: key -> [active, domain]
          vectors,     \* knowledge_embeddings: id -> the text that was embedded
          run,         \* where each ingestion is
          search,      \* the search under way
          shown,       \* history: items that were approved and valid since it began
          edits, faults

vars == <<items, sources, vectors, run, search, shown, edits, faults>>

Absent == [text |-> NoItem]
Stored(i) == items[i] # Absent
Finished == [at |-> "done"]
Quiet == [at |-> "idle", hits |-> {}]

Init == /\ items = [i \in Item |-> Absent]
        /\ sources = [s \in Source |-> [active |-> FALSE, domain |-> NoItem]]
        /\ vectors = [i \in Item |-> NoItem]
        /\ run = [g \in Ingester |-> [at |-> "new"]]
        /\ search = Quiet
        /\ shown = {}
        /\ edits = 0 /\ faults = 0

\* review_status = 'approved' AND valid_from <= now() AND valid_until > now()
Searchable(row) == row # Absent /\ row.review = "approved" /\ row.valid

Store(i, row) == /\ items' = [items EXCEPT ![i] = row]
                 /\ shown' = IF Searchable(row) THEN shown \cup {i} ELSE shown

Fault == faults < MaxFaults /\ faults' = faults + 1
Edit  == edits < MaxEdits /\ edits' = edits + 1

(* ------------------------------- ingestion ------------------------------ *)

\* The loop goes on with the next published entry, or ends.
Loop(todo) ==
    LET published == {i \in DOMAIN todo : todo[i].published} IN
    IF published = {} THEN Finished
    ELSE [at |-> "source", todo |-> SubSeq(todo, Min(published), Len(todo))]

Entry(g) == Head(run[g].todo)
At(g, at) == run[g].at = at
Go(g, to) == run' = [run EXCEPT ![g] = to]

StartIngestion(g) ==
    /\ At(g, "new")
    /\ \E dataset \in Datasets : Go(g, Loop(dataset))
    /\ UNCHANGED <<items, sources, vectors, search, shown, edits, faults>>

\* ON CONFLICT (source_key): the source is active again, with the one domain
\* of this entry (none when the entry has no address).
UpsertSource(g) ==
    /\ At(g, "source")
    /\ sources' = [sources EXCEPT ![Entry(g).source] = [active |-> TRUE, domain |-> Entry(g).domain]]
    /\ Go(g, [run[g] EXCEPT !.at = "record"])
    /\ UNCHANGED <<items, vectors, search, shown, edits, faults>>

\* ON CONFLICT (id): every column is taken over, review_status = 'approved'
\* among them (the version that counts on is left out).
Ingested(entry) == [text |-> entry.text, review |-> "approved", valid |-> TRUE,
                    source |-> entry.source]

UpsertRecord(g) ==
    /\ At(g, "record")
    /\ Store(Entry(g).item, Ingested(Entry(g)))
    /\ Go(g, [run[g] EXCEPT !.at = "embed"])
    /\ UNCHANGED <<sources, vectors, search, edits, faults>>

\* index(record): the provider embeds the text the loop holds, then the row
\* of the item is overwritten.
Embed(g) ==
    /\ At(g, "embed")
    /\ Go(g, [run[g] EXCEPT !.at = "vector"])
    /\ UNCHANGED <<items, sources, vectors, search, shown, edits, faults>>

UpsertVector(g) ==
    /\ At(g, "vector")
    /\ vectors' = [vectors EXCEPT ![Entry(g).item] = Entry(g).text]
    /\ Go(g, Loop(Tail(run[g].todo)))
    /\ UNCHANGED <<items, sources, search, shown, edits, faults>>

\* Any failing statement ends the ingestion (and the start of the replica);
\* what was written stays.  It is tried again at the next start or request.
IngestionFails(g) ==
    /\ run[g].at \in {"source", "record", "embed", "vector"}
    /\ Fault
    /\ Go(g, [at |-> "new"])
    /\ UNCHANGED <<items, sources, vectors, search, shown, edits>>

(* ----------------------- other writers of the tables -------------------- *)

\* A connector run archives an item that its feed no longer holds.
Archive(i) ==
    /\ Stored(i)
    /\ Edit
    /\ Store(i, [items[i] EXCEPT !.review = "archived"])
    /\ UNCHANGED <<sources, vectors, run, search, faults>>

\* valid_until passes.
Expire(i) ==
    /\ Stored(i) /\ items[i].valid
    /\ Edit
    /\ Store(i, [items[i] EXCEPT !.valid = FALSE])
    /\ UNCHANGED <<sources, vectors, run, search, faults>>

\* POST /v1/backoffice/trusted-sources: an administrator switches a source.
SwitchSource(s) ==
    /\ Edit
    /\ sources' = [sources EXCEPT ![s].active = ~@]
    /\ UNCHANGED <<items, vectors, run, search, shown, faults>>

(* -------------------------------- searching ----------------------------- *)

Readers == {"lexical", "fuzzy", "semantic", "sources"}

\* The query is embedded, then the four statements are sent together
\* (Promise.all): each sees the tables at a moment of its own.
BeginSearch ==
    /\ search.at = "idle"
    /\ search' = [at |-> "reading", hits |-> {}, trusted |-> {}, open |-> Readers]
    /\ shown' = {i \in Item : Searchable(items[i])}
    /\ UNCHANGED <<items, sources, vectors, run, edits, faults>>

\* searchLexical, search_knowledge_fuzzy: the rows that match the query.
TextRows(matching) == {i \in matching : Searchable(items[i])}
\* A mutant of VectorRows: the vectors are searched with what was true when they
\* were written, as the in-memory repository does, which keeps a copy of the record.
StaleVectorRows(matching) == {i \in matching : vectors[i] # NoItem}

\* search_knowledge_embeddings joins the vectors with the items of today.
VectorRows(matching) == {i \in matching : vectors[i] # NoItem /\ Searchable(items[i])}

ReadRows(reader) ==
    /\ search.at = "reading" /\ reader \in search.open
    /\ \E matching \in SUBSET Item :
         search' = [search EXCEPT
                      !.hits = @ \cup IF reader = "semantic" THEN VectorRows(matching)
                                      ELSE TextRows(matching),
                      !.open = @ \ {reader}]
    /\ UNCHANGED <<items, sources, vectors, run, shown, edits, faults>>

ReadSources ==
    /\ search.at = "reading" /\ "sources" \in search.open
    /\ search' = [search EXCEPT !.trusted = {s \in Source : sources[s].active},
                                !.open = @ \ {"sources"}]
    /\ UNCHANGED <<items, sources, vectors, run, shown, edits, faults>>

\* The fusion adds up the ranks; an item of a source that is not active only
\* loses the weight of its authority.
Fuse ==
    /\ search.at = "reading" /\ search.open = {}
    /\ \E hits \in SUBSET search.hits :
         /\ Cardinality(hits) = IF Cardinality(search.hits) < Limit
                                THEN Cardinality(search.hits) ELSE Limit
         /\ search' = [at |-> "answered", hits |-> hits]
    /\ UNCHANGED <<items, sources, vectors, run, shown, edits, faults>>

\* The answer goes to the conversation (or one of the reads failed).
EndSearch ==
    /\ \/ search.at = "answered" /\ UNCHANGED faults
       \/ search.at = "reading" /\ Fault
    /\ search' = Quiet
    /\ shown' = {}
    /\ UNCHANGED <<items, sources, vectors, run, edits>>

Next == \/ \E g \in Ingester : \/ StartIngestion(g) \/ UpsertSource(g) \/ UpsertRecord(g)
                               \/ Embed(g) \/ UpsertVector(g) \/ IngestionFails(g)
        \/ \E i \in Item : Archive(i) \/ Expire(i)
        \/ \E s \in Source : SwitchSource(s)
        \/ BeginSearch \/ Fuse \/ EndSearch \/ ReadSources
        \/ \E reader \in Readers \ {"sources"} : ReadRows(reader)

Spec == Init /\ [][Next]_vars

(* ------------------------------- properties ----------------------------- *)

\* Rows, vectors, ingestions and the search have the shape the code gives them.
TypeOK ==
    /\ \A i \in Item : Stored(i) => /\ items[i].text \in Text
                                    /\ items[i].review \in {"approved", "archived"}
    /\ vectors \in [Item -> Text \cup {NoItem}]
    /\ \A g \in Ingester : run[g].at \in {"new", "source", "record", "embed", "vector", "done"}
    /\ search.at \in {"idle", "reading", "answered"}
    /\ search.hits \subseteq Item

\* Items are archived, expire and are approved again while a search sends its
\* statements one beside the other: still no answer rests on an item that was
\* at no moment of that search both approved and valid.
HitsWereApproved == search.hits \subseteq shown
=============================================================================
