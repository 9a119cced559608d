----------------------------- MODULE LabelQueue -----------------------------
(***************************************************************************)
(* The search that learns (packages/knowledge/src/index.ts, 2998-3658): a  *)
(* retrieval is scored a second time by a cross-encoder that only writes   *)
(* shadow evaluations, an uncertain retrieval is put on the label queue,   *)
(* and a colleague claims a queued question and labels its candidates.     *)
(* The label is one UPDATE of the queue followed by one INSERT per         *)
(* candidate, each a statement of its own; the searches and the labellers  *)
(* run in different requests, so they interleave at every statement.       *)
(* Scores are abstracted to the three tests made of them.                  *)
(***************************************************************************)
EXTENDS Integers, FiniteSets, Sequences

CONSTANTS Question,   \* hashes of the normalised queries
          Candidate,  \* knowledge items a search may return
          Labeler,    \* back-office users
          Nobody,     \* claimed_by IS NULL
          MaxItems,   \* bound: rows of the queue
          MaxFaults   \* bound: scorer or database failures

VARIABLES queue,        \* retrieval_label_queue, in order of creation
          labels,       \* retrieval_training_labels: <<item, candidate>> -> [relevance, by]
          evaluations,  \* retrieval_shadow_evaluations, as <<question, status>> pairs
          search,       \* the search under way for each question
          work,         \* the inserts each labeller's request still has to make
          broken,       \* history: items whose inserts were cut off by a failure
          faults        \* history: failures so far

vars == <<queue, labels, evaluations, search, work, broken, faults>>

Idle == [at |-> "idle"]
Open == {"pending", "claimed"}

Init == /\ queue = <<>>
        /\ labels = <<>>
        /\ evaluations = {}
        /\ search = [q \in Question |-> Idle]
        /\ work = [l \in Labeler |-> Idle]
        /\ broken = {}
        /\ faults = 0

Fault == faults < MaxFaults /\ faults' = faults + 1

(* ------------------------------- searching ------------------------------ *)

\* The learned reranker hands on at least `limit` candidates, best first.
Retrieve(q) ==
    /\ search[q].at = "idle"
    /\ \E cs \in SUBSET Candidate :
         search' = [search EXCEPT ![q] = [at |-> "score", found |-> cs]]
    /\ UNCHANGED <<queue, labels, evaluations, work, broken, faults>>

\* Any exception of the scorer, a wrong number of scores, or a failed append
\* of the completed evaluation ends in the catch, which appends a failed one.
Score(q) ==
    /\ search[q].at = "score"
    /\ \/ search' = [search EXCEPT ![q].at = "completed"] /\ UNCHANGED faults
       \/ Fault /\ search' = [search EXCEPT ![q].at = "failed"]
    /\ UNCHANGED <<queue, labels, evaluations, work, broken>>

AppendCompleted(q) ==
    /\ search[q].at = "completed"
    /\ \/ /\ evaluations' = evaluations \cup {<<q, "completed">>}
          /\ search' = [search EXCEPT ![q].at = "weigh"]
          /\ UNCHANGED faults
       \/ /\ Fault
          /\ search' = [search EXCEPT ![q].at = "failed"]
          /\ UNCHANGED evaluations
    /\ UNCHANGED <<queue, labels, work, broken>>

\* The append inside the catch is not guarded: its failure is the search's.
AppendFailed(q) ==
    /\ search[q].at = "failed"
    /\ \/ /\ evaluations' = evaluations \cup {<<q, "failed">>}
          /\ search' = [search EXCEPT ![q].at = "weigh"]
          /\ UNCHANGED faults
       \/ /\ Fault
          /\ search' = [search EXCEPT ![q] = Idle]
          /\ UNCHANGED evaluations
    /\ UNCHANGED <<queue, labels, work, broken>>

\* Why a retrieval is uncertain: too few results, a low top score, or a small
\* margin; a retrieval of two or more may also be certain.
Reasons(found) ==
    IF Cardinality(found) < 2 THEN {"insufficient_candidates"}
    ELSE {"low_absolute_score", "small_top_margin", "certain"}

OpenItem(q) == {i \in DOMAIN queue : queue[i].question = q /\ queue[i].status \in Open}

NewItem(q, found, reason) ==
    [question |-> q, candidates |-> found, reason |-> reason, status |-> "pending",
     claimedBy |-> Nobody, labeledBy |-> Nobody, relevant |-> {}, irrelevant |-> {}]

\* INSERT .. ON CONFLICT (query_hash) WHERE status IN (pending, claimed) DO
\* UPDATE SET query_hash: the open item of the same question stays as it is.
Enqueue(q, reason) ==
    IF reason = "certain" \/ OpenItem(q) # {} THEN UNCHANGED queue
    ELSE /\ Len(queue) < MaxItems
         /\ queue' = Append(queue, NewItem(q, search[q].found, reason))

Weigh(q) ==
    /\ search[q].at = "weigh"
    /\ \/ /\ \E reason \in Reasons(search[q].found) : Enqueue(q, reason)
          /\ UNCHANGED faults
       \/ Fault /\ UNCHANGED queue
    /\ search' = [search EXCEPT ![q] = Idle]
    /\ UNCHANGED <<labels, evaluations, work, broken>>

(* ------------------------------- labelling ------------------------------ *)

Claim(l, i) ==
    /\ work[l].at = "idle"
    /\ queue[i].status = "pending"
    /\ queue' = [queue EXCEPT ![i].status = "claimed", ![i].claimedBy = l]
    /\ UNCHANGED <<labels, evaluations, search, work, broken, faults>>

\* A mutant of Labelable: a colleague may label again what is already labelled.
Relabelable(l, i) == queue[i].claimedBy \in {Nobody, l}

Labelable(l, i) == /\ queue[i].status \in Open
                   /\ queue[i].claimedBy \in {Nobody, l}

\* The two lists are de-duplicated each, not against one another, and are not
\* compared with the candidates of the item.
Label(l, i) ==
    /\ work[l].at = "idle"
    /\ Labelable(l, i)
    /\ \E rel, irr \in SUBSET Candidate :
         /\ rel \cup irr # {}
         /\ queue' = [queue EXCEPT ![i].status = "labeled", ![i].labeledBy = l,
                                   ![i].relevant = rel, ![i].irrelevant = irr]
         /\ work' = [work EXCEPT ![l] = [at |-> "insert", item |-> i, relevant |-> rel, irrelevant |-> irr]]
    /\ UNCHANGED <<labels, evaluations, search, broken, faults>>

Put(i, c, relevance, l) ==
    labels' = [key \in DOMAIN labels \cup {<<i, c>>} |->
                 IF key = <<i, c>> THEN [relevance |-> relevance, by |-> l] ELSE labels[key]]

Shorter(w) == IF w.relevant = {} /\ w.irrelevant = {} THEN Idle ELSE w

\* The relevant candidates are inserted first, then the irrelevant ones; a
\* conflict on <<item, candidate>> overwrites.
Insert(l) ==
    /\ work[l].at = "insert"
    /\ \/ \E c \in work[l].relevant :
            /\ Put(work[l].item, c, 2, l)
            /\ work' = [work EXCEPT ![l] =
                          Shorter([work[l] EXCEPT !.relevant = work[l].relevant \ {c}])]
       \/ \E c \in work[l].irrelevant :
            /\ work[l].relevant = {}
            /\ Put(work[l].item, c, 0, l)
            /\ work' = [work EXCEPT ![l] =
                          Shorter([work[l] EXCEPT !.irrelevant = work[l].irrelevant \ {c}])]
    /\ UNCHANGED <<queue, evaluations, search, broken, faults>>

InsertFails(l) ==
    /\ work[l].at = "insert"
    /\ Fault
    /\ broken' = broken \cup {work[l].item}
    /\ work' = [work EXCEPT ![l] = Idle]
    /\ UNCHANGED <<queue, labels, evaluations, search>>

Next == \/ \E q \in Question : \/ Retrieve(q) \/ Score(q) \/ AppendCompleted(q)
                               \/ AppendFailed(q) \/ Weigh(q)
        \/ \E l \in Labeler : \/ \E i \in DOMAIN queue : Claim(l, i) \/ Label(l, i)
                              \/ Insert(l) \/ InsertFails(l)

Spec == Init /\ [][Next]_vars

(* ------------------------------ properties ------------------------------ *)

\* Every row, search and request has the shape the code gives it.
TypeOK ==
    /\ \A i \in DOMAIN queue :
         /\ queue[i].status \in Open \cup {"labeled"}
         /\ queue[i].claimedBy \in Labeler \cup {Nobody}
         /\ queue[i].relevant \cup queue[i].irrelevant \subseteq Candidate
    /\ DOMAIN labels \subseteq (DOMAIN queue) \X Candidate
    /\ evaluations \subseteq Question \X {"completed", "failed"}
    /\ \A q \in Question : search[q].at \in {"idle", "score", "completed", "failed", "weigh"}
    /\ \A l \in Labeler : work[l].at \in {"idle", "insert"}
    /\ broken \subseteq DOMAIN queue

Inserting(i) == \E l \in Labeler : work[l].at = "insert" /\ work[l].item = i

\* Two colleagues may open the same question, one may claim what the other is
\* labelling, and a label is written row by row: still every training label
\* states the verdict the queue shows, given by the colleague it names (the
\* claimer, when there is one), and unless an insert failed the verdict is
\* written in full once its request is done. (Training reads these rows.)
TrainingLabelsAreTheVerdict ==
    /\ \A key \in DOMAIN labels :
         LET item == queue[key[1]] IN
         /\ item.status = "labeled"
         /\ labels[key].by = item.labeledBy
         /\ item.claimedBy \in {Nobody, item.labeledBy}
         /\ key[2] \in IF labels[key].relevance = 2 THEN item.relevant ELSE item.irrelevant
    /\ \A i \in DOMAIN queue :
         queue[i].status = "labeled" /\ ~Inserting(i) /\ i \notin broken =>
           \A c \in queue[i].relevant \cup queue[i].irrelevant :
             /\ <<i, c>> \in DOMAIN labels
             /\ labels[<<i, c>>].relevance = 0 <=> c \in queue[i].irrelevant
=============================================================================
