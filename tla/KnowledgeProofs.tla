--------------------------- MODULE KnowledgeProofs ---------------------------
(***************************************************************************)
(* What holds of three components of packages/knowledge for any number of  *)
(* colleagues, items, ingestions, processes and failures: the label queue  *)
(* (LQ), the knowledge index and its search (KI), and the definitions and  *)
(* run rows of a connector (CR).                                           *)
(*                                                                         *)
(* Every theorem is about the specification of one of them.  A variable or *)
(* a constant that two components name alike is declared once.             *)
(***************************************************************************)
EXTENDS Integers, FiniteSets, Sequences, WellFoundedInduction, TLAPS

CONSTANTS Question, Candidate, Labeler, Nobody, MaxItems, LabelFaults,
          Item, Text, Source, Datasets, Ingester, NoItem, Limit, MaxEdits, MaxFaults,
          Pod, Kind, Record, UrlSet, MaxAttempts, MaxRuns, MaxCrashes

VARIABLES queue, labels, evaluations, work, search, broken, faults,
          items, sources, vectors, run, shown, edits,
          definition, runs, pod, raced, lost

LQ == INSTANCE LabelQueue WITH MaxFaults <- LabelFaults
KI == INSTANCE KnowledgeIndex
CR == INSTANCE ConnectorRuntime

-----------------------------------------------------------------------------
(***************************************************************************)
(* The label queue.                                                        *)
(*                                                                         *)
(* TrainingLabelsAreTheVerdict speaks of the rows whose request is done.   *)
(* It rests on what a request that is not done still has in its hands:     *)
(* Assigned says whose request it is and in which order it inserts,        *)
(* Accounted that what is not yet a training label is still to come.       *)
(***************************************************************************)

Items ==
  [question   : Question,
   candidates : SUBSET Candidate,
   reason     : {"insufficient_candidates", "low_absolute_score", "small_top_margin"},
   status     : LQ!Open \cup {"labeled"},
   claimedBy  : Labeler \cup {Nobody},
   labeledBy  : Labeler \cup {Nobody},
   relevant   : SUBSET Candidate,
   irrelevant : SUBSET Candidate]

Works == {LQ!Idle} \cup [at : {"insert"}, item : Nat, relevant : SUBSET Candidate,
                      irrelevant : SUBSET Candidate]

Searches == {LQ!Idle} \cup [at : {"score", "completed", "failed", "weigh"},
                         found : SUBSET Candidate]

Typed ==
  /\ queue \in Seq(Items)
  /\ work \in [Labeler -> Works]
  /\ search \in [Question -> Searches]
  /\ DOMAIN labels \subseteq (DOMAIN queue) \X Candidate
  /\ evaluations \subseteq Question \X {"completed", "failed"}
  /\ broken \subseteq DOMAIN queue

OnIt(l, i) == work[l].at = "insert" /\ work[l].item = i

\* A request that inserts does so for a row it labelled, the irrelevant last.
Assigned ==
  \A l \in Labeler : work[l].at = "insert" =>
    LET i == work[l].item IN
    /\ i \in DOMAIN queue
    /\ queue[i].status = "labeled" /\ queue[i].labeledBy = l
    /\ work[l].relevant \subseteq queue[i].relevant
    /\ work[l].irrelevant \subseteq queue[i].irrelevant
    /\ work[l].relevant # {} => work[l].irrelevant = queue[i].irrelevant

\* Whoever labelled a row had claimed it, or nobody had.
ClaimerLabels ==
  \A i \in DOMAIN queue : queue[i].status = "labeled" =>
    queue[i].claimedBy \in {Nobody, queue[i].labeledBy}

\* A training label is part of the verdict of its row.
Truthful ==
  \A i \in DOMAIN queue, c \in Candidate : <<i, c>> \in DOMAIN labels =>
    /\ queue[i].status = "labeled"
    /\ labels[<<i, c>>].by = queue[i].labeledBy
    /\ c \in IF labels[<<i, c>>].relevance = 2 THEN queue[i].relevant ELSE queue[i].irrelevant

\* Of a row that no failure cut off, each candidate has its training label or
\* is still in the hands of a request.
Accounted ==
  \A i \in DOMAIN queue : queue[i].status = "labeled" /\ i \notin broken =>
    /\ \A c \in queue[i].relevant :
         \/ <<i, c>> \in DOMAIN labels
         \/ \E l \in Labeler : OnIt(l, i) /\ c \in work[l].relevant
    /\ \A c \in queue[i].irrelevant :
         \/ <<i, c>> \in DOMAIN labels /\ labels[<<i, c>>].relevance = 0
         \/ \E l \in Labeler : OnIt(l, i) /\ c \in work[l].irrelevant

LabelInv == Typed /\ Assigned /\ ClaimerLabels /\ Truthful /\ Accounted

LEMMA LabelInit == LQ!Init => LabelInv
BY DEF LQ!Init, LabelInv, Typed, Assigned, ClaimerLabels, Truthful, Accounted, Works, Searches,
       LQ!Idle

-----------------------------------------------------------------------------
(* Searches only add pending rows to the queue.                            *)

\* Statements that leave the queue, its labels and the labellers alone keep LabelInv.
LEMMA OutsideStep ==
  ASSUME LabelInv, UNCHANGED <<queue, labels, work, broken>>,
         search' \in [Question -> Searches],
         evaluations' \subseteq Question \X {"completed", "failed"}
  PROVE  LabelInv'
<1>1. Typed'
  BY DEF LabelInv, Typed
<1>2. Assigned' /\ ClaimerLabels' /\ Truthful' /\ Accounted'
  BY DEF LabelInv, Assigned, ClaimerLabels, Truthful, Accounted, OnIt
<1> QED BY <1>1, <1>2 DEF LabelInv

\* A row appended to the queue is pending and has no labels.
LEMMA EnqueueKeeps ==
  ASSUME LabelInv, NEW row \in Items, row.status = "pending",
         queue' = Append(queue, row),
         UNCHANGED <<labels, work, broken, evaluations>>,
         search' \in [Question -> Searches]
  PROVE  LabelInv'
<1>1. queue \in Seq(Items) /\ queue' \in Seq(Items)
  BY DEF LabelInv, Typed
<1>2. /\ DOMAIN queue' = DOMAIN queue \cup {Len(queue) + 1}
      /\ Len(queue) + 1 \notin DOMAIN queue
      /\ \A i \in DOMAIN queue : queue'[i] = queue[i]
      /\ queue'[Len(queue) + 1] = row
  BY <1>1
<1>3. Typed'
  BY <1>1, <1>2 DEF LabelInv, Typed
<1>4. Assigned'
  BY <1>2 DEF LabelInv, Assigned
<1>5. ClaimerLabels'
  BY <1>2 DEF LabelInv, ClaimerLabels
<1>6. Truthful'
  BY <1>2 DEF LabelInv, Truthful, Typed
<1>7. Accounted'
  <2> SUFFICES ASSUME NEW i \in DOMAIN queue', queue'[i].status = "labeled", i \notin broken'
               PROVE  /\ \A c \in queue'[i].relevant :
                           \/ <<i, c>> \in DOMAIN labels'
                           \/ \E l \in Labeler : OnIt(l, i)' /\ c \in work'[l].relevant
                      /\ \A c \in queue'[i].irrelevant :
                           \/ <<i, c>> \in DOMAIN labels' /\ labels'[<<i, c>>].relevance = 0
                           \/ \E l \in Labeler : OnIt(l, i)' /\ c \in work'[l].irrelevant
    BY DEF Accounted
  <2>1. i \in DOMAIN queue /\ queue'[i] = queue[i]
    BY <1>2
  <2> QED BY <2>1 DEF LabelInv, Accounted, OnIt
<1> QED BY <1>3, <1>4, <1>5, <1>6, <1>7 DEF LabelInv

LEMMA SearchStep ==
  ASSUME LabelInv, NEW q \in Question,
         LQ!Retrieve(q) \/ LQ!Score(q) \/ LQ!AppendCompleted(q) \/ LQ!AppendFailed(q) \/ LQ!Weigh(q)
  PROVE  LabelInv'
<1> USE DEF Searches, LQ!Idle
<1>0. /\ search \in [Question -> Searches]
      /\ evaluations \subseteq Question \X {"completed", "failed"}
  BY DEF LabelInv, Typed
<1>1. CASE LQ!Retrieve(q)
  BY <1>0, <1>1, OutsideStep DEF LQ!Retrieve
<1>2. CASE LQ!Score(q)
  <2>1. search' \in [Question -> Searches]
    BY <1>0, <1>2 DEF LQ!Score
  <2> QED BY <1>0, <1>2, <2>1, OutsideStep DEF LQ!Score
<1>3. CASE LQ!AppendCompleted(q)
  <2>1. search' \in [Question -> Searches]
    BY <1>0, <1>3 DEF LQ!AppendCompleted
  <2> QED BY <1>0, <1>3, <2>1, OutsideStep DEF LQ!AppendCompleted
<1>4. CASE LQ!AppendFailed(q)
  <2>1. search' \in [Question -> Searches]
    BY <1>0, <1>4 DEF LQ!AppendFailed
  <2> QED BY <1>0, <1>4, <2>1, OutsideStep DEF LQ!AppendFailed
<1>5. CASE LQ!Weigh(q)
  <2>1. search' \in [Question -> Searches]
    BY <1>0, <1>5 DEF LQ!Weigh
  <2>2. CASE UNCHANGED queue
    BY <1>0, <1>5, <2>1, <2>2, OutsideStep DEF LQ!Weigh
  <2>3. CASE ~UNCHANGED queue
    <3>1. PICK reason \in LQ!Reasons(search[q].found) :
            reason # "certain" /\ queue' = Append(queue, LQ!NewItem(q, search[q].found, reason))
      BY <1>5, <2>3 DEF LQ!Weigh, LQ!Enqueue
    <3>2. search[q].found \in SUBSET Candidate
      BY <1>0, <1>5 DEF LQ!Weigh
    <3>3. reason \in {"insufficient_candidates", "low_absolute_score", "small_top_margin"}
      BY <3>1 DEF LQ!Reasons
    <3>4. LQ!NewItem(q, search[q].found, reason) \in Items
      BY <3>2, <3>3 DEF LQ!NewItem, Items, LQ!Open
    <3>5. LQ!NewItem(q, search[q].found, reason).status = "pending"
      BY DEF LQ!NewItem
    <3> QED BY <1>5, <2>1, <3>1, <3>4, <3>5, EnqueueKeeps DEF LQ!Weigh
  <2> QED BY <2>2, <2>3
<1> QED BY <1>1, <1>2, <1>3, <1>4, <1>5

-----------------------------------------------------------------------------
(* Labelling.                                                              *)

LEMMA ClaimStep ==
  ASSUME LabelInv, NEW l \in Labeler, NEW i \in DOMAIN queue, LQ!Claim(l, i)
  PROVE  LabelInv'
<1>1. queue \in Seq(Items) /\ queue[i] \in Items
  BY DEF LabelInv, Typed
<1>2. queue' \in Seq(Items) /\ DOMAIN queue' = DOMAIN queue
  BY <1>1 DEF LQ!Claim, Items, LQ!Open
<1>3. \A j \in DOMAIN queue : j # i => queue'[j] = queue[j]
  BY <1>1 DEF LQ!Claim
<1>4. queue[i].status = "pending" /\ queue'[i].status = "claimed"
  BY <1>1 DEF LQ!Claim, Items
<1>5. UNCHANGED <<labels, work, broken, search, evaluations>>
  BY DEF LQ!Claim
<1>6. Typed'
  BY <1>2, <1>5 DEF LabelInv, Typed
<1>7. Assigned' /\ ClaimerLabels' /\ Truthful' /\ Accounted'
  BY <1>2, <1>3, <1>4, <1>5 DEF LabelInv, Assigned, ClaimerLabels, Truthful, Accounted, OnIt
<1> QED BY <1>6, <1>7 DEF LabelInv

LEMMA LabelStep ==
  ASSUME LabelInv, NEW l \in Labeler, NEW i \in DOMAIN queue, LQ!Label(l, i)
  PROVE  LabelInv'
<1>1. queue \in Seq(Items) /\ queue[i] \in Items /\ i \in Nat
  BY DEF LabelInv, Typed
<1>2. PICK rel, irr \in SUBSET Candidate :
         /\ queue' = [queue EXCEPT ![i].status = "labeled", ![i].labeledBy = l,
                                   ![i].relevant = rel, ![i].irrelevant = irr]
         /\ work' = [work EXCEPT ![l] = [at |-> "insert", item |-> i,
                                         relevant |-> rel, irrelevant |-> irr]]
  BY DEF LQ!Label
<1>3. queue' \in Seq(Items) /\ DOMAIN queue' = DOMAIN queue
  <2> DEFINE row == [queue[i] EXCEPT !.status = "labeled", !.labeledBy = l,
                                     !.relevant = rel, !.irrelevant = irr]
  <2>1. row \in Items
    BY <1>1 DEF Items
  <2>2. queue' = [queue EXCEPT ![i] = row]
    BY <1>2
  <2> HIDE DEF row
  <2> QED BY <1>1, <2>1, <2>2
<1>4. \A j \in DOMAIN queue : j # i => queue'[j] = queue[j]
  BY <1>1, <1>2
<1>5. /\ queue'[i].status = "labeled" /\ queue'[i].labeledBy = l
      /\ queue'[i].relevant = rel /\ queue'[i].irrelevant = irr
      /\ queue'[i].claimedBy = queue[i].claimedBy
  BY <1>1, <1>2 DEF Items
<1>6. /\ queue[i].status \in LQ!Open /\ queue[i].claimedBy \in {Nobody, l}
      /\ work[l].at = "idle" /\ UNCHANGED <<labels, broken, search, evaluations>>
  BY DEF LQ!Label, LQ!Labelable
<1>7. work \in [Labeler -> Works] /\ work' \in [Labeler -> Works]
  BY <1>1, <1>2 DEF LabelInv, Typed, Works
<1>8. /\ work'[l].at = "insert" /\ work'[l].item = i
      /\ work'[l].relevant = rel /\ work'[l].irrelevant = irr
      /\ \A m \in Labeler : m # l => work'[m] = work[m]
  BY <1>2, <1>7
<1>9. \A m \in Labeler : ~OnIt(m, i)
  BY <1>6 DEF LabelInv, Assigned, OnIt, LQ!Open
<1>10. Typed'
  BY <1>3, <1>6, <1>7 DEF LabelInv, Typed
<1>11. Assigned'
  BY <1>3, <1>4, <1>5, <1>8, <1>9 DEF LabelInv, Assigned, OnIt
<1>12. ClaimerLabels'
  BY <1>3, <1>4, <1>5, <1>6 DEF LabelInv, ClaimerLabels
<1>13. \A c \in Candidate : <<i, c>> \notin DOMAIN labels
  BY <1>6 DEF LabelInv, Truthful, LQ!Open
<1>14. Truthful'
  BY <1>3, <1>4, <1>6, <1>13 DEF LabelInv, Truthful
<1>15. Accounted'
  <2> SUFFICES ASSUME NEW j \in DOMAIN queue, queue'[j].status = "labeled", j \notin broken
               PROVE  /\ \A c \in queue'[j].relevant :
                           \/ <<j, c>> \in DOMAIN labels
                           \/ \E m \in Labeler : OnIt(m, j)' /\ c \in work'[m].relevant
                      /\ \A c \in queue'[j].irrelevant :
                           \/ <<j, c>> \in DOMAIN labels /\ labels[<<j, c>>].relevance = 0
                           \/ \E m \in Labeler : OnIt(m, j)' /\ c \in work'[m].irrelevant
    BY <1>3, <1>6 DEF Accounted
  <2>1. CASE j = i
    BY <1>5, <1>8, <2>1 DEF OnIt
  <2>2. CASE j # i
    <3>1. queue'[j] = queue[j] /\ (\A m \in Labeler : OnIt(m, j) => m # l)
      BY <1>4, <1>6, <2>2 DEF OnIt
    <3> QED BY <1>8, <3>1 DEF LabelInv, Accounted, OnIt
  <2> QED BY <2>1, <2>2
<1> QED BY <1>10, <1>11, <1>12, <1>14, <1>15 DEF LabelInv
LEMMA InsertStep ==
  ASSUME LabelInv, NEW l \in Labeler, LQ!Insert(l)
  PROVE  LabelInv'
<1> DEFINE i == work[l].item
           w == work'[l]
<1>1. /\ work \in [Labeler -> Works] /\ work[l].at = "insert"
      /\ UNCHANGED <<queue, evaluations, search, broken>>
      /\ i \in DOMAIN queue /\ queue[i].status = "labeled" /\ queue[i].labeledBy = l
  BY DEF LQ!Insert, LabelInv, Typed, Assigned
<1>2. \A m \in Labeler : m # l => work'[m] = work[m] /\ ~OnIt(m, i)
  BY <1>1 DEF LQ!Insert, LabelInv, Assigned, OnIt
<1>3. PICK c \in Candidate, relevance \in {0, 2} :
        /\ LQ!Put(i, c, relevance, l)
        /\ \/ /\ relevance = 2 /\ c \in work[l].relevant
              /\ work' = [work EXCEPT ![l] =
                           LQ!Shorter([work[l] EXCEPT !.relevant = work[l].relevant \ {c}])]
           \/ /\ relevance = 0 /\ c \in work[l].irrelevant /\ work[l].relevant = {}
              /\ work' = [work EXCEPT ![l] =
                           LQ!Shorter([work[l] EXCEPT !.irrelevant = work[l].irrelevant \ {c}])]
  BY <1>1 DEF LQ!Insert, Works, LQ!Idle
<1>4. /\ DOMAIN labels' = DOMAIN labels \cup {<<i, c>>}
      /\ labels'[<<i, c>>] = [relevance |-> relevance, by |-> l]
      /\ \A key \in DOMAIN labels : key # <<i, c>> => labels'[key] = labels[key]
  BY <1>3 DEF LQ!Put
\* What the request has left, if it is not done.
<1>5. w = LQ!Idle \/ (w.at = "insert" /\ w.item = i)
  BY <1>1, <1>3 DEF LQ!Shorter, Works, LQ!Idle
<1>6. relevance = 2 =>
        /\ c \in queue[i].relevant /\ work[l].irrelevant = queue[i].irrelevant
        /\ w = LQ!Idle => work[l].relevant \subseteq {c} /\ work[l].irrelevant = {}
        /\ w # LQ!Idle => w.relevant = work[l].relevant \ {c}
                        /\ w.irrelevant = work[l].irrelevant
  BY <1>1, <1>3 DEF LQ!Shorter, Works, LQ!Idle, LabelInv, Assigned
<1>7. relevance = 0 =>
        /\ c \in queue[i].irrelevant /\ work[l].relevant = {}
        /\ w = LQ!Idle => work[l].irrelevant \subseteq {c}
        /\ w # LQ!Idle => w.relevant = {} /\ w.irrelevant = work[l].irrelevant \ {c}
  BY <1>1, <1>3 DEF LQ!Shorter, Works, LQ!Idle, LabelInv, Assigned
<1>8. work' \in [Labeler -> Works]
  BY <1>1, <1>3 DEF LQ!Shorter, Works, LQ!Idle
<1>9. Typed'
  BY <1>1, <1>4, <1>8 DEF LabelInv, Typed
<1>10. Assigned'
  <2> SUFFICES ASSUME NEW m \in Labeler, work'[m].at = "insert"
               PROVE  /\ work'[m].item \in DOMAIN queue
                      /\ queue[work'[m].item].status = "labeled"
                      /\ queue[work'[m].item].labeledBy = m
                      /\ work'[m].relevant \subseteq queue[work'[m].item].relevant
                      /\ work'[m].irrelevant \subseteq queue[work'[m].item].irrelevant
                      /\ work'[m].relevant # {} =>
                           work'[m].irrelevant = queue[work'[m].item].irrelevant
    BY <1>1 DEF Assigned
  <2>1. CASE m # l
    BY <1>2, <2>1 DEF LabelInv, Assigned
  <2>2. CASE m = l
    BY <1>1, <1>3, <1>5, <1>6, <1>7, <2>2 DEF LabelInv, Assigned, LQ!Idle
  <2> QED BY <2>1, <2>2
<1>11. ClaimerLabels'
  BY <1>1 DEF LabelInv, ClaimerLabels
<1>12. Truthful'
  <2> SUFFICES ASSUME NEW j \in DOMAIN queue, NEW d \in Candidate, <<j, d>> \in DOMAIN labels'
               PROVE  /\ queue[j].status = "labeled"
                      /\ labels'[<<j, d>>].by = queue[j].labeledBy
                      /\ d \in IF labels'[<<j, d>>].relevance = 2
                              THEN queue[j].relevant ELSE queue[j].irrelevant
    BY <1>1 DEF Truthful
  <2>1. CASE <<j, d>> = <<i, c>>
    BY <1>1, <1>3, <1>4, <1>6, <1>7, <2>1
  <2>2. CASE <<j, d>> # <<i, c>>
    BY <1>4, <2>2 DEF LabelInv, Truthful
  <2> QED BY <2>1, <2>2
<1>13. Accounted'
  <2> SUFFICES ASSUME NEW j \in DOMAIN queue, queue[j].status = "labeled", j \notin broken
               PROVE  /\ \A d \in queue[j].relevant :
                           \/ <<j, d>> \in DOMAIN labels'
                           \/ \E m \in Labeler : OnIt(m, j)' /\ d \in work'[m].relevant
                      /\ \A d \in queue[j].irrelevant :
                           \/ <<j, d>> \in DOMAIN labels' /\ labels'[<<j, d>>].relevance = 0
                           \/ \E m \in Labeler : OnIt(m, j)' /\ d \in work'[m].irrelevant
    BY <1>1 DEF Accounted
  <2>1. CASE j # i
    <3>1. \A m \in Labeler : OnIt(m, j) => m # l
      BY <2>1 DEF OnIt
    <3>2. \A d : <<j, d>> \in DOMAIN labels =>
            <<j, d>> \in DOMAIN labels' /\ labels'[<<j, d>>] = labels[<<j, d>>]
      BY <1>4, <2>1
    <3> QED BY <1>2, <3>1, <3>2 DEF LabelInv, Accounted, OnIt
  <2>2. CASE j = i
    <3>1. \A d \in queue[i].relevant : <<i, d>> \in DOMAIN labels \/ d \in work[l].relevant
      BY <1>1, <1>2, <2>2 DEF LabelInv, Accounted
    <3>2. \A d \in queue[i].irrelevant :
            \/ <<i, d>> \in DOMAIN labels /\ labels[<<i, d>>].relevance = 0
            \/ d \in work[l].irrelevant
      BY <1>1, <1>2, <2>2 DEF LabelInv, Accounted
    <3>3. \A d : d # c => (<<i, d>> \in DOMAIN labels =>
            <<i, d>> \in DOMAIN labels' /\ labels'[<<i, d>>] = labels[<<i, d>>])
      BY <1>4
    <3>4. CASE relevance = 2
      BY <1>4, <1>5, <1>6, <2>2, <3>1, <3>2, <3>3, <3>4 DEF OnIt
    <3>5. CASE relevance = 0
      BY <1>4, <1>5, <1>7, <2>2, <3>1, <3>2, <3>3, <3>5 DEF OnIt
    <3> QED BY <1>3, <3>4, <3>5
  <2> QED BY <2>1, <2>2
<1> QED BY <1>9, <1>10, <1>11, <1>12, <1>13 DEF LabelInv

\* A failing insert ends the request and is written down in broken.
LEMMA InsertFailsStep ==
  ASSUME LabelInv, NEW l \in Labeler, LQ!InsertFails(l)
  PROVE  LabelInv'
<1>1. /\ work \in [Labeler -> Works] /\ work[l].at = "insert"
      /\ work' = [work EXCEPT ![l] = LQ!Idle]
      /\ broken' = broken \cup {work[l].item}
      /\ UNCHANGED <<queue, labels, evaluations, search>>
      /\ work[l].item \in DOMAIN queue
  BY DEF LQ!InsertFails, LabelInv, Typed, Assigned
<1>2. work'[l].at # "insert" /\ \A m \in Labeler : m # l => work'[m] = work[m]
  BY <1>1 DEF LQ!Idle
<1>3. Typed'
  BY <1>1 DEF LabelInv, Typed, Works
<1>4. Assigned' /\ ClaimerLabels' /\ Truthful'
  BY <1>1, <1>2 DEF LabelInv, Assigned, ClaimerLabels, Truthful
<1>5. Accounted'
  <2>1. \A j, m : j \notin broken' /\ m \in Labeler /\ OnIt(m, j) => m # l
    BY <1>1 DEF OnIt
  <2> QED BY <1>1, <1>2, <2>1 DEF LabelInv, Accounted, OnIt
<1> QED BY <1>3, <1>4, <1>5 DEF LabelInv

LEMMA LabelStepInv == LabelInv /\ [LQ!Next]_(LQ!vars) => LabelInv'
<1> SUFFICES ASSUME LabelInv, [LQ!Next]_(LQ!vars) PROVE LabelInv'
  OBVIOUS
<1>1. ASSUME NEW q \in Question,
             \/ LQ!Retrieve(q) \/ LQ!Score(q) \/ LQ!AppendCompleted(q) \/ LQ!AppendFailed(q)
             \/ LQ!Weigh(q)
      PROVE  LabelInv'
  BY <1>1, SearchStep
<1>2. ASSUME NEW l \in Labeler, NEW i \in DOMAIN queue, LQ!Claim(l, i) PROVE LabelInv'
  BY <1>2, ClaimStep
<1>3. ASSUME NEW l \in Labeler, NEW i \in DOMAIN queue, LQ!Label(l, i) PROVE LabelInv'
  BY <1>3, LabelStep
<1>4. ASSUME NEW l \in Labeler, LQ!Insert(l) PROVE LabelInv'
  BY <1>4, InsertStep
<1>5. ASSUME NEW l \in Labeler, LQ!InsertFails(l) PROVE LabelInv'
  BY <1>5, InsertFailsStep
<1>6. CASE UNCHANGED LQ!vars
  BY <1>6, OutsideStep DEF LQ!vars, LabelInv, Typed
<1> QED BY <1>1, <1>2, <1>3, <1>4, <1>5, <1>6 DEF LQ!Next

-----------------------------------------------------------------------------
LEMMA LabelsAreTyped == LabelInv => LQ!TypeOK
<1> SUFFICES ASSUME LabelInv PROVE LQ!TypeOK
  OBVIOUS
<1>1. \A i \in DOMAIN queue : queue[i] \in Items
  BY DEF LabelInv, Typed
<1>2. \A q \in Question : search[q] \in Searches
  BY DEF LabelInv, Typed
<1>3. \A l \in Labeler : work[l] \in Works
  BY DEF LabelInv, Typed
<1>4. \A i \in DOMAIN queue :
        /\ queue[i].status \in LQ!Open \cup {"labeled"}
        /\ queue[i].claimedBy \in Labeler \cup {Nobody}
        /\ queue[i].relevant \cup queue[i].irrelevant \subseteq Candidate
  BY <1>1 DEF Items
<1>5. \A q \in Question : search[q].at \in {"idle", "score", "completed", "failed", "weigh"}
  BY <1>2 DEF Searches, LQ!Idle
<1>6. \A l \in Labeler : work[l].at \in {"idle", "insert"}
  BY <1>3 DEF Works, LQ!Idle
<1> QED BY <1>4, <1>5, <1>6 DEF LabelInv, Typed, LQ!TypeOK

\* The queue, its labels and the requests have the code's shape, for any number
\* of questions, candidates, colleagues, rows and failures.
THEOREM LabelQueueTyped == LQ!Spec => []LQ!TypeOK
BY LabelInit, LabelStepInv, LabelsAreTyped, PTL DEF LQ!Spec

LEMMA VerdictsHold == LabelInv => LQ!TrainingLabelsAreTheVerdict
<1> SUFFICES ASSUME LabelInv PROVE LQ!TrainingLabelsAreTheVerdict
  OBVIOUS
<1>1. ASSUME NEW key \in DOMAIN labels
      PROVE  /\ queue[key[1]].status = "labeled"
             /\ labels[key].by = queue[key[1]].labeledBy
             /\ queue[key[1]].claimedBy \in {Nobody, queue[key[1]].labeledBy}
             /\ key[2] \in IF labels[key].relevance = 2
                           THEN queue[key[1]].relevant ELSE queue[key[1]].irrelevant
  <2>1. key = <<key[1], key[2]>> /\ key[1] \in DOMAIN queue /\ key[2] \in Candidate
    BY DEF LabelInv, Typed
  <2> QED BY <2>1 DEF LabelInv, Truthful, ClaimerLabels
<1>2. ASSUME NEW i \in DOMAIN queue, queue[i].status = "labeled", ~LQ!Inserting(i),
             i \notin broken, NEW c \in queue[i].relevant \cup queue[i].irrelevant
      PROVE  /\ <<i, c>> \in DOMAIN labels
             /\ labels[<<i, c>>].relevance = 0 <=> c \in queue[i].irrelevant
  <2>1. c \in Candidate
    <3>1. queue[i] \in Items
      BY DEF LabelInv, Typed
    <3> QED BY <3>1 DEF Items
  <2>2. \A l \in Labeler : ~OnIt(l, i)
    BY <1>2 DEF LQ!Inserting, OnIt
  <2> QED BY <1>2, <2>1, <2>2 DEF LabelInv, Accounted, Truthful
<1> QED BY <1>1, <1>2 DEF LQ!TrainingLabelsAreTheVerdict

\* However many colleagues claim and label at once and wherever an insert fails:
\* every training label states the verdict of the colleague it names, and a
\* verdict no failure cut off is there in full once its request is done
\* (PostgresRetrievalLabelQueueRepository.label).
THEOREM VerdictsAreLearned == LQ!Spec => []LQ!TrainingLabelsAreTheVerdict
BY LabelInit, LabelStepInv, VerdictsHold, PTL DEF LQ!Spec
-----------------------------------------------------------------------------
(***************************************************************************)
(* The search in the knowledge base, whatever rows its statements match    *)
(* and whatever the fusion keeps of them.                                  *)
(*                                                                         *)
(* HitsWereApproved is not inductive: a statement of the search adds what  *)
(* is searchable when it is executed.  NoneMissed says that `shown' has    *)
(* all of that as long as the search reads.                                *)
(***************************************************************************)

Readings == [at : {"idle", "answered"}, hits : SUBSET Item]
              \cup [at : {"reading"}, hits : SUBSET Item, trusted : SUBSET Source,
                    open : SUBSET KI!Readers]

Shaped == /\ items = [i \in Item |-> items[i]]
          /\ search \in Readings

NoneMissed ==
  search.at = "reading" => \A i \in Item : KI!Searchable(items[i]) => i \in shown

HitsInv == Shaped /\ NoneMissed /\ KI!HitsWereApproved

-----------------------------------------------------------------------------
\* A row is written by ingestions, archivals and expiries: what becomes
\* searchable by it is remembered in `shown', and nothing is forgotten.
LEMMA StoreKeeps ==
  ASSUME HitsInv, NEW i \in Item, NEW row, KI!Store(i, row), UNCHANGED search
  PROVE  HitsInv'
<1>1. Shaped'
  BY DEF HitsInv, Shaped, KI!Store
<1>2. shown \subseteq shown'
  BY DEF KI!Store
<1>3. NoneMissed'
  <2>1. \A j \in Item : items'[j] = IF j = i THEN row ELSE items[j]
    BY DEF HitsInv, Shaped, KI!Store
  <2>2. KI!Searchable(row) => i \in shown'
    BY DEF KI!Store
  <2> QED BY <1>2, <2>1, <2>2 DEF HitsInv, NoneMissed
<1>4. KI!HitsWereApproved'
  BY <1>2 DEF HitsInv, KI!HitsWereApproved
<1> QED BY <1>1, <1>3, <1>4 DEF HitsInv

\* What touches neither the items nor the search keeps the invariant.
LEMMA AsideKeeps ==
  ASSUME HitsInv, UNCHANGED <<items, search, shown>>
  PROVE  HitsInv'
BY DEF HitsInv, Shaped, NoneMissed, KI!HitsWereApproved, KI!Searchable, KI!Absent

-----------------------------------------------------------------------------
\* A search starts with the items that are searchable at that moment.
LEMMA BeginKeeps == HitsInv /\ KI!BeginSearch => HitsInv'
<1> SUFFICES ASSUME HitsInv, KI!BeginSearch PROVE HitsInv'
  OBVIOUS
<1>1. Shaped'
  BY DEF HitsInv, Shaped, KI!BeginSearch, Readings
<1>2. NoneMissed' /\ KI!HitsWereApproved'
  BY DEF KI!BeginSearch, NoneMissed, KI!HitsWereApproved, KI!Searchable, KI!Absent
<1> QED BY <1>1, <1>2 DEF HitsInv

\* A statement reads rows that are searchable when it is executed.
LEMMA ReadKeeps ==
  ASSUME NEW reader, HitsInv, KI!ReadRows(reader)
  PROVE  HitsInv'
<1>1. search \in [at : {"reading"}, hits : SUBSET Item, trusted : SUBSET Source,
                  open : SUBSET KI!Readers]
  BY DEF HitsInv, Shaped, Readings, KI!ReadRows
<1>2. PICK matching \in SUBSET Item :
        search' = [search EXCEPT
                     !.hits = @ \cup IF reader = "semantic" THEN KI!VectorRows(matching)
                                     ELSE KI!TextRows(matching),
                     !.open = @ \ {reader}]
  BY DEF KI!ReadRows
<1> DEFINE rows == IF reader = "semantic" THEN KI!VectorRows(matching) ELSE KI!TextRows(matching)
<1>3. rows \subseteq Item /\ \A i \in rows : KI!Searchable(items[i])
  BY DEF KI!VectorRows, KI!TextRows
<1>4. rows \subseteq shown
  BY <1>3 DEF HitsInv, NoneMissed, KI!ReadRows
<1> HIDE DEF rows
<1>5. search'.at = "reading" /\ search'.hits = search.hits \cup rows /\ search' \in Readings
  BY <1>1, <1>2, <1>3 DEF Readings, rows
<1>6. UNCHANGED <<items, shown>>
  BY DEF KI!ReadRows
<1>7. Shaped' /\ NoneMissed'
  BY <1>1, <1>5, <1>6 DEF HitsInv, Shaped, NoneMissed, KI!Searchable, KI!Absent
<1>8. KI!HitsWereApproved'
  BY <1>4, <1>5, <1>6 DEF HitsInv, KI!HitsWereApproved
<1> QED BY <1>7, <1>8 DEF HitsInv

\* The fusion only drops hits.
LEMMA FuseKeeps == HitsInv /\ KI!Fuse => HitsInv'
<1> SUFFICES ASSUME HitsInv, KI!Fuse PROVE HitsInv'
  OBVIOUS
<1>1. PICK hits \in SUBSET search.hits : search' = [at |-> "answered", hits |-> hits]
  BY DEF KI!Fuse
<1>2. search.hits \subseteq Item /\ UNCHANGED <<items, shown>>
  BY DEF HitsInv, Shaped, Readings, KI!Fuse
<1>3. Shaped' /\ NoneMissed' /\ KI!HitsWereApproved'
  BY <1>1, <1>2 DEF HitsInv, Shaped, Readings, NoneMissed, KI!HitsWereApproved
<1> QED BY <1>3 DEF HitsInv

\* The sources that are read leave the hits as they are.
LEMMA SourcesKeep == HitsInv /\ KI!ReadSources => HitsInv'
<1> SUFFICES ASSUME HitsInv, KI!ReadSources PROVE HitsInv'
  OBVIOUS
<1>1. search \in [at : {"reading"}, hits : SUBSET Item, trusted : SUBSET Source,
                  open : SUBSET KI!Readers]
  BY DEF HitsInv, Shaped, Readings, KI!ReadSources
<1>2. /\ search'.at = "reading" /\ search'.hits = search.hits /\ search' \in Readings
      /\ UNCHANGED <<items, shown>>
  BY <1>1 DEF Readings, KI!ReadSources
<1>3. Shaped' /\ NoneMissed' /\ KI!HitsWereApproved'
  BY <1>1, <1>2 DEF HitsInv, Shaped, NoneMissed, KI!HitsWereApproved, KI!Searchable, KI!Absent
<1> QED BY <1>3 DEF HitsInv

-----------------------------------------------------------------------------
LEMMA HitsStart == KI!Init => HitsInv
BY DEF KI!Init, HitsInv, Shaped, Readings, KI!Quiet, NoneMissed, KI!HitsWereApproved

LEMMA HitsHold == HitsInv => KI!HitsWereApproved
BY DEF HitsInv

\* One step: of an ingestion, of another writer, of the search.
LEMMA HitsStep ==
  ASSUME HitsInv, [KI!Next]_(KI!vars)
  PROVE  HitsInv'
<1>1. CASE \E g \in Ingester : KI!UpsertRecord(g)
  <2>1. PICK g \in Ingester : KI!UpsertRecord(g)
    BY <1>1
  <2>2. KI!Store(KI!Entry(g).item, KI!Ingested(KI!Entry(g))) /\ UNCHANGED search
    BY <2>1 DEF KI!UpsertRecord
  <2>3. CASE KI!Entry(g).item \in Item
    BY <2>2, <2>3, StoreKeeps
  <2>4. CASE KI!Entry(g).item \notin Item
    <3>1. items' = items /\ shown \subseteq shown'
      BY <2>2, <2>4 DEF HitsInv, Shaped, KI!Store
    <3> QED BY <2>2, <3>1 DEF HitsInv, Shaped, NoneMissed, KI!HitsWereApproved
  <2> QED BY <2>3, <2>4
<1>2. CASE \E i \in Item : KI!Archive(i) \/ KI!Expire(i)
  BY <1>2, StoreKeeps DEF KI!Archive, KI!Expire
<1>3. CASE \E g \in Ingester : \/ KI!StartIngestion(g) \/ KI!UpsertSource(g) \/ KI!Embed(g)
                               \/ KI!UpsertVector(g) \/ KI!IngestionFails(g)
  BY <1>3, AsideKeeps DEF KI!StartIngestion, KI!UpsertSource, KI!Embed, KI!UpsertVector,
                          KI!IngestionFails
<1>4. CASE \E s \in Source : KI!SwitchSource(s)
  BY <1>4, AsideKeeps DEF KI!SwitchSource
<1>5. CASE \/ KI!BeginSearch \/ KI!Fuse \/ KI!ReadSources
           \/ \E reader \in KI!Readers \ {"sources"} : KI!ReadRows(reader)
  BY <1>5, BeginKeeps, FuseKeeps, SourcesKeep, ReadKeeps
<1>6. CASE KI!EndSearch
  BY <1>6 DEF KI!EndSearch, KI!Quiet, HitsInv, Shaped, Readings, NoneMissed, KI!HitsWereApproved
<1>7. CASE UNCHANGED KI!vars
  BY <1>7, AsideKeeps DEF KI!vars
<1> QED BY <1>1, <1>2, <1>3, <1>4, <1>5, <1>6, <1>7 DEF KI!Next

\* No answer rests on an item that was at no moment of its search both
\* approved and valid (search in packages/knowledge/src/index.ts).
THEOREM AnswersRestOnApproved == KI!Spec => []KI!HitsWereApproved
<1>1. HitsInv /\ [KI!Next]_(KI!vars) => HitsInv'
  BY HitsStep
<1> QED BY HitsStart, <1>1, HitsHold, PTL DEF KI!Spec

-----------------------------------------------------------------------------
(* What the index, its vectors and its ingestions can be.                  *)

\* What the datasets hold: texts of items.
Entries == UNION {{dataset[i] : i \in DOMAIN dataset} : dataset \in Datasets}

DatasetsOfItems ==
  /\ \A dataset \in Datasets : dataset \in Seq(Entries)
  /\ \A entry \in Entries : entry.item \in Item /\ entry.text \in Text

Rows == [text : Text, review : {"approved", "archived"}, valid : BOOLEAN,
         source : {entry.source : entry \in Entries}]

Ingestions == [at : {"source", "record", "embed", "vector"}, todo : Seq(Entries) \ {<<>>}]

IndexTyped ==
  /\ items \in [Item -> Rows \cup {KI!Absent}]
  /\ vectors \in [Item -> Text \cup {NoItem}]
  /\ run = [g \in Ingester |-> run[g]]
  /\ \A g \in Ingester : run[g].at \in {"new", "done"} \/ run[g] \in Ingestions

LEMMA FirstNumber == ASSUME NEW S \in SUBSET Nat, S # {} PROVE KI!Min(S) \in S
<1>1. PICK m \in S : \A y \in S : ~ (<<y, m>> \in OpToRel(<, Nat))
  BY NatLessThanWellFounded, WFMin
<1>2. \A y \in S : y \in Nat /\ ~ (y < m)
  BY <1>1 DEF OpToRel
<1>3. \A y \in S : m <= y
  BY <1>2
<1> QED BY <1>3 DEF KI!Min

\* The loop goes on with entries of the dataset.
LEMMA LoopTyped ==
  ASSUME NEW todo \in Seq(Entries)
  PROVE  KI!Loop(todo).at = "done" \/ KI!Loop(todo) \in Ingestions
<1> DEFINE published == {i \in DOMAIN todo : todo[i].published}
<1>1. CASE published = {}
  BY <1>1 DEF KI!Loop, KI!Finished
<1>2. CASE published # {}
  <2>1. published \in SUBSET Nat /\ published \subseteq 1..Len(todo)
    OBVIOUS
  <2>2. PICK n : n = KI!Min(published)
    OBVIOUS
  <2>3. n \in 1..Len(todo)
    BY <1>2, <2>1, <2>2, FirstNumber
  <2>4. SubSeq(todo, n, Len(todo)) \in Seq(Entries) /\ SubSeq(todo, n, Len(todo)) # <<>>
    <3>1. PICK rest : rest = SubSeq(todo, n, Len(todo))
      OBVIOUS
    <3>2. rest \in Seq(Entries) /\ Len(rest) = Len(todo) - n + 1
      BY <2>3, <3>1
    <3>3. Len(rest) # 0
      BY <2>3, <3>2
    <3>4. rest # <<>>
      BY <3>3
    <3> QED BY <3>1, <3>2, <3>4
  <2>5. KI!Loop(todo) = [at |-> "source", todo |-> SubSeq(todo, n, Len(todo))]
    BY <1>2, <2>2 DEF KI!Loop
  <2> QED BY <2>4, <2>5 DEF Ingestions
<1> QED BY <1>1, <1>2

LEMMA IndexStart == KI!Init => IndexTyped
BY DEF KI!Init, IndexTyped

LEMMA EntryTyped ==
  ASSUME DatasetsOfItems, IndexTyped, NEW g \in Ingester,
         run[g].at \in {"source", "record", "embed", "vector"}
  PROVE  /\ run[g] \in Ingestions /\ KI!Entry(g) \in Entries
         /\ KI!Entry(g).item \in Item /\ KI!Entry(g).text \in Text
         /\ Tail(run[g].todo) \in Seq(Entries)
<1>1. run[g] \in Ingestions
  BY DEF IndexTyped
<1>2. run[g].todo \in Seq(Entries) /\ run[g].todo # <<>>
  BY <1>1 DEF Ingestions
<1>3. Head(run[g].todo) \in Entries /\ Tail(run[g].todo) \in Seq(Entries)
  BY <1>2
<1> QED BY <1>1, <1>3 DEF DatasetsOfItems, KI!Entry

\* An ingestion that goes on.
LEMMA WentOn ==
  ASSUME IndexTyped, NEW g \in Ingester, NEW to, KI!Go(g, to),
         to.at \in {"new", "done"} \/ to \in Ingestions
  PROVE  /\ run' = [h \in Ingester |-> run'[h]]
         /\ \A h \in Ingester : run'[h].at \in {"new", "done"} \/ run'[h] \in Ingestions
<1>1. run' = [run EXCEPT ![g] = to]
  BY DEF KI!Go
<1>2. run = [h \in Ingester |-> run[h]]
  BY DEF IndexTyped
<1>3. run' = [h \in Ingester |-> IF h = g THEN to ELSE run[h]]
  BY <1>1, <1>2
<1> QED BY <1>3 DEF IndexTyped

LEMMA IngestionTyped ==
  ASSUME DatasetsOfItems, IndexTyped, NEW g \in Ingester,
         \/ KI!StartIngestion(g) \/ KI!UpsertSource(g) \/ KI!UpsertRecord(g)
         \/ KI!Embed(g) \/ KI!UpsertVector(g) \/ KI!IngestionFails(g)
  PROVE  IndexTyped'
<1>1. CASE KI!StartIngestion(g)
  <2>1. PICK dataset \in Datasets : KI!Go(g, KI!Loop(dataset))
    BY <1>1 DEF KI!StartIngestion
  <2>2. KI!Loop(dataset).at \in {"new", "done"} \/ KI!Loop(dataset) \in Ingestions
    BY LoopTyped DEF DatasetsOfItems
  <2>3. UNCHANGED <<items, vectors>>
    BY <1>1 DEF KI!StartIngestion
  <2> QED BY <2>1, <2>2, <2>3, WentOn DEF IndexTyped
<1>2. ASSUME NEW at \in {"record", "embed", "vector"}, KI!Go(g, [run[g] EXCEPT !.at = at]),
             run[g].at \in {"source", "record", "embed", "vector"},
             items' \in [Item -> Rows \cup {KI!Absent}], UNCHANGED vectors
      PROVE  IndexTyped'
  <2>1. [run[g] EXCEPT !.at = at] \in Ingestions
    BY <1>2, EntryTyped DEF Ingestions
  <2> QED BY <1>2, <2>1, WentOn DEF IndexTyped
<1>3. CASE KI!UpsertSource(g) \/ KI!Embed(g)
  BY <1>2, <1>3 DEF KI!UpsertSource, KI!Embed, KI!At, IndexTyped
<1>4. CASE KI!UpsertRecord(g)
  <2>1. run[g].at = "record"
    BY <1>4 DEF KI!UpsertRecord, KI!At
  <2>2. KI!Ingested(KI!Entry(g)) \in Rows
    BY <2>1, EntryTyped DEF KI!Ingested, Rows
  <2>3. items' \in [Item -> Rows \cup {KI!Absent}]
    BY <1>4, <2>2 DEF KI!UpsertRecord, KI!Store, IndexTyped
  <2> QED BY <1>2, <1>4, <2>1, <2>3 DEF KI!UpsertRecord
<1>5. CASE KI!UpsertVector(g)
  <2>1. run[g].at = "vector" /\ KI!Go(g, KI!Loop(Tail(run[g].todo))) /\ UNCHANGED items
        /\ vectors' = [vectors EXCEPT ![KI!Entry(g).item] = KI!Entry(g).text]
    BY <1>5 DEF KI!UpsertVector, KI!At
  <2>2. KI!Loop(Tail(run[g].todo)).at \in {"new", "done"} \/ KI!Loop(Tail(run[g].todo)) \in Ingestions
    BY <2>1, EntryTyped, LoopTyped
  <2>3. vectors' \in [Item -> Text \cup {NoItem}]
    BY <2>1, EntryTyped DEF IndexTyped
  <2> QED BY <2>1, <2>2, <2>3, WentOn DEF IndexTyped
<1>6. CASE KI!IngestionFails(g)
  <2>1. KI!Go(g, [at |-> "new"]) /\ UNCHANGED <<items, vectors>>
    BY <1>6 DEF KI!IngestionFails
  <2> QED BY <2>1, WentOn DEF IndexTyped
<1> QED BY <1>1, <1>3, <1>4, <1>5, <1>6

LEMMA IndexStep ==
  ASSUME DatasetsOfItems, IndexTyped, [KI!Next]_(KI!vars)
  PROVE  IndexTyped'
<1>1. ASSUME NEW i \in Item, KI!Archive(i) \/ KI!Expire(i)
      PROVE  IndexTyped'
  <2>1. items[i] \in Rows
    BY <1>1 DEF KI!Archive, KI!Expire, KI!Stored, IndexTyped
  <2>2. UNCHANGED <<vectors, run>>
        /\ \E row \in Rows : items' = [items EXCEPT ![i] = row]
    BY <1>1, <2>1 DEF KI!Archive, KI!Expire, KI!Store, Rows
  <2> QED BY <2>2 DEF IndexTyped
<1>2. CASE \/ \E s \in Source : KI!SwitchSource(s)
           \/ KI!BeginSearch \/ KI!Fuse \/ KI!EndSearch \/ KI!ReadSources
           \/ \E reader \in KI!Readers \ {"sources"} : KI!ReadRows(reader)
           \/ UNCHANGED KI!vars
  <2>1. UNCHANGED <<items, vectors, run>>
    BY <1>2 DEF KI!SwitchSource, KI!BeginSearch, KI!Fuse, KI!EndSearch, KI!ReadSources, KI!ReadRows,
       KI!vars
  <2> QED BY <2>1 DEF IndexTyped
<1> QED BY <1>1, <1>2, IngestionTyped DEF KI!Next

LEMMA IndexIsTyped == HitsInv /\ IndexTyped => KI!TypeOK
<1> SUFFICES ASSUME HitsInv, IndexTyped PROVE KI!TypeOK
  OBVIOUS
<1>1. search.at \in {"idle", "reading", "answered"} /\ search.hits \subseteq Item
  BY DEF HitsInv, Shaped, Readings
<1>2. \A g \in Ingester : run[g].at \in {"new", "source", "record", "embed", "vector", "done"}
  BY DEF IndexTyped, Ingestions
<1>3. \A i \in Item : KI!Stored(i) => items[i].text \in Text
                                      /\ items[i].review \in {"approved", "archived"}
  BY DEF IndexTyped, KI!Stored, Rows
<1> QED BY <1>1, <1>2, <1>3 DEF KI!TypeOK, IndexTyped

\* However ingestions of several processes, archivals and searches interleave and
\* fail: an item that is stored says one of the texts and is approved or
\* archived, and a vector is that of a text (FaqIngestionService and its like).
THEOREM IndexStaysTyped == ASSUME DatasetsOfItems PROVE KI!Spec => []KI!TypeOK
<1>1. KI!Init => HitsInv /\ IndexTyped
  BY HitsStart, IndexStart
<1>2. HitsInv /\ IndexTyped /\ [KI!Next]_(KI!vars) => (HitsInv /\ IndexTyped)'
  BY HitsStep, IndexStep
<1> QED BY <1>1, <1>2, IndexIsTyped, PTL DEF KI!Spec

-----------------------------------------------------------------------------
(***************************************************************************)
(* The definitions and the run rows of a connector.                        *)
(*                                                                         *)
(* That a definition the back office changed stays changed rests on what a *)
(* process that is about to seed still believes: SeedsUnmade says that it  *)
(* is right, unless another process seeded beside it.  That a run blames   *)
(* its source only after every attempt rests on InHand: the row of a run   *)
(* under way is still as its process left it, since no other process holds *)
(* the same run (OwnRuns).                                                 *)
(***************************************************************************)
RunRows == [status : {"running", "skipped", "succeeded", "failed"},
            attempts : 0..MaxAttempts, cause : {"none", "fetch", "record"}]

Occupations == [at : {"rest", "fetch", "give up", "normalise"}, run : Nat]

RuntimeTyped ==
  /\ runs \in Seq(RunRows)
  /\ pod \in [Pod -> [at : {"down", "look", "seed", "schedule", "up"}, timer : BOOLEAN]]
  /\ work \in [Pod -> Occupations]
  /\ edits \in Nat

InHand ==
  \A p \in Pod :
    LET row == runs[work[p].run] IN
    /\ work[p].at # "rest" => /\ work[p].run \in DOMAIN runs
                              /\ row.status = "running" /\ row.cause = "none"
    /\ work[p].at = "fetch"   => row.attempts < MaxAttempts
    /\ work[p].at = "give up" => row.attempts = MaxAttempts

AtRest == \A p \in Pod : work[p].at = "rest" => work[p].run = 0

OwnRuns ==
  \A p, q \in Pod : p # q /\ work[p].at # "rest" => work[p].run # work[q].run

SeedsUnmade ==
  /\ edits > 0 => definition.made
  /\ \A p \in Pod : pod[p].at \in {"schedule", "up"} => definition.made
  /\ \A p \in Pod : pod[p].at = "seed" => raced \/ ~definition.made

RuntimeInv == /\ RuntimeTyped /\ InHand /\ AtRest /\ OwnRuns /\ SeedsUnmade
              /\ CR!DefinitionsAndRunsKept

\* The policy of a connector tries at least once.
RuntimeConstants == MaxAttempts \in Nat \ {0}

LEMMA RunsAreCounted == RuntimeInv => 0 \notin DOMAIN runs
BY DEF RuntimeInv, RuntimeTyped

\* The start of a process and the back office leave the runs alone.
LEMMA StartingKeeps ==
  ASSUME RuntimeConstants, RuntimeInv, NEW p \in Pod,
         \/ CR!Start(p) \/ CR!Look(p) \/ CR!Seed(p) \/ CR!Schedule(p)
         \/ \E enabled, scheduled \in BOOLEAN : CR!Edit(p, enabled, scheduled)
  PROVE  RuntimeInv'
<1>1. UNCHANGED <<runs, work, lost>>
  BY DEF CR!Start, CR!Look, CR!Seed, CR!Schedule, CR!Edit
<1>2. InHand' /\ AtRest' /\ OwnRuns'
  BY <1>1 DEF InHand, AtRest, OwnRuns, RuntimeInv
<1>3. /\ RuntimeTyped /\ SeedsUnmade /\ edits \in Nat
      /\ edits > 0 /\ ~raced => definition.edited
  BY DEF RuntimeInv, RuntimeTyped, RuntimeConstants, CR!DefinitionsAndRunsKept
<1>4. RuntimeTyped' /\ SeedsUnmade' /\ (edits > 0 /\ ~raced => definition.edited)'
  <2>1. CASE CR!Start(p)
    BY <1>1, <1>3, <2>1 DEF CR!Start, RuntimeTyped, SeedsUnmade, CR!Rest
  <2>2. CASE CR!Look(p)
    BY <1>1, <1>3, <2>2 DEF CR!Look, CR!Missing, RuntimeTyped, SeedsUnmade, CR!Rest
  <2>3. CASE CR!Seed(p)
    BY <1>1, <1>3, <2>3 DEF CR!Seed, RuntimeTyped, SeedsUnmade, RuntimeConstants, CR!Rest
  <2>4. CASE CR!Schedule(p)
    BY <1>1, <1>3, <2>4 DEF CR!Schedule, RuntimeTyped, SeedsUnmade, CR!Rest
  <2>5. CASE \E enabled, scheduled \in BOOLEAN : CR!Edit(p, enabled, scheduled)
    BY <1>1, <1>3, <2>5 DEF CR!Edit, RuntimeTyped, SeedsUnmade, RuntimeConstants, CR!Rest
  <2> QED BY <2>1, <2>2, <2>3, <2>4, <2>5
<1>5. CR!DefinitionsAndRunsKept'
  BY <1>1, <1>4 DEF RuntimeInv, CR!DefinitionsAndRunsKept
<1> QED BY <1>2, <1>4, <1>5 DEF RuntimeInv

\* A run that begins gets a row no other process holds.
LEMMA SynchroniseKeeps ==
  ASSUME RuntimeConstants, RuntimeInv, NEW p \in Pod, CR!Synchronise(p)
  PROVE  RuntimeInv'
<1> DEFINE row  == [status |-> IF definition.enabled THEN "running" ELSE "skipped",
                    attempts |-> 0, cause |-> "none"]
           next == IF definition.enabled THEN [at |-> "fetch", run |-> Len(runs) + 1]
                                         ELSE CR!Rest
<1>1. /\ row \in RunRows /\ row.attempts = 0 /\ row.cause = "none"
      /\ row.status = IF definition.enabled THEN "running" ELSE "skipped"
  BY DEF RunRows, RuntimeConstants
<1>2. runs \in Seq(RunRows) /\ runs' = Append(runs, row) /\ Len(runs) \in Nat
  BY DEF RuntimeInv, RuntimeTyped, CR!Synchronise
<1>3. /\ next \in Occupations
      /\ IF definition.enabled THEN next.at = "fetch" /\ next.run = Len(runs) + 1
                               ELSE next.at = "rest" /\ next.run = 0
  BY <1>2 DEF Occupations, CR!Rest
<1>4. /\ work[p].at = "rest" /\ work' = [work EXCEPT ![p] = next]
      /\ UNCHANGED <<definition, pod, edits, raced, lost>>
  BY DEF CR!Synchronise, CR!Rest
<1> HIDE DEF row, next
<1>5. /\ runs' \in Seq(RunRows) /\ DOMAIN runs' = DOMAIN runs \cup {Len(runs) + 1}
      /\ Len(runs) + 1 \notin DOMAIN runs \cup {0}
      /\ runs'[Len(runs) + 1] = row /\ \A i \in DOMAIN runs : runs'[i] = runs[i]
  BY <1>1, <1>2
<1>6. /\ work' \in [Pod -> Occupations] /\ work'[p] = next
      /\ \A q \in Pod : q # p => work'[q] = work[q]
  BY <1>3, <1>4 DEF RuntimeInv, RuntimeTyped
<1>7. \A q \in Pod : work[q].run \in DOMAIN runs \cup {0}
  <2> TAKE q \in Pod
  <2>1. CASE work[q].at = "rest"
    BY <2>1 DEF RuntimeInv, AtRest
  <2>2. CASE work[q].at # "rest"
    BY <2>2 DEF RuntimeInv, InHand
  <2> QED BY <2>1, <2>2
<1>8. RuntimeTyped' /\ SeedsUnmade'
  BY <1>4, <1>5, <1>6 DEF RuntimeInv, RuntimeTyped, SeedsUnmade
<1>9. InHand' /\ AtRest'
  <2>1. InHand'
    <3> SUFFICES ASSUME NEW q \in Pod, work'[q].at # "rest"
                 PROVE  LET mine == runs'[work'[q].run] IN
                        /\ work'[q].run \in DOMAIN runs'
                        /\ mine.status = "running" /\ mine.cause = "none"
                        /\ work'[q].at = "fetch"   => mine.attempts < MaxAttempts
                        /\ work'[q].at = "give up" => mine.attempts = MaxAttempts
      BY DEF InHand
    <3>1. CASE q = p
      <4>1. work'[q].at = "fetch" /\ work'[q].run = Len(runs) + 1 /\ row.status = "running"
        BY <1>1, <1>3, <1>6, <3>1
      <4> QED BY <1>1, <1>5, <4>1 DEF RuntimeConstants
    <3>2. CASE q # p
      <4>1. work'[q] = work[q]
        BY <1>6, <3>2
      <4> QED BY <1>5, <4>1 DEF RuntimeInv, InHand
    <3> QED BY <3>1, <3>2
  <2>2. AtRest'
    BY <1>3, <1>6 DEF RuntimeInv, AtRest
  <2> QED BY <2>1, <2>2
<1>10. OwnRuns'
  <2> SUFFICES ASSUME NEW a \in Pod, NEW b \in Pod, a # b, work'[a].at # "rest"
               PROVE  work'[a].run # work'[b].run
    BY DEF OwnRuns
  <2>1. CASE a # p /\ b # p
    BY <1>6, <2>1 DEF RuntimeInv, OwnRuns
  <2>2. CASE a = p
    <3>1. work'[a].run = Len(runs) + 1
      BY <1>3, <1>6, <2>2
    <3>2. work'[b].run \in DOMAIN runs \cup {0}
      BY <1>6, <1>7, <2>2
    <3> QED BY <1>5, <3>1, <3>2
  <2>3. CASE b = p
    <3>1. work'[b].run \in {0, Len(runs) + 1}
      BY <1>3, <1>6, <2>3
    <3>2. work'[a].run \in DOMAIN runs
      BY <1>6, <2>3 DEF RuntimeInv, InHand
    <3> QED BY <1>5, <3>1, <3>2
  <2> QED BY <2>1, <2>2, <2>3
<1>11. CR!DefinitionsAndRunsKept'
  <2>1. work[p].run \notin DOMAIN runs
    BY <1>2, <1>4 DEF RuntimeInv, AtRest
  <2>2. \A i \in DOMAIN runs : runs[i].status = "running" =>
          i \in lost \/ \E q \in Pod : work'[q].run = i
    BY <1>5, <1>6, <2>1 DEF RuntimeInv, CR!DefinitionsAndRunsKept, RuntimeTyped
  <2> QED BY <1>1, <1>3, <1>4, <1>5, <1>6, <2>2 DEF RuntimeInv, CR!DefinitionsAndRunsKept
<1> QED BY <1>8, <1>9, <1>10, <1>11 DEF RuntimeInv

\* What one step of a run makes of its row and leaves in the hands of the process.
Advances(p, row, next) ==
  /\ row.cause = "fetch" => row.attempts = MaxAttempts
  /\ next.at = "rest" => next.run = 0 /\ row.status # "running"
  /\ next.at # "rest" => next.run = work[p].run /\ row.status = "running" /\ row.cause = "none"
  /\ next.at = "fetch"   => row.attempts < MaxAttempts
  /\ next.at = "give up" => row.attempts = MaxAttempts

LEMMA AdvanceKeeps ==
  ASSUME RuntimeInv, NEW p \in Pod, work[p].at # "rest",
         NEW row \in RunRows, NEW next \in Occupations, Advances(p, row, next),
         runs' = [runs EXCEPT ![work[p].run] = row], work' = [work EXCEPT ![p] = next],
         UNCHANGED <<definition, pod, edits, raced, lost>>
  PROVE  RuntimeInv'
<1> DEFINE i == work[p].run
<1>1. i \in DOMAIN runs /\ runs \in Seq(RunRows) /\ work \in [Pod -> Occupations]
  BY DEF RuntimeInv, RuntimeTyped, InHand
<1>2. /\ runs' \in Seq(RunRows) /\ DOMAIN runs' = DOMAIN runs /\ runs'[i] = row
      /\ \A j \in DOMAIN runs : j # i => runs'[j] = runs[j]
  BY <1>1
<1>3. /\ work' \in [Pod -> Occupations] /\ work'[p] = next
      /\ \A q \in Pod : q # p => work'[q] = work[q]
  BY <1>1
<1>4. \A q \in Pod : q # p => work[q].run # i
  BY DEF RuntimeInv, OwnRuns
<1>5. RuntimeTyped' /\ SeedsUnmade'
  BY <1>2, <1>3 DEF RuntimeInv, RuntimeTyped, SeedsUnmade
<1>6. InHand' /\ AtRest'
  <2>1. InHand'
    BY <1>1, <1>2, <1>3, <1>4 DEF RuntimeInv, InHand, Advances
  <2>2. AtRest'
    BY <1>3 DEF RuntimeInv, AtRest, Advances
  <2> QED BY <2>1, <2>2
<1>7. OwnRuns'
  <2> SUFFICES ASSUME NEW a \in Pod, NEW b \in Pod, a # b, work'[a].at # "rest"
               PROVE  work'[a].run # work'[b].run
    BY DEF OwnRuns
  <2>2. CASE a # p /\ b # p
    BY <1>3, <2>2 DEF RuntimeInv, OwnRuns
  <2>3. CASE a = p
    <3>1. work'[a].run = i /\ work'[b].run = work[b].run
      BY <1>3, <2>3 DEF Advances
    <3> QED BY <1>4, <2>3, <3>1
  <2>4. CASE b = p
    <3>1. work'[a] = work[a] /\ work[a].run # i
      BY <1>3, <1>4, <2>4
    <3>2. work'[b].run \in {0, i}
      BY <1>3, <2>4 DEF Advances
    <3>3. work[a].run # 0
      BY <3>1, RunsAreCounted DEF RuntimeInv, InHand
    <3> QED BY <3>1, <3>2, <3>3
  <2> QED BY <2>2, <2>3, <2>4
<1>8. CR!DefinitionsAndRunsKept'
  <2>1. \A j \in DOMAIN runs : j # i =>
          /\ runs'[j].cause = "fetch" => runs'[j].attempts = MaxAttempts
          /\ runs'[j].status = "running" => j \in lost \/ \E q \in Pod : work'[q].run = j
    BY <1>2, <1>3, <1>4 DEF RuntimeInv, CR!DefinitionsAndRunsKept
  <2>2. row.status = "running" => work'[p].run = i
    BY <1>3 DEF Advances
  <2> QED BY <1>2, <2>1, <2>2 DEF RuntimeInv, CR!DefinitionsAndRunsKept, Advances
<1> QED BY <1>5, <1>6, <1>7, <1>8 DEF RuntimeInv

\* A step of a run touches the row of that run only.
LEMMA RunKeeps ==
  ASSUME RuntimeConstants, RuntimeInv, NEW p \in Pod,
         CR!Fetched(p) \/ CR!AttemptFails(p) \/ CR!GiveUp(p) \/ CR!Normalise(p)
  PROVE  RuntimeInv'
<1> DEFINE i == work[p].run
<1>1. /\ work[p].at # "rest" /\ work[p] \in Occupations
      /\ UNCHANGED <<definition, pod, edits, raced, lost>>
  BY DEF RuntimeInv, RuntimeTyped, CR!Fetched, CR!AttemptFails, CR!GiveUp, CR!Normalise
<1>2. /\ runs[i] \in RunRows /\ runs[i].status = "running" /\ runs[i].cause = "none"
      /\ work[p].at = "fetch"   => runs[i].attempts < MaxAttempts
      /\ work[p].at = "give up" => runs[i].attempts = MaxAttempts
  <2>1. i \in DOMAIN runs /\ runs \in Seq(RunRows)
    BY <1>1 DEF RuntimeInv, RuntimeTyped, InHand
  <2>2. runs[i] \in RunRows
    BY <2>1
  <2> QED BY <1>1, <2>2 DEF RuntimeInv, InHand
<1>3. CASE CR!Fetched(p)
  <2> DEFINE row  == [runs[i] EXCEPT !.attempts = @ + 1]
             next == [work[p] EXCEPT !.at = "normalise"]
  <2>1. row \in RunRows /\ row.status = "running" /\ row.cause = "none"
    BY <1>2, <1>3 DEF CR!Fetched, RunRows, RuntimeConstants
  <2>2. next \in Occupations /\ next.run = i /\ next.at = "normalise"
    BY <1>1 DEF Occupations
  <2>3. runs' = [runs EXCEPT ![i] = row] /\ work' = [work EXCEPT ![p] = next]
    BY <1>3 DEF CR!Fetched
  <2> HIDE DEF row, next
  <2> QED BY <1>1, <2>1, <2>2, <2>3, AdvanceKeeps DEF Advances
<1>4. CASE CR!AttemptFails(p)
  <2> DEFINE attempt == runs[i].attempts + 1
             row  == [runs[i] EXCEPT !.attempts = attempt]
             next == [work[p] EXCEPT !.at = IF attempt < MaxAttempts THEN "fetch" ELSE "give up"]
  <2>0. attempt \in 0..MaxAttempts /\ (attempt < MaxAttempts \/ attempt = MaxAttempts)
    <3>1. work[p].at = "fetch"
      BY <1>4 DEF CR!AttemptFails
    <3>2. runs[i].attempts \in 0..MaxAttempts /\ runs[i].attempts < MaxAttempts
      BY <1>2, <3>1 DEF RunRows
    <3> QED BY <3>2 DEF RuntimeConstants
  <2>1. /\ row \in RunRows /\ row.status = "running" /\ row.cause = "none"
        /\ row.attempts = attempt
    <3> HIDE DEF attempt
    <3> QED BY <1>2, <2>0 DEF RunRows
  <2>2. /\ next \in Occupations /\ next.run = i
        /\ next.at = "fetch" \/ next.at = "give up"
        /\ next.at = "fetch" => attempt < MaxAttempts
        /\ next.at = "give up" => ~(attempt < MaxAttempts)
    BY <1>1 DEF Occupations
  <2>3. runs' = [runs EXCEPT ![i] = row] /\ work' = [work EXCEPT ![p] = next]
    BY <1>4 DEF CR!AttemptFails
  <2> HIDE DEF attempt, row, next
  <2>4. Advances(p, row, next)
    <3>1. next.at = "give up" => attempt = MaxAttempts
      BY <2>0, <2>2
    <3> QED BY <2>1, <2>2, <3>1 DEF Advances
  <2> QED BY <1>1, <2>1, <2>2, <2>3, <2>4, AdvanceKeeps
<1>5. ASSUME NEW status \in {"succeeded", "failed"}, NEW cause \in {"none", "fetch", "record"},
             cause = "fetch" => runs[i].attempts = MaxAttempts, CR!Finish(p, status, cause)
      PROVE  RuntimeInv'
  <2> DEFINE row == [runs[i] EXCEPT !.status = status, !.cause = cause]
  <2>1. /\ row \in RunRows /\ row.status = status /\ row.cause = cause
        /\ row.attempts = runs[i].attempts
    BY <1>2 DEF RunRows
  <2>2. runs' = [runs EXCEPT ![i] = row] /\ work' = [work EXCEPT ![p] = CR!Rest]
    BY <1>5 DEF CR!Finish
  <2>3. CR!Rest \in Occupations /\ CR!Rest.at = "rest" /\ CR!Rest.run = 0
    BY DEF CR!Rest, Occupations
  <2> HIDE DEF row
  <2> QED BY <1>1, <1>5, <2>1, <2>2, <2>3, AdvanceKeeps DEF Advances
<1>6. CASE CR!GiveUp(p)
  BY <1>2, <1>5, <1>6 DEF CR!GiveUp
<1>7. CASE CR!Normalise(p)
  BY <1>2, <1>5, <1>7 DEF CR!Normalise
<1> QED BY <1>3, <1>4, <1>6, <1>7

\* A process that loses its run leaves the row as it is, and is written down.
LEMMA LosingKeeps ==
  ASSUME RuntimeInv, NEW p \in Pod, CR!EndNotSaved(p) \/ CR!Crash(p)
  PROVE  RuntimeInv'
<1>1. /\ lost' = lost \cup {work[p].run} /\ work' = [work EXCEPT ![p] = CR!Rest]
      /\ UNCHANGED <<definition, runs, edits, raced>>
      /\ pod' = pod \/ pod' = [pod EXCEPT ![p] = CR!Down]
  BY DEF CR!EndNotSaved, CR!Crash
<1>2. /\ work' \in [Pod -> Occupations] /\ work'[p].at = "rest" /\ work'[p].run = 0
      /\ \A q \in Pod : q # p => work'[q] = work[q]
  BY <1>1 DEF RuntimeInv, RuntimeTyped, Occupations, CR!Rest
<1>3. RuntimeTyped' /\ SeedsUnmade'
  <2>1. /\ pod' \in [Pod -> [at : {"down", "look", "seed", "schedule", "up"}, timer : BOOLEAN]]
        /\ \A q \in Pod : pod'[q] = pod[q] \/ pod'[q].at = "down"
    <3>1. pod \in [Pod -> [at : {"down", "look", "seed", "schedule", "up"}, timer : BOOLEAN]]
      BY DEF RuntimeInv, RuntimeTyped
    <3>2. CASE pod' = pod
      BY <3>1, <3>2
    <3>3. CASE pod' = [pod EXCEPT ![p] = CR!Down]
      BY <3>1, <3>3 DEF CR!Down
    <3> QED BY <1>1, <3>2, <3>3
  <2>2. RuntimeTyped'
    BY <1>1, <1>2, <2>1 DEF RuntimeInv, RuntimeTyped
  <2>3. SeedsUnmade'
    BY <1>1, <2>1 DEF RuntimeInv, SeedsUnmade
  <2> QED BY <2>2, <2>3
<1>4. InHand' /\ AtRest'
  BY <1>1, <1>2 DEF RuntimeInv, InHand, AtRest
<1>5. CR!DefinitionsAndRunsKept'
  BY <1>1, <1>2 DEF RuntimeInv, CR!DefinitionsAndRunsKept
<1>6. OwnRuns'
  <2>1. \A q \in Pod : work[q].at # "rest" => work[q].run # 0
    BY RunsAreCounted DEF RuntimeInv, InHand
  <2> QED BY <1>2, <2>1 DEF RuntimeInv, OwnRuns
<1> QED BY <1>3, <1>4, <1>5, <1>6 DEF RuntimeInv

LEMMA RuntimeStarts == RuntimeConstants /\ CR!Init => RuntimeInv
<1> SUFFICES ASSUME RuntimeConstants, CR!Init
             PROVE  RuntimeInv
  OBVIOUS
<1>1. /\ runs = << >> /\ edits = 0
      /\ \A p \in Pod : work[p].at = "rest" /\ work[p].run = 0 /\ pod[p].at = "down"
  BY DEF CR!Init, CR!Rest, CR!Down
<1>2. RuntimeTyped
  BY DEF CR!Init, RuntimeTyped, CR!Rest, CR!Down, Occupations
<1>3. InHand /\ AtRest /\ OwnRuns
  BY <1>1 DEF InHand, AtRest, OwnRuns
<1>4. SeedsUnmade /\ CR!DefinitionsAndRunsKept
  BY <1>1 DEF SeedsUnmade, CR!DefinitionsAndRunsKept
<1> QED BY <1>2, <1>3, <1>4 DEF RuntimeInv

LEMMA RuntimeHolds == RuntimeInv => CR!DefinitionsAndRunsKept
BY DEF RuntimeInv

LEMMA RuntimeStep ==
  ASSUME RuntimeConstants, RuntimeInv, [CR!Next]_(CR!vars)
  PROVE  RuntimeInv'
<1>1. CASE CR!Next
  BY <1>1, StartingKeeps, SynchroniseKeeps, RunKeeps, LosingKeeps DEF CR!Next
<1>2. CASE UNCHANGED CR!vars
  BY <1>2 DEF CR!vars, RuntimeInv, RuntimeTyped, InHand, AtRest, OwnRuns, SeedsUnmade,
              CR!DefinitionsAndRunsKept
<1> QED BY <1>1, <1>2

\* However many processes start, seed, stop and run beside the back office: a
\* definition it changed stays as it made it unless two of them seeded at once,
\* a run blames its source only after the last attempt of its policy, and one
\* that says it is running is being made or was lost (seedDomainConnectorDefinitions,
\* RetryingKnowledgeConnector).
THEOREM RunsAndDefinitionsStay ==
  ASSUME RuntimeConstants
  PROVE  CR!Spec => []CR!DefinitionsAndRunsKept
<1>1. CR!Init => RuntimeInv
  BY RuntimeStarts
<1>2. RuntimeInv /\ [CR!Next]_(CR!vars) => RuntimeInv'
  BY RuntimeStep
<1> QED BY <1>1, <1>2, RuntimeHolds, PTL DEF CR!Spec

-----------------------------------------------------------------------------
(* What the definition and the run rows can be.                            *)

\* The definition as the code keeps it.
Defined == /\ definition \in [made : BOOLEAN, enabled : BOOLEAN, scheduled : BOOLEAN,
                              edited : BOOLEAN]
           /\ edits <= MaxEdits /\ raced \in BOOLEAN

\* The source has an address or has none, and the back office may change something.
Settings == UrlSet \in BOOLEAN /\ MaxEdits \in Nat

LEMMA DefinedStart == Settings /\ CR!Init => Defined
<1> SUFFICES ASSUME MaxEdits \in Nat, CR!Init PROVE Defined
  BY DEF Settings
<1>1. definition = CR!NoDefinition /\ edits = 0 /\ raced = FALSE
  BY DEF CR!Init
<1>2. CR!NoDefinition \in [made : BOOLEAN, enabled : BOOLEAN, scheduled : BOOLEAN, edited : BOOLEAN]
  BY DEF CR!NoDefinition
<1>3. edits <= MaxEdits
  BY <1>1
<1>4. raced \in BOOLEAN
  BY <1>1
<1> QED BY <1>1, <1>2, <1>3, <1>4 DEF Defined

LEMMA DefinedStep ==
  ASSUME Settings, RuntimeTyped, Defined, [CR!Next]_(CR!vars)
  PROVE  Defined'
<1> USE DEF Defined, Settings
<1>1. CASE UNCHANGED CR!vars
  BY <1>1 DEF CR!vars
<1>2. ASSUME NEW p \in Pod,
             \/ CR!Start(p) \/ CR!Look(p) \/ CR!Schedule(p) \/ CR!Synchronise(p) \/ CR!Fetched(p)
             \/ CR!AttemptFails(p) \/ CR!GiveUp(p) \/ CR!Normalise(p) \/ CR!EndNotSaved(p)
             \/ CR!Crash(p)
      PROVE  Defined'
  <2>1. UNCHANGED <<definition, edits, raced>>
    BY <1>2 DEF CR!Start, CR!Look, CR!Schedule, CR!Synchronise, CR!Fetched, CR!AttemptFails,
       CR!GiveUp, CR!Normalise, CR!EndNotSaved, CR!Crash
  <2> QED BY <2>1
<1>3. ASSUME NEW p \in Pod, CR!Seed(p) PROVE Defined'
  BY <1>3 DEF CR!Seed
<1>4. ASSUME NEW p \in Pod, NEW enabled \in BOOLEAN, NEW scheduled \in BOOLEAN,
             CR!Edit(p, enabled, scheduled)
      PROVE  Defined'
  BY <1>4 DEF CR!Edit, RuntimeTyped
<1> QED BY <1>1, <1>2, <1>3, <1>4 DEF CR!Next

LEMMA RuntimeIsTyped == Settings /\ RuntimeInv /\ Defined => CR!TypeOK
<1> SUFFICES ASSUME Settings, RuntimeInv, Defined PROVE CR!TypeOK
  OBVIOUS
<1>1. runs \in Seq(RunRows) /\ work \in [Pod -> Occupations] /\ edits \in 0..MaxEdits
  BY DEF RuntimeInv, RuntimeTyped, Defined, Settings
<1>2. \A i \in DOMAIN runs : runs[i].status \in {"running", "skipped", "succeeded", "failed"}
                             /\ runs[i].attempts \in 0..MaxAttempts
  <2>1. \A i \in DOMAIN runs : runs[i] \in RunRows
    BY <1>1
  <2> QED BY <2>1 DEF RunRows
<1>3. ASSUME NEW p \in Pod PROVE work[p].run \in 0..Len(runs)
  <2>1. work[p].at = "rest" => work[p].run = 0
    BY DEF RuntimeInv, AtRest
  <2>2. work[p].at # "rest" => work[p].run \in DOMAIN runs
    BY DEF RuntimeInv, InHand
  <2>3. DOMAIN runs = 1..Len(runs) /\ Len(runs) \in Nat
    BY <1>1
  <2> QED BY <2>1, <2>2, <2>3
<1> QED BY <1>1, <1>2, <1>3 DEF CR!TypeOK, Defined

\* The rows of a connector have the code's shape and a run is tried no more often
\* than its policy allows, however processes start, stop and run beside the back
\* office (RetryingKnowledgeConnector).
THEOREM RuntimeStaysTyped ==
  ASSUME RuntimeConstants, Settings
  PROVE  CR!Spec => []CR!TypeOK
<1>1. CR!Init => RuntimeInv /\ Defined
  BY RuntimeStarts, DefinedStart
<1>2. RuntimeInv /\ Defined /\ [CR!Next]_(CR!vars) => (RuntimeInv /\ Defined)'
  BY RuntimeStep, DefinedStep DEF RuntimeInv
<1> QED BY <1>1, <1>2, RuntimeIsTyped, PTL DEF CR!Spec
=============================================================================
