------------------------------ MODULE Answering ------------------------------
(***************************************************************************)
(* How a coach answers one question: AdaptiveRetrievalAnswerDraftProvider  *)
(* and the retrieval, reranking and validation pipelines of                *)
(* packages/knowledge, with the structured response of                     *)
(* packages/response-pipeline.                                             *)
(*                                                                         *)
(* A text is a sequence of sentences, and a sentence the set of the marks  *)
(* that must not reach the reader: forbidden terms, phase labels, bracket  *)
(* labels and dashes.  The models are optional and may answer anything or  *)
(* fail; writing an event may fail the request.                            *)
(***************************************************************************)
EXTENDS Integers, FiniteSets, SequencesExt

CONSTANTS Message, Item,
          Attr,        \* of a message: greets, openers, followup, asks, footing, money, page, kind
          Relates,     \* [Message -> the items that share a concept or a word with it]
          Body,        \* [Item -> its text]
          Stale,       \* items of twelve months and older
          Link,        \* items with a source url
          Draft,       \* texts that a model writes
          Models,      \* the models that are configured
          Web,         \* trusted domains and the web search are configured
          Extractive,  \* preferExtractiveAnswer: no language model is configured
          Limit,       \* candidates of a search, 10 in the code
          MaxSentences, Marks

Channel == {"general-coach", "personal-journey-coach"}
Intent  == {"greeting", "question", "exploration", "followup"}

VARIABLES at, message, channel,
          intent, candidates, internal, external, generated,
          answer, citations, links, mode

vars == <<at, message, channel, intent, candidates, internal, external,
          generated, answer, citations, links, mode>>
asked  == <<message, channel>>
result == <<answer, citations, links, mode>>

Init ==
  /\ at = "idle" /\ message \in Message /\ channel \in Channel
  /\ intent = "question" /\ candidates = <<>> /\ internal = <<>> /\ external = FALSE
  /\ generated = <<>> /\ answer = <<>> /\ citations = {} /\ links = {} /\ mode = "none"

Personal == channel = "personal-journey-coach"

(***************************************************************************)
(* IntentRouter.classify.                                                  *)
(***************************************************************************)
HeuristicIntent ==
  CASE Attr[message].greets   -> "greeting"
    [] Attr[message].followup -> "followup"
    [] Attr[message].asks     -> "question"
    [] OTHER                  -> "exploration"

Classify ==
  /\ at = "idle"
  /\ intent' \in {HeuristicIntent} \cup IF "intent" \in Models THEN Intent ELSE {}
  /\ at' = IF intent' = "greeting" THEN "gate" ELSE "search"
  /\ UNCHANGED <<asked, candidates, internal, external, generated, result>>

\* What is approved at this moment, in an order of relevance that is modelled
\* in KnowledgeIndex; what the curators change later is not read again.
Search ==
  /\ at = "search"
  /\ \E n \in 0..Limit : candidates' \in {found \in [1..n -> Item] : IsInjective(found)}
  /\ at' = "rerank"
  /\ UNCHANGED <<asked, intent, internal, external, generated, result>>

(***************************************************************************)
(* ConditionalFaqReranker.rerank: three candidates.  The model is asked    *)
(* only about more than three that score alike, and followed only if it    *)
(* names three of them.                                                    *)
(***************************************************************************)
Rerank ==
  /\ at = "rerank"
  /\ LET best == SubSeq(candidates, 1, IF Len(candidates) < 3 THEN Len(candidates) ELSE 3)
         all  == DOMAIN candidates
     IN  internal' \in {best} \cup
           IF "rerank" \in Models /\ Len(candidates) > 3
           THEN {[i \in 1..3 |-> candidates[p[i]]] : p \in {q \in [1..3 -> all] : IsInjective(q)}}
           ELSE {}
  /\ at' = "web" /\ candidates' = <<>>
  /\ UNCHANGED <<asked, intent, external, generated, result>>

(***************************************************************************)
(* AdaptiveRetrievalPipeline.retrieve: the web is asked about what changes *)
(* with time, what is stale and what is hardly known, and never about a    *)
(* personal message.                                                       *)
(***************************************************************************)
WebReason ==
  \/ Attr[message].money
  \/ \E i \in DOMAIN internal : internal[i] \in Stale
  \/ Len(internal) < 2

AskWeb ==
  /\ at = "web"
  /\ external' \in IF Web /\ ~Personal /\ WebReason THEN BOOLEAN ELSE {FALSE}
  /\ at' = "gate"
  /\ UNCHANGED <<asked, intent, candidates, internal, generated, result>>

----------------------------------------------------------------------------
(* AdaptiveRetrievalAnswerDraftProvider.createDraft.                       *)

\* topRecordRelatesToQuery, hasDomainRelevantAnswer.
TopRelates == internal # <<>> /\ Head(internal) \in Relates[message]
Answerable == Attr[message].footing /\ TopRelates

Greets == (intent = "greeting" \/ Attr[message].openers) /\ ~Attr[message].footing

\* greetingDraft and outOfScopeDraft name no source.
Decline ==
  /\ at = "gate"
  /\ Greets \/ (~Personal /\ ~external /\ ~Answerable)
  /\ answer' = <<{}, {}>> /\ citations' = {} /\ links' = {}
  /\ at' = "respond"
  /\ UNCHANGED <<asked, intent, candidates, internal, external, generated, mode>>

\* The generator writes with what was retrieved; without a model it is
\* DeterministicAnswerDraftProvider.
Generate ==
  /\ at = "gate"
  /\ ~Greets /\ (Personal \/ external \/ Answerable)
  /\ generated' \in IF "draft" \in Models THEN Draft ELSE {<<{}>>}
  /\ at' = "validate"
  /\ UNCHANGED <<asked, intent, candidates, internal, external, result>>

TopExists   == internal # <<>>                                \* mutant of CanGround
CanGround   == internal # <<>> /\ (~Personal \/ TopRelates)

Source == [i \in 1..1 |-> {}]     \* the words (Bron: ...)

\* The text to validate, and the sentences it gets beside those of the intent.
Extract ==
  IF ~Extractive THEN <<>>
  ELSE IF external THEN <<{}>> \o Source
  ELSE IF CanGround THEN Body[Head(internal)] \o Source ELSE <<>>

Compact(text) == IF text = <<>> THEN <<>> ELSE <<UNION ToSet(text)>>
ToValidate ==
  IF Extract = <<>> THEN generated
  ELSE IF Personal THEN Extract \o Compact(generated) ELSE Extract
Additional == IF Extract # <<>> /\ Personal THEN 1 ELSE 0

(***************************************************************************)
(* AnswerValidationPipeline.validateAndRepair.  localRepair takes the      *)
(* marks out and keeps the first sentences; the model is asked only about  *)
(* forbidden terms, and what it writes is repaired again.                  *)
(***************************************************************************)
Maximum == MaxSentences[intent] + Additional
LocalRepair(text) ==
  LET clean == [i \in DOMAIN text |-> text[i] \ Marks]
  IN  SubSeq(clean, 1, IF Len(clean) < Maximum THEN Len(clean) ELSE Maximum)

Trusted(text)  == text                                        \* mutant of Repaired
Repaired(text) == LocalRepair(text)

Validate ==
  /\ at = "validate"
  /\ \E text \in {LocalRepair(ToValidate)} \cup
          IF "repair" \in Models /\ \E i \in DOMAIN ToValidate : "forbidden" \in ToValidate[i]
          THEN Draft ELSE {} :
        answer' = Repaired(text)
  /\ citations' = IF CanGround THEN ToSet(internal) ELSE {}
  /\ links' = (citations' \cap Link) \cup IF external THEN {"web"} ELSE {}
  /\ at' = "respond"
  /\ UNCHANGED <<asked, intent, candidates, internal, external, generated, mode>>

(***************************************************************************)
(* createStructuredResponse: a page of the site that the question names is *)
(* added to the links, and counts as a source.                             *)
(***************************************************************************)
NeedsSource == Attr[message].kind = "bronplichtig"

Respond ==
  /\ at = "respond"
  /\ links' = links \cup IF Attr[message].page THEN {"page"} ELSE {}
  /\ mode' = CASE Attr[message].kind = "broad"   -> "clarify_batch"
               [] NeedsSource /\ links' = {}     -> "source_check"
               [] Attr[message].kind = "handoff" -> "handoff"
               [] OTHER                          -> "direct"
  /\ at' = "answered"
  /\ UNCHANGED <<asked, intent, candidates, internal, external, generated,
                 answer, citations>>

\* A search or an event that cannot be stored fails the request.
Fails ==
  /\ at \notin {"idle", "answered", "failed"}
  /\ at' = "failed"
  /\ UNCHANGED <<asked, intent, candidates, internal, external, generated, result>>

Next ==
  \/ Classify \/ Search \/ Rerank \/ AskWeb \/ Decline \/ Generate \/ Validate \/ Respond
  \/ Fails

Spec == Init /\ [][Next]_vars

----------------------------------------------------------------------------

TypeOK ==
  /\ at \in {"idle", "search", "rerank", "web", "gate", "validate", "respond", "answered", "failed"}
  /\ message \in Message /\ channel \in Channel /\ intent \in Intent
  /\ ToSet(candidates) \cup ToSet(internal) \subseteq Item /\ external \in BOOLEAN
  /\ citations \subseteq Item /\ links \subseteq Link \cup {"web", "page"}
  /\ mode \in {"none", "clarify_batch", "source_check", "handoff", "direct"}

(***************************************************************************)
(* Whatever the generator and the repair model wrote, the reader sees no   *)
(* internal term or label and no more sentences than the intent allows.    *)
(***************************************************************************)
NothingInternalShown ==
  at = "answered" =>
    /\ \A i \in DOMAIN answer : answer[i] \cap Marks = {}
    /\ Len(answer) <= MaxSentences[intent] + 1

(***************************************************************************)
(* An answer cites records of the knowledge base only when the best of     *)
(* them relates to the question, in both channels and whatever the         *)
(* reranker put first.  The public coach is excepted when the web          *)
(* answered: the gate that would reject an unrelated record is skipped.    *)
(***************************************************************************)
CitedIsRelated ==
  at = "answered" /\ citations # {} => TopRelates \/ (external /\ ~Personal)
===============================================================================
