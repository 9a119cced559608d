------------------------------ MODULE MCServices ------------------------------
(***************************************************************************)
(* The smaller components for TLC, in one run: a behaviour is that of one  *)
(* component, chosen in Start.  They share no state in the code, so each   *)
(* is explored by itself.  The slots s1 to s17 hold the variables of the   *)
(* component in focus; those of ProviderResilience, which this module      *)
(* extends for its assumptions, stay as they begin in the other runs.      *)
(*                                                                         *)
(* p1 and p2 are the two actors of a component that has two alike:         *)
(* requests, clients, replicas, connections.                               *)
(***************************************************************************)
EXTENDS ProviderResilience, Sequences, TLC

CONSTANTS p1, p2, w1, q1, i1, i2, t1, t2, t3, NoValue

VARIABLES focus, s1, s2, s3, s4, s5, s6, s7, s8, s9, s10, s11, s12, s13, s14, s15, s16, s17

Unused == "-"

-----------------------------------------------------------------------------
(* Values *)

\* JourneyEngine: ids for one row of a kind, two of what overlapping requests
\* may duplicate or a second context adds.
MCChildren == <<"g1", "m1", "b1", "b2", "a1", "e1", "e2", "d1", "d2">>
MCKindOf == [g1 |-> "goal", m1 |-> "milestone", b1 |-> "blocker", b2 |-> "blocker",
             a1 |-> "action", e1 |-> "evidence", e2 |-> "evidence",
             d1 |-> "decision", d2 |-> "decision"]

\* Nothing yet; a journey as old as the first release, which had no graph; one
\* that three requests gave a milestone, an open blocker and an action against it.
Started == [phase |-> "orient", status |-> "active", progress |-> 0]
Entry(kind, status, level, link) ==
  [kind |-> kind, status |-> status, level |-> level, link |-> link]
MCRows == [m1 |-> Entry("milestone", "pending", 10, NoValue),
           b1 |-> Entry("blocker", "open", 2, NoValue),
           a1 |-> Entry("action", "pending", 0, "b1")]
MCStarts == {[journey |-> NoValue, rows |-> <<>>, graph |-> FALSE],
             [journey |-> Started, rows |-> <<>>, graph |-> FALSE],
             [journey |-> Started, rows |-> MCRows, graph |-> TRUE]}

\* SafeExecution: an in-app reminder for tick 1, and a webhook without provider.
MCRemindAt  == [reminder |-> 1, hook |-> NoValue]
MCChannelOf == [reminder |-> "in_app", hook |-> "webhook"]

\* Coaching: two phase systems cut down to what the transitions need.
Always == {<<"always", "">>}
MCPhase(code, entry, next, range) ==
  [code |-> code, entry |-> entry, exit |-> Always, next |-> next,
   allowed |-> {next}, range |-> range]
MCDataset ==
  [phase5 |-> <<MCPhase("interesse", Always, "orientatie", <<"interesse">>),
                MCPhase("orientatie", {<<"phase_completed", "interesse">>}, "beslissing",
                        <<"orientatie">>),
                MCPhase("beslissing", {<<"phase_completed", "orientatie">>}, NoValue,
                        <<"beslissing", "matching">>)>>,
   phase4 |-> <<MCPhase("verkennen", Always, "kiezen", <<"interesse", "orientatie">>),
                MCPhase("kiezen", {<<"phase_completed", "verkennen">>}, NoValue,
                        <<"beslissing">>)>>]
MCCanonical == <<"interesse", "orientatie", "beslissing", "matching">>
Slots(required, optional) == [required |-> required, optional |-> optional]
MCSlotRules == [interesse  |-> Slots(<<"school_type">>, <<>>),
                orientatie |-> Slots(<<"school_type">>, <<"region">>),
                beslissing |-> Slots(<<>>, <<"region">>)]

\* Answering: a greeting, a question that is covered, one that is not, a thanks.
MCKind(greets, openers, followup, asks, footing, money, page, kind) ==
  [greets |-> greets, openers |-> openers, followup |-> followup, asks |-> asks,
   footing |-> footing, money |-> money, page |-> page, kind |-> kind]
MCAttr ==
  [hello    |-> MCKind(TRUE, TRUE, FALSE, FALSE, FALSE, FALSE, FALSE, "reproductie"),
   cost     |-> MCKind(FALSE, TRUE, FALSE, TRUE, TRUE, TRUE, TRUE, "bronplichtig"),
   offtopic |-> MCKind(FALSE, FALSE, FALSE, TRUE, FALSE, FALSE, FALSE, "bronplichtig"),
   thanks   |-> MCKind(FALSE, FALSE, TRUE, FALSE, FALSE, FALSE, FALSE, "handoff")]
MCRelates == [hello |-> {}, cost |-> {"pabo"}, offtopic |-> {}, thanks |-> {"loket"}]
MCBody == [pabo |-> <<{}, {"dash"}, {}, {}, {}>>, loket |-> <<{}>>,
           x |-> <<{"bracket"}>>, y |-> <<{}>>]
MCDraft == {<<{}>>, <<{"forbidden"}, {"label"}, {}, {}, {}, {}>>}
MCMarks == {"forbidden", "label", "dash", "bracket"}
MCMaxSentences == [greeting |-> 2, question |-> 4, exploration |-> 3, followup |-> 3]

\* KnowledgeIndex: a dataset of two items, one with a draft that changes the first.
MCEntry(i, t, published) ==
  [item |-> i, text |-> t, source |-> "s1", domain |-> t, published |-> published]
MCDatasets == {<<MCEntry("i1", "a", TRUE), MCEntry("i2", "b", TRUE)>>,
               <<MCEntry("i2", "a", FALSE), MCEntry("i1", "b", TRUE)>>}

\* RouteSessions: four questions, the third a draft, with answers that depend on
\* earlier ones; one of the three routes is a draft.
MCQuestions == <<[answers |-> {"a1", "a2"}, published |-> TRUE],
                 [answers |-> {"b1", "b2"}, published |-> TRUE],
                 [answers |-> {"c1"}, published |-> FALSE],
                 [answers |-> {"d1", "d2", "d3"}, published |-> TRUE]>>
MCNeeds == [a \in {"a1", "a2", "b1", "b2", "c1", "d1", "d2", "d3"} |->
              CASE a \in {"b1", "b2"} -> {"a1"}
                [] a = "d1" -> {"b1"}
                [] a = "d2" -> {"b2", "a2"}
                [] a = "d3" -> {"a1", "a2"}
                [] OTHER -> {}]
MCPublished == {"a1", "a2", "b1", "b2", "c1", "d1", "d2"}
MCRoutes == {[requires |-> {"a1"}, published |-> TRUE],
             [requires |-> {"a1", "b1"}, published |-> TRUE],
             [requires |-> {"a2"}, published |-> FALSE]}

\* CandidateServices: a test of two questions over two sectors.
MCTest == [q1 |-> {{"care"}, {"tech"}}, q2 |-> {{"care", "tech"}, {"tech"}}]

\* Identity: one address, that of a demo account.
MCDemoRoles == [e \in {"d"} |-> {"candidate"}]

\* ConnectorRuntime: a complete record and one without a level.
MCRecord == {{"name", "level"}, {"name"}}

-----------------------------------------------------------------------------
(* Components *)

\* JourneyEngine, as its theorems see it.
JE == INSTANCE JourneyProofs WITH
  Children <- MCChildren, KindOf <- MCKindOf, Journey <- "journey",
  Phases <- {"orient", "apply"}, Weights <- {10}, Severities <- {2, 4},
  ActionStatuses <- {"doing", "done"}, MilestoneStatuses <- {"completed", "skipped"},
  Request <- {p1, p2}, Starts <- MCStarts, MaxOps <- 2, MaxFaults <- 1,
  NoLink <- NoValue, NoJourney <- NoValue, NoRow <- NoValue,
  journey <- s1, rows <- s2, nodes <- s3, edges <- s4, code <- s5, copy <- s6,
  arg <- s7, inserts <- s8, ops <- s9, faults <- s10, together <- s11, alone <- s12,
  excused <- s13

\* SafeExecution, as its theorems see it.
SE == INSTANCE SafeExecutionProofs WITH
  Request <- {"reminder", "hook"}, Client <- {p1}, Worker <- {w1},
  Providers <- {"email", "in_app"}, InApp <- "in_app", MaxAttempts <- 2, Ttl <- 2,
  MaxTime <- 1, MaxFaults <- 1, RemindAt <- MCRemindAt, ChannelOf <- MCChannelOf,
  NoDate <- NoValue, NoRequest <- NoValue,
  clock <- s1, status <- s2, expiresAt <- s3, outbox <- s4, cpc <- s5, creq <- s6,
  cstamp <- s7, wpc <- s8, batch <- s9, seen <- s10, item <- s11, faults <- s12,
  consent <- s13, contended <- s14, disturbed <- s15, calls <- s16, accepted <- s17

\* LabelQueue, KnowledgeIndex and ConnectorRuntime, as their theorems see them.
KP == INSTANCE KnowledgeProofs WITH
  Question <- {q1}, Candidate <- {i1, i2}, Labeler <- {p1, p2}, Nobody <- NoValue,
  MaxItems <- 1, LabelFaults <- 2,
  Item <- {"i1", "i2"}, Source <- {"s1"}, Datasets <- MCDatasets, Ingester <- {p1},
  NoItem <- "none", Text <- {"a", "b"}, Limit <- 1, MaxEdits <- 1, MaxFaults <- 1,
  Pod <- {p1, p2}, Kind <- "education", Record <- MCRecord, UrlSet <- TRUE,
  MaxAttempts <- 2, MaxRuns <- 2, MaxCrashes <- 1,
  queue <- s1, items <- s1, definition <- s1, labels <- s2, sources <- s2, runs <- s2,
  evaluations <- s3, vectors <- s3, pod <- s3, work <- s4, run <- s4, search <- s5,
  raced <- s5, faults <- s6, lost <- s6, broken <- s7, edits <- s7, shown <- s8

\* Identity, CandidateServices, RouteSessions, Coaching, AdvisorChannel, Answering,
\* Prompts and WebTab, as their theorems see them.
CP == INSTANCE CandidateProofs WITH
  Caller <- {p1, p2}, Client <- {p1, p2}, MaxFaults <- 1,
  Email <- {"d"}, DemoRoles <- MCDemoRoles, Text <- {"x1", "x2"}, MaxUploads <- 2, MaxNotes <- 1,
  User <- {"u1"}, TestQuestions <- MCTest, Sectors <- <<"care", "tech">>,
  Event <- {"e1", "e2"}, Offers <- <<{"e1", "e2"}, {"e2"}>>,
  MaxTests <- 2, MaxAppointments <- 1, MaxRefreshes <- 1,
  Questions <- MCQuestions, Needs <- MCNeeds, PublishedAnswers <- MCPublished,
  Routes <- MCRoutes, Session <- {"s1"},
  Dataset <- MCDataset, Canonical <- MCCanonical, FivePhase <- "phase5",
  SlotRules <- MCSlotRules, NoPhase <- NoValue, NoSlot <- NoValue,
  Turn <- {t1, t2, t3}, PersonalTurn <- {t1, t2, t3},
  Scope <- <<"conversation", "user">>, Facts <- {<<"slot_present", "school_type">>},
  DefaultPhase <- "interesse", DefaultSystem <- "phase5", NoSystem <- NoValue,
  MaxOpen <- 2, MaxSwitches <- 1,
  Viewer <- {p1, p2}, TooLong <- {}, TwoLines <- {},
  Message <- DOMAIN MCAttr, Item <- DOMAIN MCBody, Attr <- MCAttr, Relates <- MCRelates,
  Body <- MCBody, Stale <- {"loket"}, Link <- {"pabo", "x"}, Draft <- MCDraft,
  Models <- {"intent", "rerank", "draft", "repair"}, Web <- TRUE, Extractive <- TRUE,
  Limit <- 4, MaxSentences <- MCMaxSentences, Marks <- MCMarks,
  Admin <- {"a1"}, Coach <- {"k1"}, Conn <- {p1, p2}, MaxVersions <- 2,
  users <- s1, profile <- s1, sessions <- s1, broker <- s1,
  roles <- s2, results <- s2, client <- s2, history <- s2,
  profiles <- s3, events <- s3, faults <- s3,
  objects <- s4, saved <- s4, journey <- s4, request <- s4,
  notes <- s5, appointments <- s5, preference <- s5, stream <- s5,
  acknowledged <- s6, invited <- s6, conversation <- s6,
  call <- s7, messages <- s7, handlers <- s7,
  removed <- s8, clock <- s8, evaluations <- s8, queue <- s8,
  count <- s9, contested <- s9, snapshots <- s9, listening <- s9,
  disturbed <- s10, wire <- s10, mutations <- s11, written <- s11, switches <- s12,
  buffer <- s12, turn <- s13, known <- s13, heard <- s14, owed <- s15, deaf <- s16,
  at <- s1, message <- s2, channel <- s3, intent <- s4, candidates <- s5, internal <- s6,
  external <- s7, generated <- s8, answer <- s9, citations <- s10, links <- s11, mode <- s12,
  stored <- s1, tx <- s2, admin <- s4, coach <- s5, chosen <- s6, answered <- s7,
  strayed <- s8,
  Staff <- {"u1"}, MaxCalls <- 2, MaxSignIns <- 2,
  token <- s2, user <- s4, view <- s5, screen <- s6, content <- s7, route <- s8,
  questions <- s9, busy <- s10, calls <- s11, streams <- s12, controller <- s13,
  stranded <- s14, signIns <- s15

\* What stands for a missing phase, row, journey, date or request is none.
ASSUME NoValueAssumption ==
  /\ NoValue \notin {"interesse", "orientatie", "beslissing", "verkennen", "kiezen"}
  /\ NoValue \notin JE!Ids /\ NoValue \notin JE!Journeys
  /\ NoValue \notin Nat /\ NoValue \notin {"reminder", "hook"}

\* What a viewer writes is none of the pieces of a frame.
ASSUME WordsAssumption == CP!MessagesApart

-----------------------------------------------------------------------------
\* The slots from the n-th on, of which a component with fewer variables makes no use.
from17 == <<s17>>
from16 == <<s16, from17>>
from14 == <<s14, s15, from16>>
from13 == <<s13, from14>>
from11 == <<s11, s12, from13>>
from10 == <<s10, from11>>
from9 == <<s9, from10>>
from8 == <<s8, from9>>
from4 == <<s4, s5, s6, s7, from8>>
from1 == <<s1, s2, s3, from4>>

Free17 == s17 = Unused
Free16 == s16 = Unused /\ Free17
Free14 == s14 = Unused /\ s15 = Unused /\ Free16
Free13 == s13 = Unused /\ Free14
Free11 == s11 = Unused /\ s12 = Unused /\ Free13
Free10 == s10 = Unused /\ Free11
Free9 == s9 = Unused /\ Free10
Free8 == s8 = Unused /\ Free9
Free4 == s4 = Unused /\ s5 = Unused /\ s6 = Unused /\ s7 = Unused /\ Free8
Free1 == s1 = Unused /\ s2 = Unused /\ s3 = Unused /\ Free4

Start ==
  /\ Init
  /\ \/ focus = "providers" /\ Free1
     \/ focus = "journey" /\ JE!Init /\ Free14
     \/ focus = "execution" /\ SE!Init
     \/ focus = "coaching" /\ CP!CO!Init /\ Free14
     \/ focus = "advisor" /\ CP!AC!Init /\ Free17
     \/ focus = "answering" /\ CP!AN!Init /\ Free13
     \/ focus = "labels" /\ KP!LQ!Init /\ Free8
     \/ focus = "index" /\ KP!KI!Init /\ Free9
     \/ focus = "routes" /\ CP!RS!Init /\ Free4
     \/ focus = "candidates" /\ CP!CS!Init /\ Free10
     \/ focus = "identity" /\ CP!ID!Init /\ Free11
     \/ focus = "prompts" /\ CP!PO!Init /\ Free9
     \/ focus = "runtime" /\ KP!CR!Init /\ Free8
     \/ focus = "tab" /\ CP!WT!Init /\ Free16

Step ==
  \/ focus = "providers" /\ Next /\ UNCHANGED <<focus, from1>>
  \/ focus = "journey" /\ JE!Next /\ UNCHANGED <<vars, focus, from14>>
  \/ focus = "execution" /\ SE!Next /\ UNCHANGED <<vars, focus>>
  \/ focus = "coaching" /\ CP!CO!Next /\ UNCHANGED <<vars, focus, from14>>
  \/ focus = "advisor" /\ CP!AC!Next /\ UNCHANGED <<vars, focus, from17>>
  \/ focus = "answering" /\ CP!AN!Next /\ UNCHANGED <<vars, focus, from13>>
  \/ focus = "labels" /\ KP!LQ!Next /\ UNCHANGED <<vars, focus, from8>>
  \/ focus = "index" /\ KP!KI!Next /\ UNCHANGED <<vars, focus, from9>>
  \/ focus = "routes" /\ CP!RS!Next /\ UNCHANGED <<vars, focus, from4>>
  \/ focus = "candidates" /\ CP!CS!Next /\ UNCHANGED <<vars, focus, from10>>
  \/ focus = "identity" /\ CP!ID!Next /\ UNCHANGED <<vars, focus, from11>>
  \/ focus = "prompts" /\ CP!PO!Next /\ UNCHANGED <<vars, focus, from9>>
  \/ focus = "runtime" /\ KP!CR!Next /\ UNCHANGED <<vars, focus, from8>>
  \/ focus = "tab" /\ CP!WT!Next /\ UNCHANGED <<vars, focus, from16>>

Services == Start /\ [][Step]_<<vars, focus, from1>>

MCSymmetry == Permutations({p1, p2}) \cup Permutations({t1, t2, t3})

-----------------------------------------------------------------------------
(* Properties *)

\* Every component's variables have the code's shape.
TypesOK ==
  /\ TypeOK
  /\ focus = "journey" => JE!TypeOK
  /\ focus = "execution" => SE!TypeOK
  /\ focus = "coaching" => CP!CO!TypeOK
  /\ focus = "advisor" => CP!AC!TypeOK
  /\ focus = "answering" => CP!AN!TypeOK
  /\ focus = "labels" => KP!LQ!TypeOK
  /\ focus = "index" => KP!KI!TypeOK
  /\ focus = "routes" => CP!RS!TypeOK
  /\ focus = "candidates" => CP!CS!TypeOK
  /\ focus = "identity" => CP!ID!TypeOK
  /\ focus = "prompts" => CP!PO!TypeOK
  /\ focus = "runtime" => KP!CR!TypeOK
  /\ focus = "tab" => CP!WT!TypeOK

\* The properties of the components, stated in their modules; LettersAreAccounted
\* is that of ProviderResilience.
GraphMirrors                == focus = "journey" => JE!GraphMirrors
ProgressCurrent             == focus = "journey" => JE!ProgressCurrent
PhaseExplained              == focus = "journey" => JE!PhaseExplained
JourneyFollowsProfile       == focus = "coaching" => CP!CO!JourneyFollowsProfile
OpenStreamsHear             == focus = "advisor" => CP!AC!OpenStreamsHear
TrainingLabelsAreTheVerdict == focus = "labels" => KP!LQ!TrainingLabelsAreTheVerdict
HitsWereApproved            == focus = "index" => KP!KI!HitsWereApproved
PathsFollowTheQuestions     == focus = "routes" => CP!RS!PathsFollowTheQuestions
ShownIsStored               == focus = "candidates" => CP!CS!ShownIsStored
AccountsAreWhole            == focus = "identity" => CP!ID!AccountsAreWhole
OnlyChosenIsServed          == focus = "prompts" => CP!PO!OnlyChosenIsServed
DefinitionsAndRunsKept      == focus = "runtime" => KP!CR!DefinitionsAndRunsKept
OneStream                   == focus = "tab" => CP!WT!OneStream
NothingLeftLoading          == focus = "tab" => CP!WT!NothingLeftLoading

\* What is shown of an answer is clean, and what it cites is related.
AnswersHold == focus = "answering" => CP!AN!NothingInternalShown /\ CP!AN!CitedIsRelated

\* No resolved blocker is reopened but by an overlap; no candidate moves back.
StaysResolved == [][focus = "journey" => JE!ReopenedByOverlap]_<<focus, s2>>
NeverMovesBack == [][focus = "coaching" => CP!CO!MovesOn]_<<focus, s1>>
=============================================================================
