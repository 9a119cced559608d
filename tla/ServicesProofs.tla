---------------------------- MODULE ServicesProofs ----------------------------
(***************************************************************************)
(* What holds of the components that MCServices explores.                  *)
(*                                                                         *)
(* First the circuit breaker and the dead letters, for any number of       *)
(* calls, administrators, attempts and restarts.  LettersAreAccounted is   *)
(* not inductive by itself: a replay that resolves its letter was accepted *)
(* by the provider some steps before, which ReplaySent keeps; TypeOK needs *)
(* that a call still to be sent has an attempt left, AttemptLeft.          *)
(*                                                                         *)
(* Then, for the components whose invariants are proved in modules of      *)
(* their own, that the invariants of the run follow from those theorems.   *)
(***************************************************************************)
EXTENDS MCServices, TLAPS

AttemptLeft ==
  \A r \in Request : call[r].at \in {"new", "send", "wait"} => call[r].attempt < MaxAttempts

ReplaySent == \A a \in Admin : replay[a].at = "resolve" => replay[a].of \in replayed

TypeInv == TypeOK /\ AttemptLeft

USE AttemptsAssumption, ThresholdAssumption, CrashesAssumption

-----------------------------------------------------------------------------
(* The breaker's own operations.                                           *)

Breakers == [state : {"closed", "open", "half-open"}, failures : Nat, cooled : BOOLEAN]

Sound(b) == /\ b.state = "closed" => b.failures < Threshold
            /\ b.state # "closed" => b.failures > 0

\* Whatever the breaker was, a success, a failure, the check before a request
\* and the reset time leave it a breaker that is closed below the threshold
\* and otherwise has a failure to show (CircuitBreaker).
LEMMA BreakerStaysSound ==
  ASSUME NEW b \in Breakers, Sound(b)
  PROVE  /\ Current(b) \in Breakers /\ Sound(Current(b))
         /\ Success(b) \in Breakers /\ Sound(Success(b))
         /\ Failure(b) \in Breakers /\ Sound(Failure(b))
<1>1. Current(b) \in Breakers /\ Sound(Current(b))
  BY DEF Current, Breakers, Sound
<1>2. Success(b) \in Breakers /\ Sound(Success(b))
  BY DEF Success, Fresh, Breakers, Sound
<1>3. Failure(b) \in Breakers /\ Sound(Failure(b))
  <2>1. b.failures + 1 \in Nat /\ b.failures + 1 > 0
    BY DEF Breakers
  <2>2. CASE b.state = "half-open" \/ b.failures + 1 >= Threshold
    BY <2>1, <2>2 DEF Failure, Breakers, Sound
  <2>3. CASE ~(b.state = "half-open" \/ b.failures + 1 >= Threshold)
    BY <2>1, <2>3 DEF Failure, Breakers, Sound
  <2> QED BY <2>2, <2>3
<1> QED BY <1>1, <1>2, <1>3

-----------------------------------------------------------------------------
(* Types.                                                                  *)

LEMMA InitTyped == Init => TypeInv
BY DEF Init, TypeInv, TypeOK, AttemptLeft, Fresh

LEMMA StepTyped == TypeInv /\ [Next]_vars => TypeInv'
<1> SUFFICES ASSUME TypeInv, [Next]_vars PROVE TypeInv'
  OBVIOUS
<1> USE DEF TypeInv, TypeOK, AttemptLeft
<1>1. ASSUME NEW r \in Request, Begin(r) PROVE TypeInv'
  BY <1>1 DEF Begin, Goto, Current
<1>2. ASSUME NEW r \in Request, Expire(r) PROVE TypeInv'
  BY <1>2 DEF Expire
<1>3. ASSUME NEW r \in Request, Answer(r) PROVE TypeInv'
  BY <1>3 DEF Answer, Goto, Success, Fresh
<1>4. ASSUME NEW r \in Request, AttemptFails(r) PROVE TypeInv'
  <2>1. breaker' \in [state : {"closed", "open", "half-open"}, failures : Nat, cooled : BOOLEAN]
    BY <1>4 DEF AttemptFails, Failed, Failure
  <2>2. call[r].attempt + 1 \in 0 .. MaxAttempts
    BY <1>4 DEF AttemptFails
  <2>3. /\ call' \in [Request -> [at : {"new", "refused", "send", "wait", "append", "answered",
                                        "rejected", "failed"},
                                  attempt : 0 .. MaxAttempts, expired : BOOLEAN]]
        /\ AttemptLeft'
    BY <1>4, <2>2 DEF AttemptFails, Failed
  <2> QED BY <1>4, <2>1, <2>3 DEF AttemptFails
<1>5. ASSUME NEW r \in Request, Retry(r) PROVE TypeInv'
  BY <1>5 DEF Retry, Goto
<1>6. ASSUME NEW r \in Request, AppendLetter(r) PROVE TypeInv'
  BY <1>6 DEF AppendLetter, Goto
<1>7. ASSUME NEW r \in Request, AppendFails(r) PROVE TypeInv'
  BY <1>7 DEF AppendFails, Goto
<1>8. ASSUME NEW r \in Request, ResolveByHand(r) PROVE TypeInv'
  BY <1>8 DEF ResolveByHand, Resolved
<1>9. ASSUME NEW a \in Admin, NEW r \in Request, FindLetter(a, r) PROVE TypeInv'
  BY <1>9 DEF FindLetter
<1>10. ASSUME NEW a \in Admin, SendLetter(a) PROVE TypeInv'
  <2>1. replay[a] \in [at : {"send", "resolve"}, of : Request]
    BY <1>10 DEF SendLetter, Idle
  <2> QED BY <1>10, <2>1 DEF SendLetter
<1>11. ASSUME NEW a \in Admin, ReplayFails(a) PROVE TypeInv'
  BY <1>11 DEF ReplayFails
<1>12. ASSUME NEW a \in Admin, ResolveReplayed(a) PROVE TypeInv'
  BY <1>12 DEF ResolveReplayed, Resolved
<1>13. CASE Cool
  BY <1>13 DEF Cool
<1>14. CASE Crash
  BY <1>14 DEF Crash, Fresh
<1>15. CASE Purge
  BY <1>15 DEF Purge
<1>16. CASE UNCHANGED vars
  BY <1>16 DEF vars
<1> QED BY <1>1, <1>2, <1>3, <1>4, <1>5, <1>6, <1>7, <1>8, <1>9, <1>10, <1>11, <1>12,
           <1>13, <1>14, <1>15, <1>16 DEF Next

\* Every reachable state of ProviderResilience has the code's shape; no call
\* is sent more than MaxAttempts times.
THEOREM TypeCorrect == Spec => []TypeOK
<1>1. TypeInv => TypeOK
  BY DEF TypeInv
<1> QED BY InitTyped, StepTyped, <1>1, PTL DEF Spec

-----------------------------------------------------------------------------
(* The breaker.                                                            *)

\* Whatever interleaving of calls, retries, half-open probes and restarts: the
\* circuit is closed only below its threshold, and open or half open only
\* after a failure (CircuitBreaker).
THEOREM ClosedIsBelowThreshold == Spec => []ClosedBelowThreshold
<1>1. Init => ClosedBelowThreshold
  BY DEF Init, ClosedBelowThreshold, Fresh
<1>2. TypeInv /\ ClosedBelowThreshold /\ [Next]_vars => ClosedBelowThreshold'
  <2> SUFFICES ASSUME TypeInv, ClosedBelowThreshold, [Next]_vars
               PROVE  ClosedBelowThreshold'
    OBVIOUS
  <2>1. breaker \in Breakers /\ Sound(breaker)
    BY DEF TypeInv, TypeOK, ClosedBelowThreshold, Breakers, Sound
  <2>2. \/ breaker' \in {Current(breaker), Success(breaker), Failure(breaker), Fresh}
        \/ breaker' = [breaker EXCEPT !.cooled = TRUE]
        \/ breaker' = breaker
    BY DEF Next, vars, Begin, Expire, Answer, AttemptFails, Failed, Retry, AppendLetter,
           AppendFails, ResolveByHand, FindLetter, SendLetter, ReplayFails, ResolveReplayed,
           Cool, Crash, Purge
  <2>3. Fresh = Success(breaker)
    BY DEF Success
  <2>4. breaker' = [breaker EXCEPT !.cooled = TRUE] => Sound(breaker')
    BY <2>1 DEF Breakers, Sound
  <2>5. Sound(breaker')
    BY <2>1, <2>2, <2>3, <2>4, BreakerStaysSound
  <2> QED BY <2>5 DEF Sound, ClosedBelowThreshold
<1> QED BY InitTyped, StepTyped, <1>1, <1>2, PTL DEF Spec

-----------------------------------------------------------------------------
(* The dead letters.                                                       *)

LetterInv == LettersAreAccounted /\ ReplaySent

LEMMA InitAccounted == Init => LetterInv
BY DEF Init, LetterInv, LettersAreAccounted, ReplaySent, Idle

LEMMA StepAccounted == TypeInv /\ LetterInv /\ [Next]_vars => LetterInv'
<1> SUFFICES ASSUME TypeInv, LetterInv, [Next]_vars PROVE LetterInv'
  OBVIOUS
<1> USE DEF TypeInv, TypeOK, LetterInv, LettersAreAccounted, ReplaySent
(* Steps of a call that is not yet given up: it has no letter.              *)
<1>1. ASSUME NEW r \in Request,
             Begin(r) \/ Expire(r) \/ Answer(r) \/ AttemptFails(r) \/ Retry(r)
      PROVE  LetterInv'
  <2>1. call[r].at # "failed" /\ UNCHANGED <<letter, replay, replayed, closed, lost>>
    BY <1>1 DEF Begin, Expire, Answer, AttemptFails, Retry
  <2>2. /\ call'[r].at # "failed"
        /\ \A s \in Request \ {r} : call'[s] = call[s]
    BY <1>1 DEF Begin, Expire, Answer, AttemptFails, Failed, Retry, Goto
  <2> QED BY <2>1, <2>2
<1>2. ASSUME NEW r \in Request, AppendLetter(r) PROVE LetterInv'
  BY <1>2 DEF AppendLetter, Goto
<1>3. ASSUME NEW r \in Request, AppendFails(r) PROVE LetterInv'
  BY <1>3 DEF AppendFails, Goto
<1>4. ASSUME NEW r \in Request, ResolveByHand(r) PROVE LetterInv'
  BY <1>4 DEF ResolveByHand, Resolved, Exists
<1>5. ASSUME NEW a \in Admin, NEW r \in Request, FindLetter(a, r) PROVE LetterInv'
  BY <1>5 DEF FindLetter
<1>6. ASSUME NEW a \in Admin, SendLetter(a) PROVE LetterInv'
  <2>1. replay[a] \in [at : {"send", "resolve"}, of : Request]
    BY <1>6 DEF SendLetter, Idle
  <2> QED BY <1>6, <2>1 DEF SendLetter
<1>7. ASSUME NEW a \in Admin, ReplayFails(a) PROVE LetterInv'
  BY <1>7 DEF ReplayFails, Idle
\* What is resolved here the provider accepted when it was sent: ReplaySent.
<1>8. ASSUME NEW a \in Admin, ResolveReplayed(a) PROVE LetterInv'
  <2>1. replay[a].of \in Request /\ replay[a].of \in replayed
    BY <1>8 DEF ResolveReplayed, Idle
  <2> QED BY <1>8, <2>1 DEF ResolveReplayed, Resolved, Exists, Idle
<1>9. CASE Cool
  BY <1>9 DEF Cool
<1>10. CASE Crash
  BY <1>10 DEF Crash, Running, Idle
<1>11. CASE Purge
  BY <1>11 DEF Purge, Purgeable
<1>12. CASE UNCHANGED vars
  BY <1>12 DEF vars
<1> QED BY <1>1, <1>2, <1>3, <1>4, <1>5, <1>6, <1>7, <1>8, <1>9, <1>10, <1>11, <1>12 DEF Next

\* However replays, resolutions by hand, purges, failing inserts and restarts
\* cross one another: a call given up has its letter, and a letter leaves the
\* open ones only after the provider accepted its replay or an administrator
\* closed it (ResilientFetchClient, DeadLetterRetryService).
THEOREM LettersAlwaysAccounted == Spec => []LettersAreAccounted
<1>1. LetterInv => LettersAreAccounted
  BY DEF LetterInv
<1> QED BY InitTyped, StepTyped, InitAccounted, StepAccounted, <1>1, PTL DEF Spec

-----------------------------------------------------------------------------
(***************************************************************************)
(* The invariants of the run.  A behaviour stays with the component it     *)
(* began with, and every step of it is one of that component on its slots, *)
(* so that the inductive invariant of the component is one of the run.     *)
(***************************************************************************)
slots == <<vars, focus, from1>>

LEMMA OneComponent ==
  ASSUME [Step]_slots
  PROVE  /\ focus' = focus
         /\ focus = "providers" => [Next]_vars
         /\ focus = "journey"    => [JE!Next]_(JE!vars)
         /\ focus = "execution"  => [SE!Next]_(SE!vars)
         /\ focus = "labels"     => [KP!LQ!Next]_(KP!LQ!vars)
         /\ focus = "index"      => [KP!KI!Next]_(KP!KI!vars)
         /\ focus = "runtime"    => [KP!CR!Next]_(KP!CR!vars)
         /\ focus = "identity"   => [CP!ID!Next]_(CP!ID!vars)
         /\ focus = "candidates" => [CP!CS!Next]_(CP!CS!vars)
         /\ focus = "routes"     => [CP!RS!Next]_(CP!RS!vars)
         /\ focus = "coaching"   => [CP!CO!Next]_(CP!CO!vars)
         /\ focus = "advisor"    => [CP!AC!Next]_(CP!AC!vars)
         /\ focus = "answering"  => [CP!AN!Next]_(CP!AN!vars)
         /\ focus = "prompts"    => [CP!PO!Next]_(CP!PO!vars)
         /\ focus = "tab"        => [CP!WT!Next]_(CP!WT!vars)
<1>1. CASE UNCHANGED slots
  BY <1>1 DEF slots, from1, from4, from8, from9, from10, from11, from13, from14, from16, from17,
              JE!vars, JE!tables, JE!locals, JE!bounds, JE!history,
              SE!vars, SE!requestVars, SE!clientVars, SE!workerVars, SE!history, KP!LQ!vars, KP!KI!vars, KP!CR!vars, CP!ID!vars, CP!CS!vars,
              CP!RS!vars, CP!CO!vars, CP!AC!vars, CP!AN!vars, CP!PO!vars, CP!WT!vars, CP!WT!state, CP!WT!advisor, CP!WT!bounds
<1>2. CASE Step
  BY <1>2 DEF Step
<1> QED BY <1>1, <1>2

LEMMA ProvidersStep == [Step]_slots => [Next]_vars
<1>1. ASSUME Step, focus # "providers" PROVE UNCHANGED vars
  BY <1>1 DEF Step
<1>2. CASE UNCHANGED slots
  BY <1>2 DEF slots
<1>3. CASE Step
  BY <1>1, <1>3 DEF Step
<1> QED BY <1>2, <1>3

LEMMA OneBegins ==
  ASSUME Start
  PROVE  /\ Init
         /\ focus = "journey"    => JE!Init
         /\ focus = "execution"  => SE!Init
         /\ focus = "labels"     => KP!LQ!Init
         /\ focus = "index"      => KP!KI!Init
         /\ focus = "runtime"    => KP!CR!Init
         /\ focus = "identity"   => CP!ID!Init
         /\ focus = "candidates" => CP!CS!Init
         /\ focus = "routes"     => CP!RS!Init
         /\ focus = "coaching"   => CP!CO!Init
         /\ focus = "advisor"    => CP!AC!Init
         /\ focus = "answering"  => CP!AN!Init
         /\ focus = "prompts"    => CP!PO!Init
         /\ focus = "tab"        => CP!WT!Init
BY DEF Start

LEMMA RuntimePolicy == KP!RuntimeConstants
BY DEF KP!RuntimeConstants

LEMMA NoVisitorIsStaff == CP!WT!None \notin {"u1"}
BY DEF CP!WT!None

\* The training labels of the run are the verdicts of its colleagues
\* (KnowledgeProofs, VerdictsAreLearned).
THEOREM RunLearnsVerdicts == Services => []TrainingLabelsAreTheVerdict
<1> DEFINE Held == focus = "labels" => KP!LabelInv
<1>1. Start => Held
  BY OneBegins, KP!LabelInit
<1>2. Held /\ [Step]_slots => Held'
  BY OneComponent, KP!LabelStepInv
<1>3. Held => TrainingLabelsAreTheVerdict
  BY KP!VerdictsHold DEF TrainingLabelsAreTheVerdict
<1> QED BY <1>1, <1>2, <1>3, PTL DEF Services, slots

\* The hits of the run's searches were approved (KnowledgeProofs,
\* AnswersRestOnApproved).
THEOREM RunHitsWereApproved == Services => []HitsWereApproved
<1> DEFINE Held == focus = "index" => KP!HitsInv
<1>1. Start => Held
  BY OneBegins, KP!HitsStart
<1>2. Held /\ [Step]_slots => Held'
  BY OneComponent, KP!HitsStep
<1>3. Held => HitsWereApproved
  BY KP!HitsHold DEF HitsWereApproved
<1> QED BY <1>1, <1>2, <1>3, PTL DEF Services, slots

\* The definition and the run rows of the run's connector are kept (KnowledgeProofs,
\* RunsAndDefinitionsStay).
THEOREM RunKeepsDefinitions == Services => []DefinitionsAndRunsKept
<1> DEFINE Held == focus = "runtime" => KP!RuntimeInv
<1>1. Start => Held
  BY OneBegins, RuntimePolicy, KP!RuntimeStarts
<1>2. Held /\ [Step]_slots => Held'
  BY OneComponent, RuntimePolicy, KP!RuntimeStep
<1>3. Held => DefinitionsAndRunsKept
  BY KP!RuntimeHolds DEF DefinitionsAndRunsKept
<1> QED BY <1>1, <1>2, <1>3, PTL DEF Services, slots

\* The run's tab listens to one stream at most (CandidateProofs, OneStreamHeld).
THEOREM RunHoldsOneStream == Services => []OneStream
<1> DEFINE Held == focus = "tab" => CP!WT!OneStream
<1>1. Start => Held
  BY OneBegins, CP!StreamStart
<1>2. Held /\ [Step]_slots => Held'
  BY OneComponent, CP!StreamStep
<1>3. Held => OneStream
  BY DEF OneStream
<1> QED BY <1>1, <1>2, <1>3, PTL DEF Services, slots

\* No view of the run's tab is left loading, but for a journey that could not be
\* created and, of a back office whose load failed, the containers beside the
\* candidate table (CandidateProofs, NoViewLeftLoading).
THEOREM RunLeavesNothingLoading == Services => []NothingLeftLoading
<1> DEFINE Held == focus = "tab" => CP!TabInv
<1>1. Start => Held
  BY OneBegins, CP!TabStart
<1>2. Held /\ [Step]_slots => Held'
  BY OneComponent, NoVisitorIsStaff, CP!TabStep
<1>3. Held => NothingLeftLoading
  BY CP!NothingAwaited DEF NothingLeftLoading
<1> QED BY <1>1, <1>2, <1>3, PTL DEF Services, slots

-----------------------------------------------------------------------------
(* The journey of the run.                                                 *)

LEMMA IdsOfTheRun == JE!Ids = {"g1", "m1", "b1", "b2", "a1", "e1", "e2", "d1", "d2"}
<1>1. /\ DOMAIN MCChildren = {1, 2, 3, 4, 5, 6, 7, 8, 9}
      /\ MCChildren[1] = "g1" /\ MCChildren[2] = "m1" /\ MCChildren[3] = "b1"
      /\ MCChildren[4] = "b2" /\ MCChildren[5] = "a1" /\ MCChildren[6] = "e1"
      /\ MCChildren[7] = "e2" /\ MCChildren[8] = "d1" /\ MCChildren[9] = "d2"
  BY DEF MCChildren
<1>2. JE!Ids = {MCChildren[i] : i \in DOMAIN MCChildren}
  BY DEF JE!Ids, JE!Range
<1> QED BY <1>1, <1>2

\* The data of the run satisfies what JourneyProofs asks of the constants.
LEMMA JourneyOfTheRun == JE!JourneyConstants
<1>1. MCChildren \in Seq(JE!Ids)
  BY IdsOfTheRun DEF MCChildren
<1>2. MCKindOf \in [JE!Ids -> {"goal", "milestone", "blocker", "action", "evidence", "decision"}]
  BY IdsOfTheRun DEF MCKindOf
<1>3. /\ "journey" \notin JE!Ids \cup {"orient", "apply"}
      /\ {"orient", "apply"} \cap JE!Ids = {}
  BY IdsOfTheRun
<1>4. {2, 4} \subseteq DOMAIN JE!SeverityWeight
  BY DEF JE!SeverityWeight
<1>5. {"doing", "done"} \cup {"completed", "skipped"} \subseteq JE!Statuses
  BY DEF JE!Statuses
<1> QED BY <1>1, <1>2, <1>3, <1>4, <1>5, NoValueAssumption DEF JE!JourneyConstants

\* What the run starts from could have been left by earlier requests.
LEMMA StartsOfTheRun == JE!ReachedStarts
<1>1. Started \in JE!Journeys /\ Started.progress = 0
  BY DEF Started, JE!Journeys, JE!One
<1>2. JE!RowsOf(<<>>) /\ JE!InOrder(<<>>) /\ DOMAIN <<>> = {} /\ JE!OfKind(<<>>, "decision") = {}
  BY DEF JE!RowsOf, JE!InOrder, JE!OfKind
<1>3. JE!Progress(<<>>) = 0
  BY <1>2, JE!ProgressNone
<1>4. /\ DOMAIN MCRows = {"m1", "b1", "a1"}
      /\ MCRows["m1"] = Entry("milestone", "pending", 10, NoValue)
      /\ MCRows["b1"] = Entry("blocker", "open", 2, NoValue)
      /\ MCRows["a1"] = Entry("action", "pending", 0, "b1")
  BY DEF MCRows
<1>5. JE!RowsOf(MCRows)
  <2>1. /\ Entry("milestone", "pending", 10, NoValue) \in JE!Rows
        /\ Entry("blocker", "open", 2, NoValue) \in JE!Rows
        /\ Entry("action", "pending", 0, "b1") \in JE!Rows
    <3>1. JE!Range(MCChildren) = JE!Ids
      BY DEF JE!Ids
    <3> QED BY <3>1, IdsOfTheRun DEF Entry, JE!Rows, JE!Statuses
  <2>2. /\ MCKindOf["m1"] = "milestone" /\ MCKindOf["b1"] = "blocker" /\ MCKindOf["a1"] = "action"
    BY DEF MCKindOf
  <2>3. 2 \in DOMAIN JE!SeverityWeight
    BY DEF JE!SeverityWeight
  <2>4. /\ JE!RowOf("m1", MCRows["m1"]) /\ JE!RowOf("b1", MCRows["b1"])
        /\ JE!RowOf("a1", MCRows["a1"])
    BY <1>4, <2>1, <2>2, <2>3 DEF JE!RowOf, Entry
  <2> QED BY <1>4, <2>4, IdsOfTheRun DEF JE!RowsOf
<1>6. JE!OfKind(MCRows, "decision") = {}
  BY <1>4 DEF JE!OfKind, Entry
<1>7. JE!Progress(MCRows) = 0
  <2>1. \A c \in DOMAIN MCRows : MCRows[c].status # "completed"
    BY <1>4 DEF Entry
  <2> QED BY <1>5, <2>1, JourneyOfTheRun, JE!ProgressNotYet
<1>8. JE!InOrder(MCRows)
  BY <1>6 DEF JE!InOrder
<1>9. ASSUME NEW start \in MCStarts
      PROVE  /\ start.graph \in BOOLEAN
             /\ JE!RowsOf(start.rows) /\ JE!InOrder(start.rows)
             /\ \/ start.journey = NoValue /\ start.rows = <<>> /\ ~start.graph
                \/ /\ start.journey \in JE!Journeys
                   /\ start.journey.progress = JE!Progress(start.rows)
                   /\ JE!Explained(start.journey, start.rows)
  <2>1. CASE start = [journey |-> NoValue, rows |-> <<>>, graph |-> FALSE]
    BY <1>2, <2>1
  <2>2. CASE start = [journey |-> Started, rows |-> <<>>, graph |-> FALSE]
    <3>1. JE!Explained(Started, <<>>)
      BY <1>2 DEF JE!Explained
    <3> QED BY <1>1, <1>2, <1>3, <2>2, <3>1
  <2>3. CASE start = [journey |-> Started, rows |-> MCRows, graph |-> TRUE]
    <3>1. JE!Explained(Started, MCRows)
      BY <1>6 DEF JE!Explained
    <3> QED BY <1>1, <1>5, <1>7, <1>8, <2>3, <3>1
  <2> QED BY <1>9, <2>1, <2>2, <2>3 DEF MCStarts
<1> QED BY <1>9 DEF JE!ReachedStarts

JourneyHeld == focus = "journey" => JE!JourneyInv

LEMMA JourneyHeldBegins == Start => JourneyHeld
BY OneBegins, JourneyOfTheRun, StartsOfTheRun, JE!JourneyBegins DEF JourneyHeld

LEMMA JourneyHeldGoesOn == JourneyHeld /\ [Step]_slots => JourneyHeld'
BY OneComponent, JourneyOfTheRun, JE!JourneyGoesOn DEF JourneyHeld

LEMMA JourneyHeldHolds ==
  JourneyHeld => GraphMirrors /\ ProgressCurrent /\ PhaseExplained
BY JourneyOfTheRun, JE!JourneyHolds
   DEF JourneyHeld, GraphMirrors, ProgressCurrent, PhaseExplained

\* The graph of the run mirrors its journey (JourneyProofs, GraphsMirror).
THEOREM RunGraphMirrors == Services => []GraphMirrors
BY JourneyHeldBegins, JourneyHeldGoesOn, JourneyHeldHolds, PTL DEF Services, slots

\* The stored progress of the run is that of its rows (JourneyProofs,
\* ProgressStaysCurrent).
THEOREM RunProgressCurrent == Services => []ProgressCurrent
BY JourneyHeldBegins, JourneyHeldGoesOn, JourneyHeldHolds, PTL DEF Services, slots

\* The phase of the run is the one its last decision explains (JourneyProofs,
\* PhasesAreExplained).
THEOREM RunPhaseExplained == Services => []PhaseExplained
BY JourneyHeldBegins, JourneyHeldGoesOn, JourneyHeldHolds, PTL DEF Services, slots

\* No resolved blocker of the run is reopened but by an overlap (JourneyProofs,
\* BlockersStayResolved).
THEOREM RunStaysResolved == Services => StaysResolved
<1>1. JourneyHeld /\ [Step]_slots => [focus = "journey" => JE!ReopenedByOverlap]_<<focus, s2>>
  <2> SUFFICES ASSUME JourneyHeld, [Step]_slots, focus = "journey"
               PROVE  [JE!ReopenedByOverlap]_<<focus, s2>>
    OBVIOUS
  <2>1. [JE!ReopenedByOverlap]_(JE!vars)
    BY OneComponent, JourneyOfTheRun, JE!NoneReopened DEF JourneyHeld
  <2>2. UNCHANGED JE!vars => UNCHANGED <<focus, s2>>
    BY OneComponent DEF JE!vars, JE!tables
  <2> QED BY <2>1, <2>2
<1> QED BY JourneyHeldBegins, JourneyHeldGoesOn, <1>1, PTL DEF Services, slots, StaysResolved

-----------------------------------------------------------------------------
(* The data of the run satisfies what CandidateProofs asks of the data.    *)

LEMMA DemoAccountsHaveRoles == CP!DemoAccounts
BY DEF CP!DemoAccounts, MCDemoRoles

LEMMA EventsAreListed == CP!ListedEvents
BY DEF CP!ListedEvents

LEMMA QuestionsAreAskable == CP!AskableQuestions
<1> DEFINE A == {"a1", "a2", "b1", "b2", "c1", "d1", "d2", "d3"}
<1>0. /\ Len(MCQuestions) = 4 /\ DOMAIN MCQuestions = {1, 2, 3, 4}
      /\ MCQuestions[1] = [answers |-> {"a1", "a2"}, published |-> TRUE]
      /\ MCQuestions[2] = [answers |-> {"b1", "b2"}, published |-> TRUE]
      /\ MCQuestions[3] = [answers |-> {"c1"}, published |-> FALSE]
      /\ MCQuestions[4] = [answers |-> {"d1", "d2", "d3"}, published |-> TRUE]
  BY DEF MCQuestions
<1>1. DOMAIN MCNeeds = A
  BY DEF MCNeeds
<1>2. MCQuestions \in Seq([answers : SUBSET A, published : BOOLEAN])
  BY DEF MCQuestions
<1>3. ASSUME NEW p \in DOMAIN MCQuestions, NEW q \in DOMAIN MCQuestions,
             MCQuestions[p].answers \cap MCQuestions[q].answers # {}
      PROVE  p = q
  BY <1>0, <1>3
<1>4. /\ MCNeeds["a1"] = {} /\ MCNeeds["a2"] = {}
      /\ MCNeeds["b1"] = {"a1"} /\ MCNeeds["b2"] = {"a1"} /\ MCNeeds["d1"] = {"b1"}
      /\ MCNeeds["d2"] = {"b2", "a2"} /\ MCNeeds["d3"] = {"a1", "a2"}
  BY DEF MCNeeds
<1>5. ASSUME NEW selected \in SUBSET A, CP!RS!Unanswered(selected) # {}
      PROVE  CP!RS!Offered(CP!RS!Min(CP!RS!Unanswered(selected)), selected) # {}
  <2> DEFINE S == CP!RS!Unanswered(selected)
             m == CP!RS!Min(S)
  <2>1. S \subseteq {1, 2, 4}
    BY <1>0 DEF CP!RS!Unanswered
  <2>2. m \in S /\ \A y \in S : m <= y
    BY <1>5, <2>1, CP!Least DEF CP!RS!Min
  <2>3. CASE m = 1
    <3>1. "a1" \in CP!RS!Offered(1, selected)
      BY <1>0, <1>4 DEF CP!RS!Offered, CP!RS!Eligible, MCPublished
    <3> QED BY <2>3, <3>1
  <2>4. CASE m = 2
    <3>1. "a1" \in selected
      BY <1>0, <1>4, <2>2, <2>4 DEF CP!RS!Unanswered, CP!RS!Eligible
    <3>2. "b1" \in CP!RS!Offered(2, selected)
      BY <1>0, <1>4, <3>1 DEF CP!RS!Offered, CP!RS!Eligible, MCPublished
    <3> QED BY <2>4, <3>2
  <2>5. CASE m = 4
    <3>1. 1 \notin S /\ 2 \notin S
      BY <2>2, <2>5
    <3>2. "a1" \in selected \/ "a2" \in selected
      BY <1>0, <1>4, <3>1 DEF CP!RS!Unanswered, CP!RS!Eligible, CP!RS!HasSelection
    <3>3. "a1" \in selected => "b1" \in selected \/ "b2" \in selected
      BY <1>0, <1>4, <3>1 DEF CP!RS!Unanswered, CP!RS!Eligible, CP!RS!HasSelection
    <3>4. "b1" \in selected => "d1" \in CP!RS!Offered(4, selected)
      BY <1>0, <1>4 DEF CP!RS!Offered, CP!RS!Eligible, MCPublished
    <3>5. "b2" \in selected \/ "a2" \in selected => "d2" \in CP!RS!Offered(4, selected)
      BY <1>0, <1>4 DEF CP!RS!Offered, CP!RS!Eligible, MCPublished
    <3> QED BY <2>5, <3>2, <3>3, <3>4, <3>5
  <2> QED BY <2>1, <2>2, <2>3, <2>4, <2>5
<1> QED BY <1>1, <1>2, <1>3, <1>5 DEF CP!AskableQuestions, CP!Answers

\* The two phase systems of the run share no phase.
LEMMA PhasesOfTheRun == CP!PhaseData /\ CP!SharedPhases
<1> DEFINE five == MCDataset["phase5"]
           four == MCDataset["phase4"]
<1>0. /\ DOMAIN MCDataset = {"phase5", "phase4"}
      /\ DOMAIN five = {1, 2, 3} /\ DOMAIN four = {1, 2}
  BY DEF MCDataset
<1>a. /\ five[1].code = "interesse" /\ five[1].next = "orientatie"
      /\ five[2].code = "orientatie" /\ five[2].next = "beslissing"
      /\ five[3].code = "beslissing" /\ five[3].next = NoValue
  BY DEF MCDataset, MCPhase
<1>b. /\ four[1].code = "verkennen" /\ four[1].next = "kiezen"
      /\ four[2].code = "kiezen" /\ four[2].next = NoValue
  BY DEF MCDataset, MCPhase
<1> HIDE DEF five, four
<1>c. /\ CP!CO!Codes("phase5") = {five[i].code : i \in {1, 2, 3}}
      /\ CP!CO!Codes("phase4") = {four[i].code : i \in {1, 2}}
  BY <1>0 DEF CP!CO!Codes, five, four
<1>1. /\ CP!CO!PhaseSystem = {"phase5", "phase4"}
      /\ CP!CO!Codes("phase5") = {"interesse", "orientatie", "beslissing"}
      /\ CP!CO!Codes("phase4") = {"verkennen", "kiezen"}
  <2>1. CP!CO!Codes("phase5") = {"interesse", "orientatie", "beslissing"}
    BY <1>a, <1>c
  <2>2. CP!CO!Codes("phase4") = {"verkennen", "kiezen"}
    BY <1>b, <1>c
  <2> QED BY <1>0, <2>1, <2>2 DEF CP!CO!PhaseSystem
<1>2. CP!PhaseData
  <2>1. /\ NoValue \notin {"interesse", "orientatie", "beslissing"}
        /\ NoValue \notin {"verkennen", "kiezen"}
    BY NoValueAssumption
  <2>2. \A sys \in CP!CO!PhaseSystem : NoValue \notin CP!CO!Codes(sys)
    BY <1>1, <2>1
  <2>3. DOMAIN <<"conversation", "user">> \subseteq Nat
    OBVIOUS
  <2> QED BY <1>1, <2>2, <2>3 DEF CP!PhaseData
<1>3. ASSUME NEW x \in CP!CO!PhaseSystem, NEW y \in CP!CO!PhaseSystem,
             NEW p \in CP!CO!Codes(x), NEW q \in CP!CO!Codes(y),
             CP!CO!PhaseOf(x, p).next = q
      PROVE  p \in CP!CO!Codes(y) /\ CP!CO!PhaseOf(y, p).next = q
  <2>1. ASSUME NEW sys, NEW c
        PROVE  CP!CO!PhaseOf(sys, c) = MCDataset[sys][CHOOSE i \in DOMAIN MCDataset[sys] :
                                                         MCDataset[sys][i].code = c]
    BY DEF CP!CO!PhaseOf
  <2>2. /\ CP!CO!PhaseOf("phase5", "interesse") = five[1]
        /\ CP!CO!PhaseOf("phase5", "orientatie") = five[2]
        /\ CP!CO!PhaseOf("phase5", "beslissing") = five[3]
    BY <1>0, <1>a, <2>1 DEF five
  <2>3. /\ CP!CO!PhaseOf("phase4", "verkennen") = four[1]
        /\ CP!CO!PhaseOf("phase4", "kiezen") = four[2]
    BY <1>0, <1>b, <2>1 DEF four
  <2>4. q # NoValue
    BY <1>1, <1>3, NoValueAssumption
  <2>5. CASE x = "phase5"
    <3>1. y = "phase5"
      BY <1>1, <1>3, <1>a, <2>2, <2>4, <2>5, NoValueAssumption
    <3> QED BY <1>1, <1>3, <1>a, <2>2, <2>4, <2>5, <3>1, NoValueAssumption
  <2>6. CASE x = "phase4"
    <3>1. y = "phase4"
      BY <1>1, <1>3, <1>b, <2>3, <2>4, <2>6, NoValueAssumption
    <3> QED BY <1>1, <1>3, <1>b, <2>3, <2>4, <2>6, <3>1, NoValueAssumption
  <2> QED BY <1>1, <1>3, <2>5, <2>6
<1> QED BY <1>2, <1>3 DEF CP!SharedPhases

\* The texts of the run are sequences of sentences.
LEMMA TextsOfTheRun == CP!TextData
<1>1. MCBody \in [DOMAIN MCBody -> Seq(CP!Sentence)]
  <2>1. {} \in CP!Sentence /\ {"dash"} \in CP!Sentence /\ {"bracket"} \in CP!Sentence
    BY DEF CP!Sentence, MCMarks
  <2>2. PICK S : S = CP!Sentence
    OBVIOUS
  <2>3. PICK text : text = Seq(S)
    OBVIOUS
  <2>4. <<{}, {"dash"}, {}, {}, {}>> \in text /\ <<{}>> \in text /\ <<{"bracket"}>> \in text
    BY <2>1, <2>2, <2>3
  <2>5. MCBody \in [{"pabo", "loket", "x", "y"} -> text]
    BY <2>4 DEF MCBody
  <2>6. DOMAIN MCBody = {"pabo", "loket", "x", "y"}
    BY DEF MCBody
  <2> QED BY <2>2, <2>3, <2>5, <2>6
<1>2. MCDraft \subseteq Seq(CP!Sentence)
  <2>1. {} \in CP!Sentence /\ {"forbidden"} \in CP!Sentence /\ {"label"} \in CP!Sentence
    BY DEF CP!Sentence, MCMarks
  <2> QED BY <2>1 DEF MCDraft
<1>3. MCMaxSentences \in [CP!AN!Intent -> Nat \ {0}]
  BY DEF MCMaxSentences, CP!AN!Intent
<1> QED BY <1>1, <1>2, <1>3 DEF CP!TextData

LEMMA VersionsOfTheRun == CP!SomeVersions
BY DEF CP!SomeVersions

-----------------------------------------------------------------------------
(* The invariants of what the candidate keeps with the service.            *)

\* The accounts and the files of the run are whole (CandidateProofs,
\* AccountsStayWhole).
THEOREM RunKeepsAccountsWhole == Services => []AccountsAreWhole
<1> DEFINE Held == focus = "identity" => CP!AccountsInv
<1>1. Start => Held
  BY OneBegins, CP!AccountsStart
<1>2. Held /\ [Step]_slots => Held'
  BY OneComponent, DemoAccountsHaveRoles, CP!AccountsStep
<1>3. Held => AccountsAreWhole
  BY CP!AccountsHold DEF AccountsAreWhole
<1> QED BY <1>1, <1>2, <1>3, PTL DEF Services, slots

\* What the run shows of talent tests and saved events is stored
\* (CandidateProofs, ShownStaysStored).
THEOREM RunShowsWhatIsStored == Services => []ShownIsStored
<1> DEFINE Held == focus = "candidates" => CP!ServicesInv
<1>1. Start => Held
  BY OneBegins, CP!ServicesStart
<1>2. Held /\ [Step]_slots => Held'
  BY OneComponent, EventsAreListed, CP!ServicesStep
<1>3. Held => ShownIsStored
  BY CP!ServicesHold DEF ShownIsStored
<1> QED BY <1>1, <1>2, <1>3, PTL DEF Services, slots

\* The paths of the run follow its questions (CandidateProofs, PathsAreSound).
THEOREM RunFollowsTheQuestions == Services => []PathsFollowTheQuestions
<1> DEFINE Held == focus = "routes" => CP!SessionsInv
<1>1. Start => Held
  BY OneBegins, CP!SessionsStart
<1>2. Held /\ [Step]_slots => Held'
  BY OneComponent, QuestionsAreAskable, CP!SessionsStep
<1>3. Held => PathsFollowTheQuestions
  BY QuestionsAreAskable, CP!SessionsHold DEF PathsFollowTheQuestions
<1> QED BY <1>1, <1>2, <1>3, PTL DEF Services, slots

\* The journey of the run follows its profile (CandidateProofs, JourneyKeepsUp).
THEOREM RunKeepsJourneyUp == Services => []JourneyFollowsProfile
<1> DEFINE Held == focus = "coaching" => CP!CoachInv
<1>1. Start => Held
  BY OneBegins, PhasesOfTheRun, CP!CoachStart
<1>2. Held /\ [Step]_slots => Held'
  BY OneComponent, PhasesOfTheRun, CP!CoachStep
<1>3. Held => JourneyFollowsProfile
  BY PhasesOfTheRun, CP!CoachHolds DEF JourneyFollowsProfile
<1> QED BY <1>1, <1>2, <1>3, PTL DEF Services, slots

\* No candidate of the run moves back (CandidateProofs, PhasesMoveOn).
THEOREM RunNeverMovesBack == Services => NeverMovesBack
<1> DEFINE Held == focus = "coaching" => CP!CoachInv
<1>1. Start => Held
  BY OneBegins, PhasesOfTheRun, CP!CoachStart
<1>2. Held /\ [Step]_slots => Held'
  BY OneComponent, PhasesOfTheRun, CP!CoachStep
<1>3. Held /\ [Step]_slots => [focus = "coaching" => CP!CO!MovesOn]_<<focus, s1>>
  BY OneComponent, PhasesOfTheRun, CP!MoveIsOn
<1> QED BY <1>1, <1>2, <1>3, PTL DEF Services, slots, NeverMovesBack

\* What was published while a stream of the run was open reaches it
\* (CandidateProofs, OpenStreamsAreWritten).
THEOREM RunOpenStreamsHear == Services => []OpenStreamsHear
<1> DEFINE Held == focus = "advisor" => CP!ChannelInv
<1>1. Start => Held
  BY OneBegins, CP!ChannelStart
<1>2. Held /\ [Step]_slots => Held'
  BY OneComponent, CP!ChannelStep
<1>3. Held => OpenStreamsHear
  BY CP!ChannelHolds DEF OpenStreamsHear
<1> QED BY <1>1, <1>2, <1>3, PTL DEF Services, slots

\* What the run shows of an answer is clean, and what it cites is related
\* (CandidateProofs, AnswersAreGrounded).
THEOREM RunAnswersHold == Services => []AnswersHold
<1> DEFINE Held == focus = "answering" => CP!AnswerInv
<1>1. Start => Held
  BY OneBegins, CP!AnswerStart
<1>2. Held /\ [Step]_slots => Held'
  BY OneComponent, TextsOfTheRun, CP!AnswerStep
<1>3. Held => AnswersHold
  BY CP!AnswerHolds DEF AnswersHold
<1> QED BY <1>1, <1>2, <1>3, PTL DEF Services, slots

\* The coach of the run is only given prompts that were chosen (CandidateProofs,
\* OnlyChosenServed).
THEOREM RunServesOnlyChosen == Services => []OnlyChosenIsServed
<1> DEFINE Held == focus = "prompts" => CP!PromptsInv
<1>1. Start => Held
  BY OneBegins, VersionsOfTheRun, CP!PromptsStart
<1>2. Held /\ [Step]_slots => Held'
  BY OneComponent, VersionsOfTheRun, CP!PromptsStep
<1>3. Held => OnlyChosenIsServed
  BY VersionsOfTheRun, CP!PromptsHold DEF OnlyChosenIsServed
<1> QED BY <1>1, <1>2, <1>3, PTL DEF Services, slots

-----------------------------------------------------------------------------
(* The types of the run.                                                   *)

\* The data of the run satisfies what SafeExecutionProofs and the theorems on
\* types ask of the constants.
LEMMA ExecutionOfTheRun ==
  /\ MCRemindAt \in [{"reminder", "hook"} -> Nat \cup {NoValue}]
  /\ NoValue \notin Nat /\ NoValue \notin {"reminder", "hook"}
BY NoValueAssumption DEF MCRemindAt

LEMMA BoundsOfTheRun == CP!FileBounds /\ CP!ServiceBounds /\ CP!SomeFaults
BY DEF CP!FileBounds, CP!ServiceBounds, CP!SomeFaults

LEMMA SettingsOfTheRun == KP!Settings
BY DEF KP!Settings

LEMMA TestOfTheRun == CP!TestData
<1>1. <<"care", "tech">> \in Seq({<<"care", "tech">>[i] : i \in DOMAIN <<"care", "tech">>})
  OBVIOUS
<1>2. DOMAIN MCTest = {"q1"} \cup {"q2"}
  BY DEF MCTest
<1>3. CP!IsFiniteSet({"q1"} \cup {"q2"})
  BY CP!FS_Singleton, CP!FS_AddElement
<1>4. <<"care", "tech">> # <<>>
  OBVIOUS
<1> QED BY <1>1, <1>2, <1>3, <1>4 DEF CP!TestData

LEMMA DatasetsOfTheRun == KP!DatasetsOfItems
<1> DEFINE Given == {MCEntry("i1", "a", TRUE), MCEntry("i2", "b", TRUE),
                     MCEntry("i2", "a", FALSE), MCEntry("i1", "b", TRUE)}
<1>1. \A x \in Given : x.item \in {"i1", "i2"} /\ x.text \in {"a", "b"}
  BY DEF MCEntry
<1>2. ASSUME NEW dataset \in MCDatasets
      PROVE  \E x, y \in Given : dataset = <<x, y>>
  <2>1. \/ dataset = <<MCEntry("i1", "a", TRUE), MCEntry("i2", "b", TRUE)>>
        \/ dataset = <<MCEntry("i2", "a", FALSE), MCEntry("i1", "b", TRUE)>>
    BY DEF MCDatasets
  <2> HIDE DEF MCDatasets
  <2> QED BY <2>1
<1> HIDE DEF Given
<1>3. ASSUME NEW x \in Given, NEW y \in Given
      PROVE  /\ <<x, y>> \in Seq({x, y})
             /\ {<<x, y>>[i] : i \in DOMAIN <<x, y>>} = {x, y}
  <2>1. <<x, y>>[1] = x /\ <<x, y>>[2] = y /\ DOMAIN <<x, y>> = {1, 2}
    OBVIOUS
  <2>2. <<x, y>> \in Seq({x, y})
    OBVIOUS
  <2> QED BY <2>1, <2>2
<1>4. ASSUME NEW dataset \in MCDatasets
      PROVE  /\ dataset \in Seq({dataset[i] : i \in DOMAIN dataset})
             /\ {dataset[i] : i \in DOMAIN dataset} \subseteq Given
  BY <1>2, <1>3
<1>5. KP!Entries \subseteq Given
  BY <1>4 DEF KP!Entries
<1>6. \A dataset \in MCDatasets : {dataset[i] : i \in DOMAIN dataset} \subseteq KP!Entries
  BY DEF KP!Entries
<1>7. \A dataset \in MCDatasets : dataset \in Seq(KP!Entries)
  <2>1. \A S, T : S \subseteq T => Seq(S) \subseteq Seq(T)
    OBVIOUS
  <2> QED BY <1>4, <1>6, <2>1
<1> QED BY <1>1, <1>5, <1>7 DEF KP!DatasetsOfItems

\* What each component keeps of its variables.
TypesHeld ==
  /\ TypeInv
  /\ focus = "journey"    => JE!JourneyInv
  /\ focus = "execution"  => SE!TypeInv
  /\ focus = "labels"     => KP!LabelInv
  /\ focus = "index"      => KP!HitsInv /\ KP!IndexTyped
  /\ focus = "runtime"    => KP!RuntimeInv /\ KP!Defined
  /\ focus = "identity"   => CP!AccountsInv /\ CP!Members
  /\ focus = "candidates" => CP!ServicesInv /\ CP!Bounded
  /\ focus = "routes"     => CP!SessionsInv
  /\ focus = "coaching"   => CP!CoachInv /\ CP!Transcript
  /\ focus = "advisor"    => CP!ChannelInv /\ CP!PagesTyped
  /\ focus = "answering"  => CP!AnswerInv /\ CP!Replied
  /\ focus = "prompts"    => CP!PromptsInv /\ CP!Chosen
  /\ focus = "tab"        => CP!WT!OneStream /\ CP!TabTyped

LEMMA TypesBegin == Start => TypesHeld
<1> SUFFICES ASSUME Start PROVE TypesHeld
  OBVIOUS
<1>0. TypeInv
  BY OneBegins, InitTyped
<1>1. focus = "journey" => JE!JourneyInv
  BY OneBegins, JourneyOfTheRun, StartsOfTheRun, JE!JourneyBegins
<1>2. focus = "execution" => SE!TypeInv
  BY OneBegins, ExecutionOfTheRun, SE!InitTypeInv
<1>3. focus = "labels" => KP!LabelInv
  BY OneBegins, KP!LabelInit
<1>4. focus = "index" => KP!HitsInv /\ KP!IndexTyped
  BY OneBegins, KP!HitsStart, KP!IndexStart
<1>5. focus = "runtime" => KP!RuntimeInv /\ KP!Defined
  BY OneBegins, RuntimePolicy, SettingsOfTheRun, KP!RuntimeStarts, KP!DefinedStart
<1>6. focus = "identity" => CP!AccountsInv /\ CP!Members
  BY OneBegins, BoundsOfTheRun, CP!AccountsStart, CP!MembersStart
<1>7. focus = "candidates" => CP!ServicesInv /\ CP!Bounded
  BY OneBegins, BoundsOfTheRun, CP!ServicesStart, CP!BoundedStart
<1>8. focus = "routes" => CP!SessionsInv
  BY OneBegins, CP!SessionsStart
<1>9. focus = "coaching" => CP!CoachInv /\ CP!Transcript
  BY OneBegins, PhasesOfTheRun, CP!CoachStart, CP!TranscriptStart
<1>10. focus = "advisor" => CP!ChannelInv /\ CP!PagesTyped
  BY OneBegins, CP!ChannelStart, CP!PagesStart
<1>11. focus = "answering" => CP!AnswerInv /\ CP!Replied
  BY OneBegins, CP!AnswerStart, CP!RepliedStart
<1>12. focus = "prompts" => CP!PromptsInv /\ CP!Chosen
  BY OneBegins, BoundsOfTheRun, VersionsOfTheRun, CP!PromptsStart, CP!ChosenStart
<1>13. focus = "tab" => CP!WT!OneStream /\ CP!TabTyped
  BY OneBegins, CP!StreamStart, CP!TabTypedStart
<1> QED BY <1>0, <1>1, <1>2, <1>3, <1>4, <1>5, <1>6, <1>7, <1>8, <1>9, <1>10, <1>11, <1>12, <1>13 DEF TypesHeld

LEMMA TypesGoOn == TypesHeld /\ [Step]_slots => TypesHeld'
<1> SUFFICES ASSUME TypesHeld, [Step]_slots PROVE TypesHeld'
  OBVIOUS
<1>0. TypeInv'
  BY ProvidersStep, StepTyped DEF TypesHeld
<1>1. focus' = "journey" => (JE!JourneyInv)'
  BY OneComponent, JourneyOfTheRun, JE!JourneyGoesOn
     DEF TypesHeld
<1>2. focus' = "execution" => (SE!TypeInv)'
  BY OneComponent, ExecutionOfTheRun, SE!NextTypeInv
     DEF TypesHeld
<1>3. focus' = "labels" => (KP!LabelInv)'
  BY OneComponent, KP!LabelStepInv
     DEF TypesHeld
<1>4. focus' = "index" => (KP!HitsInv /\ KP!IndexTyped)'
  BY OneComponent, DatasetsOfTheRun, KP!HitsStep, KP!IndexStep
     DEF TypesHeld
<1>5. focus' = "runtime" => (KP!RuntimeInv /\ KP!Defined)'
  BY OneComponent, RuntimePolicy, SettingsOfTheRun, KP!RuntimeStep, KP!DefinedStep
     DEF TypesHeld, KP!RuntimeInv
<1>6. focus' = "identity" => (CP!AccountsInv /\ CP!Members)'
  BY OneComponent, BoundsOfTheRun, DemoAccountsHaveRoles, CP!AccountsStep, CP!MembersStep
     DEF TypesHeld
<1>7. focus' = "candidates" => (CP!ServicesInv /\ CP!Bounded)'
  BY OneComponent, BoundsOfTheRun, EventsAreListed, CP!ServicesStep, CP!BoundedStep
     DEF TypesHeld
<1>8. focus' = "routes" => (CP!SessionsInv)'
  BY OneComponent, QuestionsAreAskable, CP!SessionsStep
     DEF TypesHeld
<1>9. focus' = "coaching" => (CP!CoachInv /\ CP!Transcript)'
  BY OneComponent, PhasesOfTheRun, CP!CoachStep, CP!TranscriptStep
     DEF TypesHeld
<1>10. focus' = "advisor" => (CP!ChannelInv /\ CP!PagesTyped)'
  BY OneComponent, WordsAssumption, CP!ChannelStep, CP!PagesStep
     DEF TypesHeld, CP!ChannelInv
<1>11. focus' = "answering" => (CP!AnswerInv /\ CP!Replied)'
  BY OneComponent, TextsOfTheRun, CP!AnswerStep, CP!RepliedStep
     DEF TypesHeld, CP!AnswerInv
<1>12. focus' = "prompts" => (CP!PromptsInv /\ CP!Chosen)'
  BY OneComponent, BoundsOfTheRun, VersionsOfTheRun, CP!PromptsStep, CP!ChosenStep
     DEF TypesHeld, CP!PromptsInv
<1>13. focus' = "tab" => (CP!WT!OneStream /\ CP!TabTyped)'
  BY OneComponent, CP!StreamStep, CP!TabTypedStep
     DEF TypesHeld
<1> QED BY <1>0, <1>1, <1>2, <1>3, <1>4, <1>5, <1>6, <1>7, <1>8, <1>9, <1>10, <1>11, <1>12, <1>13 DEF TypesHeld

LEMMA TypesHold == TypesHeld => TypesOK
<1> SUFFICES ASSUME TypesHeld PROVE TypesOK
  OBVIOUS
<1>0. TypeOK
  BY DEF TypesHeld, TypeInv
<1>1. focus = "journey" => JE!TypeOK
  BY JourneyOfTheRun, JE!JourneyHolds DEF TypesHeld
<1>2. focus = "execution" => SE!TypeOK
  BY DEF TypesHeld, SE!TypeInv
<1>3. focus = "labels" => KP!LQ!TypeOK
  BY KP!LabelsAreTyped DEF TypesHeld
<1>4. focus = "index" => KP!KI!TypeOK
  BY KP!IndexIsTyped DEF TypesHeld
<1>5. focus = "runtime" => KP!CR!TypeOK
  BY SettingsOfTheRun, KP!RuntimeIsTyped DEF TypesHeld
<1>6. focus = "identity" => CP!ID!TypeOK
  BY BoundsOfTheRun, CP!AccountsAreTyped DEF TypesHeld
<1>7. focus = "candidates" => CP!CS!TypeOK
  BY BoundsOfTheRun, TestOfTheRun, CP!ServicesAreTyped DEF TypesHeld
<1>8. focus = "routes" => CP!RS!TypeOK
  BY CP!SessionsAreTyped DEF TypesHeld
<1>9. focus = "coaching" => CP!CO!TypeOK
  BY CP!CoachIsTyped DEF TypesHeld
<1>10. focus = "advisor" => CP!AC!TypeOK
  BY CP!ChannelIsTyped DEF TypesHeld, CP!ChannelInv
<1>11. focus = "answering" => CP!AN!TypeOK
  BY CP!AnswersAreTyped DEF TypesHeld, CP!AnswerInv
<1>12. focus = "prompts" => CP!PO!TypeOK
  BY CP!PromptsAreTyped DEF TypesHeld, CP!PromptsInv
<1>13. focus = "tab" => CP!WT!TypeOK
  BY CP!TabIsTyped DEF TypesHeld
<1> QED BY <1>0, <1>1, <1>2, <1>3, <1>4, <1>5, <1>6, <1>7, <1>8, <1>9, <1>10, <1>11, <1>12, <1>13 DEF TypesOK

\* The variables of every component of the run have the code's shape, whatever
\* the interleaving (AccountsStayTyped, ServicesStayTyped, TypeCorrect and their
\* like).
THEOREM RunTypes == Services => []TypesOK
BY TypesBegin, TypesGoOn, TypesHold, PTL DEF Services, slots
=============================================================================
