----------------------------- MODULE Orchestrator -----------------------------
(***************************************************************************)
(* packages/orchestration/src/index.ts, AiOrchestrator.execute over        *)
(* PostgresOrchestrationRepository: one POST /v1/orchestrate.              *)
(*                                                                         *)
(* The planner's steps run in groups, the ready ones in parallel, each     *)
(* under a timeout that gives up on its tool but does not stop it.  Every  *)
(* step leaves one event, the run row tells how they ended, and a shadow   *)
(* planner is evaluated next to all this.  A write may fail, be it done or *)
(* not, and the process may die.                                           *)
(***************************************************************************)
EXTENDS Integers

CONSTANT MaxFaults   \* bound: failed database calls and lost processes

ASSUME MaxFaultsType == MaxFaults \in Nat

Dashboard      == "journey.dashboard"
Knowledge      == "knowledge.search"
NextAction     == "journey.next-action"
ExecutionTools == {"reminder.schedule", "notification.queue"}
Tool           == {Dashboard, Knowledge, NextAction} \cup ExecutionTools

VARIABLES
  plan,         \* tools of the plan's steps
  registered,   \* tools of the registry
  row,          \* status of the orchestration_runs row
  event,        \* status of the step's orchestration_events row
  offered,      \* execution tools whose proposal was stored
  evaluations,  \* planner_shadow_evaluations rows of the run
  step,         \* where executeStep is
  shadow,       \* where ShadowPlanningService.evaluate is
  main,         \* where execute is
  faults,       \* faults so far
  unsure        \* history: tools given up on, or whose end was misreported

stored == <<row, event, offered, evaluations>>
fixed  == <<plan, registered>>
vars   == <<fixed, stored, step, shadow, main, faults, unsure>>

Final     == {"completed", "partial", "failed"}
InFlight  == {"called", "absent", "completing", "failing"}
StepState == InFlight \cup {"pending", "completed", "failed", "skipped", "rejected"}

TypeOK ==
  /\ plan \in SUBSET Tool
  /\ registered \in SUBSET Tool
  /\ row \in {"none", "running"} \cup Final
  /\ event \in [Tool -> {"none", "completed", "failed", "skipped"}]
  /\ offered \in SUBSET (plan \cap registered \cap ExecutionTools)
  /\ evaluations \in 0..2
  /\ step \in [Tool -> StepState]
  /\ shadow \in {"none", "asking", "recording", "excusing", "recorded", "rejected"}
  /\ main \in {"start", "group", "running", "skip", "save", "await", "answered", "rejected", "dead"}
  /\ faults \in 0..MaxFaults
  /\ unsure \in SUBSET Tool

-----------------------------------------------------------------------------
(* The planner.  A message is the set of patterns it matches.                 *)

Pattern == {"greeting", "handoff", "progress", "action", "journey",
            "reminder", "notification", "topic"}

\* The steps of the plan for a message, of a known user or not.
PlanOf(says, user) ==
  IF says \cap {"greeting", "handoff"} # {} THEN {}
  ELSE {t \in {Dashboard} : user /\ says \cap {"progress", "action", "journey"} # {}}
       \cup {t \in {Knowledge} : "progress" \notin says \/ "topic" \in says}
       \cup {t \in {NextAction} : user /\ "action" \in says}
       \cup {t \in {"reminder.schedule"} : user /\ "reminder" \in says}
       \cup {t \in {"notification.queue"} : user /\ "notification" \in says}

AllRequired(t) == TRUE                                      \* mutant of Required
Required(t)    == t \in {Dashboard, NextAction}
DependsOn(t)   == IF t = NextAction THEN {Dashboard} ELSE {}

\* createDefaultOrchestrator takes the execution service or does without.
Init ==
  /\ \E says \in SUBSET Pattern, user \in BOOLEAN : plan = PlanOf(says, user)
  /\ registered \in {Tool, Tool \ ExecutionTools}
  /\ row = "none" /\ offered = {} /\ evaluations = 0
  /\ event = [t \in Tool |-> "none"]
  /\ step = [t \in Tool |-> "pending"]
  /\ shadow = "none"
  /\ main = "start"
  /\ faults = 0 /\ unsure = {}

-----------------------------------------------------------------------------
(* execute                                                                    *)

Pending        == {t \in plan : step[t] = "pending"}
Completed      == {t \in plan : step[t] = "completed"}
FailedRequired == {t \in plan : step[t] = "failed" /\ Required(t)}
Ready          == {t \in Pending : DependsOn(t) \subseteq Completed}

\* Where the loop goes from here: the next group, the skips, or the outcome.
Onward ==
  IF Pending = {} THEN "save"
  ELSE IF FailedRequired # {} \/ Ready = {} THEN "skip" ELSE "group"

Fault == faults < MaxFaults /\ faults' = faults + 1

\* saveRun with status running, then the shadow evaluation starts.
Begin ==
  /\ main = "start"
  /\ row' = "running" /\ shadow' = "asking"
  /\ main' = Onward
  /\ UNCHANGED <<fixed, event, offered, evaluations, step, faults, unsure>>

BeginFails ==
  /\ main = "start"
  /\ Fault
  /\ row' \in {row, "running"}
  /\ main' = "rejected"
  /\ UNCHANGED <<fixed, event, offered, evaluations, step, shadow, unsure>>

StartGroup ==
  /\ main = "group"
  /\ main' = "running"
  /\ step' = [t \in Tool |-> IF t \notin Ready THEN step[t]
                             ELSE IF t \in registered THEN "called" ELSE "absent"]
  /\ UNCHANGED <<fixed, stored, shadow, faults, unsure>>

\* Promise.all resolves once no step of the group is under way.
GroupRaced ==                                               \* mutant of GroupDone
  /\ main = "running"
  /\ \E t \in plan : step[t] \in {"completed", "failed", "skipped"}
  /\ main' = Onward
  /\ UNCHANGED <<fixed, stored, step, shadow, faults, unsure>>
GroupDone ==
  /\ main = "running"
  /\ \A t \in plan : step[t] \notin InFlight
  /\ main' = Onward
  /\ UNCHANGED <<fixed, stored, step, shadow, faults, unsure>>

\* One event per step that is not run, in either of the two loops of skips.
Skip(t) ==
  /\ main = "skip"
  /\ t \in Pending
  /\ event' = [event EXCEPT ![t] = "skipped"]
  /\ step' = [step EXCEPT ![t] = "skipped"]
  /\ main' = IF Pending = {t} THEN "save" ELSE "skip"
  /\ UNCHANGED <<fixed, row, offered, evaluations, shadow, faults, unsure>>

SkipFails(t) ==
  /\ main = "skip"
  /\ t \in Pending
  /\ Fault
  /\ event' \in {event, [event EXCEPT ![t] = "skipped"]}
  /\ main' = "rejected"
  /\ UNCHANGED <<fixed, row, offered, evaluations, step, shadow, unsure>>

FailuresOfTools == {t \in plan : step[t] = "failed"}        \* mutant of Failures
Failures        == plan \ Completed
Outcome ==
  IF Failures = {} THEN "completed" ELSE IF Failures = plan THEN "failed" ELSE "partial"

SaveOutcome ==
  /\ main = "save"
  /\ row' = Outcome
  /\ main' = "await"
  /\ UNCHANGED <<fixed, event, offered, evaluations, step, shadow, faults, unsure>>

\* A run whose last write fails is answered with an error, be it saved or not.
\* A shadow that was rejected in between has no handler, see ExcuseFails.
SaveOutcomeFails ==
  /\ main = "save"
  /\ Fault
  /\ row' \in {row, Outcome}
  /\ main' = "rejected"
  /\ UNCHANGED <<fixed, event, offered, evaluations, step, shadow, unsure>>

\* await shadowPromise, then the run is read back.
AnswerAtOnce ==                                             \* mutant of Answer
  /\ main = "await"
  /\ main' = "answered"
  /\ UNCHANGED <<fixed, stored, step, shadow, faults, unsure>>
Answer ==
  /\ main = "await"
  /\ shadow = "recorded"
  /\ main' = "answered"
  /\ UNCHANGED <<fixed, stored, step, shadow, faults, unsure>>

AnswerFails ==
  /\ main = "await"
  /\ shadow = "recorded"
  /\ Fault
  /\ main' = "rejected"
  /\ UNCHANGED <<fixed, stored, step, shadow, unsure>>

-----------------------------------------------------------------------------
(* executeStep: t's tool, its timeout and its event.                          *)

Alive == main # "dead"

At(t, state)   == Alive /\ step[t] = state
Goto(t, state) == step' = [step EXCEPT ![t] = state]

Offers(t) == offered' = offered \cup ({t} \cap ExecutionTools)

ToolAnswers(t) ==
  /\ At(t, "called")
  /\ Offers(t)
  /\ Goto(t, "completing")
  /\ UNCHANGED <<fixed, row, event, evaluations, shadow, main, faults, unsure>>

\* journey.next-action only looks up what it was given and cannot fail.  A tool
\* that fails with its work done (the answer to its write was lost) is one given
\* up on that finishes late: TimesOut, then LateWork.
ToolFails(t) ==
  /\ At(t, "called") /\ t # NextAction
  /\ Goto(t, "failing")
  /\ UNCHANGED <<fixed, stored, shadow, main, faults, unsure>>

\* withTimeout rejects; the tool goes on and may still do its work.
TimeoutResolves(t) ==                                       \* mutant of TimesOut
  /\ At(t, "called") /\ t # NextAction
  /\ Goto(t, "completing")
  /\ unsure' = unsure \cup {t}
  /\ UNCHANGED <<fixed, stored, shadow, main, faults>>
NoTimeout(t) ==                                             \* mutant of TimesOut
  /\ FALSE /\ At(t, "called")
  /\ UNCHANGED vars
TimesOut(t) ==
  /\ At(t, "called") /\ t # NextAction
  /\ Goto(t, "failing")
  /\ unsure' = unsure \cup {t}
  /\ UNCHANGED <<fixed, stored, shadow, main, faults>>

LateWork(t) ==
  /\ Alive
  /\ t \in unsure \ offered /\ t \in ExecutionTools
  /\ Offers(t)
  /\ UNCHANGED <<fixed, row, event, evaluations, step, shadow, main, faults, unsure>>

LogCompleted(t) ==
  /\ At(t, "completing")
  /\ event' = [event EXCEPT ![t] = "completed"]
  /\ Goto(t, "completed")
  /\ UNCHANGED <<fixed, row, offered, evaluations, shadow, main, faults, unsure>>

\* The catch takes a failed write of the event for a failure of the tool.
LogCompletedFails(t) ==
  /\ At(t, "completing")
  /\ Fault
  /\ event' \in {event, [event EXCEPT ![t] = "completed"]}
  /\ unsure' = unsure \cup {t}
  /\ Goto(t, "failing")
  /\ UNCHANGED <<fixed, row, offered, evaluations, shadow, main>>

\* A step rejects: Promise.all does at once, the steps beside it go on.
Reject(t) ==
  /\ Goto(t, "rejected")
  /\ main' = IF main = "running" THEN "rejected" ELSE main

LogFailed(t) ==
  /\ At(t, "failing")
  /\ event[t] = "none"
  /\ event' = [event EXCEPT ![t] = "failed"]
  /\ Goto(t, "failed")
  /\ UNCHANGED <<fixed, row, offered, evaluations, shadow, main, faults, unsure>>

\* UNIQUE(run_id, sequence): the step's event is there already.
LogOverwrites(t) ==                                         \* mutant of LogRefused
  /\ At(t, "failing")
  /\ event[t] # "none"
  /\ Goto(t, "failed")
  /\ UNCHANGED <<fixed, stored, shadow, main, faults, unsure>>
LogRefused(t) ==
  /\ At(t, "failing")
  /\ event[t] # "none"
  /\ Reject(t)
  /\ UNCHANGED <<fixed, stored, shadow, faults, unsure>>

\* An unregistered tool: required ones fail, the others are skipped.
LogAbsent(t) ==
  /\ At(t, "absent")
  /\ LET status == IF Required(t) THEN "failed" ELSE "skipped" IN
       /\ event' = [event EXCEPT ![t] = status]
       /\ Goto(t, status)
  /\ UNCHANGED <<fixed, row, offered, evaluations, shadow, main, faults, unsure>>

\* The event of a step that failed or has no tool cannot be written.
LogFails(t) ==
  /\ At(t, "failing") \/ At(t, "absent")
  /\ event[t] = "none"
  /\ Fault
  /\ LET status == IF step[t] = "absent" /\ ~Required(t) THEN "skipped" ELSE "failed" IN
       event' \in {event, [event EXCEPT ![t] = status]}
  /\ Reject(t)
  /\ UNCHANGED <<fixed, row, offered, evaluations, shadow, unsure>>

-----------------------------------------------------------------------------
(* ShadowPlanningService.evaluate                                             *)

Suggest ==
  /\ Alive /\ shadow = "asking"
  /\ shadow' = "recording"
  /\ UNCHANGED <<fixed, stored, step, main, faults, unsure>>

\* The provider fails, suggests nonsense or takes too long.
SuggestFails ==
  /\ Alive /\ shadow = "asking"
  /\ shadow' = "excusing"
  /\ UNCHANGED <<fixed, stored, step, main, faults, unsure>>

\* The evaluation, or the failure of it, is stored.
Record ==
  /\ Alive /\ shadow \in {"recording", "excusing"}
  /\ evaluations' = evaluations + 1
  /\ shadow' = "recorded"
  /\ UNCHANGED <<fixed, row, event, offered, step, main, faults, unsure>>

RecordFails ==
  /\ Alive /\ shadow = "recording"
  /\ Fault
  /\ evaluations' \in {evaluations, evaluations + 1}
  /\ shadow' = "excusing"
  /\ UNCHANGED <<fixed, row, event, offered, step, main, unsure>>

\* evaluate rejects.  Only at its await has execute a handler for that; before,
\* or after execute itself rejected, the process ends on an unhandled rejection.
ExcuseFails ==
  /\ Alive /\ shadow = "excusing"
  /\ Fault
  /\ evaluations' \in {evaluations, evaluations + 1}
  /\ shadow' = "rejected"
  /\ main' = IF main = "await" THEN "rejected" ELSE "dead"
  /\ UNCHANGED <<fixed, row, event, offered, step, unsure>>

Crash ==
  /\ main \notin {"dead", "answered"}
  /\ Fault
  /\ main' = "dead"
  /\ UNCHANGED <<fixed, stored, step, shadow, unsure>>

-----------------------------------------------------------------------------
MainStep == Begin \/ StartGroup \/ GroupDone \/ (\E t \in Tool : Skip(t)) \/ SaveOutcome \/ Answer
MainFails == BeginFails \/ (\E t \in Tool : SkipFails(t)) \/ SaveOutcomeFails \/ AnswerFails

\* What a step does by itself, whatever its tool does.
StepGoesOn(t) ==
  \/ TimesOut(t)
  \/ t = NextAction /\ ToolAnswers(t)
  \/ LogCompleted(t)
  \/ LogFailed(t)
  \/ LogRefused(t)
  \/ LogAbsent(t)

StepMayGo(t) ==
  ToolAnswers(t) \/ ToolFails(t) \/ LateWork(t) \/ LogCompletedFails(t) \/ LogFails(t)

ShadowGoesOn == SuggestFails \/ Record

Next ==
  \/ MainStep \/ MainFails
  \/ \E t \in Tool : StepGoesOn(t) \/ StepMayGo(t)
  \/ ShadowGoesOn \/ Suggest \/ RecordFails \/ ExcuseFails
  \/ Crash

Spec == Init /\ [][Next]_vars

\* The timers of withTimeout end every wait for a tool or a planner; nothing
\* makes a tool or the planner answer.
Fairness ==
  /\ WF_vars(MainStep)
  /\ \A t \in Tool : WF_vars(StepGoesOn(t))
  /\ WF_vars(ShadowGoesOn)

FairSpec == Spec /\ Fairness

-----------------------------------------------------------------------------
(* Properties                                                                 *)

\* The status of a run that ended tells what its events tell: one event for
\* every step, completed when all are, failed when none is, else partial.  The
\* one write of the outcome and the many of the events never contradict each
\* other, whichever of them fails (the last lines of execute against executeStep).
StatusTellsOutcome ==
  row \in Final =>
    /\ \A t \in plan : event[t] # "none"
    /\ row = "completed" <=> \A t \in plan : event[t] = "completed"
    /\ row = "failed" <=> plan # {} /\ \A t \in plan : event[t] # "completed"

\* A step runs only after everything it depends on completed, and a registered
\* tool is skipped only for a required one it depends on that failed: failures
\* stop the dependent steps and no others, and no plan ends on an unresolvable
\* dependency (docs/PARALLEL_ORCHESTRATION_SHADOW_PLANNING_4_0.md:19).
DependenciesDecide ==
  \A t \in plan :
    /\ step[t] \in InFlight \cup {"completed", "failed"} => DependsOn(t) \subseteq Completed
    /\ event[t] = "skipped" /\ t \in registered =>
         \E d \in DependsOn(t) : Required(d) /\ event[d] = "failed"

\* A proposal told to the user exists, and one that exists is told, or its tool
\* was given up on, lost its answer, or could not write its event: then the user
\* reads of a failure and the request awaits a confirmation nobody can give.
OffersTold ==
  \A t \in plan \cap ExecutionTools :
    /\ event[t] = "completed" => t \in offered
    /\ event[t] \in {"failed", "skipped"} /\ t \in offered => t \in unsure

\* Every run answered to the user has its shadow evaluation, completed or failed
\* (docs/PARALLEL_ORCHESTRATION_SHADOW_PLANNING_4_0.md:87).
AnsweredIsEvaluated == main = "answered" => evaluations > 0

\* Once the row has a final status neither it nor its trace ever changes, though
\* tools given up on still work: no step of a group is left behind by the run.
FinalTrace == [][(row \in Final) => UNCHANGED <<row, event>>]_vars

\* A run in which no write fails is answered, however its tools and the planner
\* behave: timeouts and skips always get it to its end.
AnswersUnlessFault == <>(main = "answered" \/ faults > 0)

=============================================================================
