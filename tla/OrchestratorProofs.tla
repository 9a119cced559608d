-------------------------- MODULE OrchestratorProofs --------------------------
(***************************************************************************)
(* Theorems about Orchestrator, for any number of faults.  The invariant   *)
(* IInv follows three actors at once: what every step's trace holds where  *)
(* it stands, where steps stand when execute is at each of its awaits, and *)
(* what the shadow evaluation has written.                                 *)
(***************************************************************************)
EXTENDS Orchestrator, TLAPS

Ended == {"completed", "failed", "skipped"}

\* What the planner and the registry guarantee of a run's plan.
PlanShape ==
  /\ NextAction \in plan => Dashboard \in plan
  /\ Tool \ ExecutionTools \subseteq registered

\* What the trace holds of a step that is where it is.
TraceOf(t) ==
  /\ step[t] \in {"called", "absent", "completing"} => event[t] = "none"
  /\ step[t] = "pending" => event[t] = "none" \/ main \in {"rejected", "dead"}
  /\ step[t] = "failing" => event[t] \in {"none", "completed"}
  /\ step[t] \in Ended => event[t] = step[t]
  /\ event[t] = "failed" => step[t] \in {"failed", "rejected"}
  /\ t \notin plan => step[t] = "pending" /\ event[t] = "none"

\* Only tools of the registry are called, and only planned ones misreported.
Registry ==
  /\ \A t \in Tool : step[t] \in {"called", "completing"} => t \in registered
  /\ \A t \in Tool : step[t] = "absent" => t \notin registered
  /\ unsure \subseteq plan \cap registered

\* How often the shadow evaluation has written, and who waits for it.
Evaluating ==
  /\ main = "start" => shadow = "none"
  /\ shadow \in {"none", "asking", "recording"} => evaluations = 0
  /\ shadow = "excusing" => evaluations < 2
  /\ shadow = "recorded" => evaluations > 0
  /\ main = "answered" => shadow = "recorded"

\* Where the steps are when execute is where it is.
StepsOfMain ==
  /\ main = "start" => step = [t \in Tool |-> "pending"] /\ row = "none"
  /\ main \in {"start", "group", "skip"} => \A t \in plan : step[t] \in Ended \cup {"pending"}
  /\ main = "running" => \A t \in plan : step[t] # "rejected"
  /\ main \in {"save", "await", "answered"} => \A t \in plan : step[t] \in Ended

\* A final row was written when every step had ended, and nothing moved since.
RowIsOutcome ==
  row \in Final =>
    /\ main \in {"await", "answered", "rejected", "dead"}
    /\ \A t \in plan : step[t] \in Ended
    /\ row = Outcome

\* Only journey.next-action waits, and only for journey.dashboard.
Grouping ==
  /\ main = "group" => \/ step = [t \in Tool |-> "pending"]
                       \/ Pending \subseteq {NextAction} /\ step[Dashboard] = "completed"
  /\ main \in {"running", "skip"} => Pending \subseteq {NextAction}
  /\ main = "skip" => step[Dashboard] = "failed"
  /\ step[NextAction] \notin {"pending", "skipped"} => step[Dashboard] = "completed"
  /\ \A t \in plan \cap registered :
       event[t] = "skipped" => t = NextAction /\ step[Dashboard] = "failed"

\* An execution tool's proposal, the trace of it and its excuse.
Offering ==
  \A t \in ExecutionTools :
    /\ step[t] \in {"pending", "called", "absent"} => t \notin offered
    /\ step[t] = "completing" \/ event[t] = "completed" => t \in offered
    /\ step[t] \in {"failing", "failed", "rejected"} /\ t \in offered => t \in unsure

IInv ==
  /\ TypeOK
  /\ PlanShape
  /\ \A t \in Tool : TraceOf(t)
  /\ Registry
  /\ Evaluating
  /\ StepsOfMain
  /\ RowIsOutcome
  /\ Grouping
  /\ Offering

\* Every step keeps the invariant. 
LEMMA Inductive == IInv /\ [Next]_vars => IInv'
<1> SUFFICES ASSUME IInv, [Next]_vars PROVE IInv'
  OBVIOUS
<1> USE MaxFaultsType
<1> USE DEF IInv, TypeOK, PlanShape, TraceOf, Registry, Evaluating, StepsOfMain, RowIsOutcome,
            Grouping, Offering
<1> USE DEF Tool, Dashboard, Knowledge, NextAction, ExecutionTools, Required, DependsOn
<1> USE DEF Final, InFlight, StepState, Ended, fixed, stored
<1> USE DEF Pending, Completed, FailedRequired, Ready, Failures, Outcome
<1>1. ASSUME Begin PROVE IInv'
  <2> USE <1>1 DEF Begin
  <2>1. main' \in {"save", "group"} /\ (main' = "save" => plan = {})
    BY DEF Onward
  <2>2. TypeOK' /\ PlanShape' /\ Registry' /\ Evaluating' /\ Offering'
    BY <2>1
  <2>3. (\A t \in Tool : TraceOf(t))' /\ StepsOfMain' /\ RowIsOutcome' /\ Grouping'
    BY <2>1
  <2> QED
    BY <2>2, <2>3
<1>2. ASSUME BeginFails PROVE IInv'
  BY <1>2 DEF BeginFails, Fault
<1>3. ASSUME StartGroup PROVE IInv'
  <2> USE <1>3 DEF StartGroup
  <2>1. TypeOK' /\ PlanShape' /\ Evaluating' /\ RowIsOutcome'
    OBVIOUS
  <2>2. (\A t \in Tool : TraceOf(t))'
    OBVIOUS
  <2>3. Registry' /\ Offering'
    OBVIOUS
  <2>4. StepsOfMain'
    OBVIOUS
  <2>5. Grouping'
    OBVIOUS
  <2> QED
    BY <2>1, <2>2, <2>3, <2>4, <2>5
<1>4. ASSUME GroupDone PROVE IInv'
  BY <1>4 DEF GroupDone, Onward
<1>5. ASSUME NEW t \in Tool, Skip(t) PROVE IInv'
  BY <1>5 DEF Skip
<1>6. ASSUME NEW t \in Tool, SkipFails(t) PROVE IInv'
  BY <1>6 DEF SkipFails, Fault
<1>7. ASSUME SaveOutcome PROVE IInv'
  BY <1>7 DEF SaveOutcome
<1>8. ASSUME SaveOutcomeFails PROVE IInv'
  BY <1>8 DEF SaveOutcomeFails, Fault
<1>9. ASSUME Answer PROVE IInv'
  BY <1>9 DEF Answer
<1>10. ASSUME AnswerFails PROVE IInv'
  BY <1>10 DEF AnswerFails, Fault
<1>11. ASSUME NEW t \in Tool, ToolAnswers(t) PROVE IInv'
  <2> USE <1>11 DEF ToolAnswers, At, Goto, Offers
  <2>1. TypeOK' /\ PlanShape' /\ Evaluating' /\ RowIsOutcome'
    OBVIOUS
  <2>2. (\A u \in Tool : TraceOf(u))'
    OBVIOUS
  <2>3. Registry' /\ Offering'
    OBVIOUS
  <2>4. StepsOfMain'
    OBVIOUS
  <2>5. Grouping'
    OBVIOUS
  <2> QED
    BY <2>1, <2>2, <2>3, <2>4, <2>5
<1>12. ASSUME NEW t \in Tool, ToolFails(t) PROVE IInv'
  BY <1>12 DEF ToolFails, At, Goto
<1>13. ASSUME NEW t \in Tool, TimesOut(t) PROVE IInv'
  BY <1>13 DEF TimesOut, At, Goto
<1>14. ASSUME NEW t \in Tool, LateWork(t) PROVE IInv'
  BY <1>14 DEF LateWork, Alive, Offers
<1>15. ASSUME NEW t \in Tool, LogCompleted(t) PROVE IInv'
  BY <1>15 DEF LogCompleted, At, Goto
<1>16. ASSUME NEW t \in Tool, LogCompletedFails(t) PROVE IInv'
  BY <1>16 DEF LogCompletedFails, At, Goto, Fault
<1>17. ASSUME NEW t \in Tool, LogFailed(t) PROVE IInv'
  BY <1>17 DEF LogFailed, At, Goto
<1>18. ASSUME NEW t \in Tool, LogRefused(t) PROVE IInv'
  BY <1>18 DEF LogRefused, At, Goto, Reject
<1>19. ASSUME NEW t \in Tool, LogAbsent(t) PROVE IInv'
  BY <1>19 DEF LogAbsent, At, Goto
<1>20. ASSUME NEW t \in Tool, LogFails(t) PROVE IInv'
  BY <1>20 DEF LogFails, At, Goto, Reject, Fault
<1>21. ASSUME Suggest PROVE IInv'
  BY <1>21 DEF Suggest, Alive
<1>22. ASSUME SuggestFails PROVE IInv'
  BY <1>22 DEF SuggestFails, Alive
<1>23. ASSUME Record PROVE IInv'
  BY <1>23 DEF Record, Alive
<1>24. ASSUME RecordFails PROVE IInv'
  BY <1>24 DEF RecordFails, Alive, Fault
<1>25. ASSUME ExcuseFails PROVE IInv'
  BY <1>25 DEF ExcuseFails, Alive, Fault
<1>26. ASSUME Crash PROVE IInv'
  BY <1>26 DEF Crash, Fault
<1>27. CASE UNCHANGED vars
  BY <1>27 DEF vars
<1> QED
  BY <1>1, <1>2, <1>3, <1>4, <1>5, <1>6, <1>7, <1>8, <1>9, <1>10, <1>11, <1>12, <1>13, <1>14,
     <1>15, <1>16, <1>17, <1>18, <1>19, <1>20, <1>21, <1>22, <1>23, <1>24, <1>25, <1>26, <1>27
  DEF Next, MainStep, MainFails, StepGoesOn, StepMayGo, ShadowGoesOn
\* The invariant holds of every run.
LEMMA Invariance == Spec => []IInv
<1>1. Init => IInv
  <2> SUFFICES ASSUME Init PROVE IInv
    OBVIOUS
  <2>1. PlanShape /\ plan \in SUBSET Tool
    BY DEF Init, PlanShape, PlanOf, Tool, ExecutionTools, Dashboard, NextAction, Knowledge
  <2>2. TypeOK
    BY <2>1, MaxFaultsType DEF Init, TypeOK, Final, StepState, InFlight
  <2> QED
    BY <2>1, <2>2 DEF Init, IInv, TraceOf, Registry, Evaluating, StepsOfMain, RowIsOutcome,
                   Grouping, Offering, Final, Ended, ExecutionTools, Tool, Dashboard,
                   NextAction, Knowledge
<1> QED
  BY <1>1, Inductive, PTL DEF Spec

\* Every reachable state is well typed: at most two evaluations are ever stored,
\* and only planned, registered execution tools propose anything.
THEOREM TypeCorrect == Spec => []TypeOK
<1>1. IInv => TypeOK
  BY DEF IInv
<1> QED
  BY <1>1, Invariance, PTL

\* The status of a run that ended tells what its events tell, whatever fails.
THEOREM StatusIsTrue == Spec => []StatusTellsOutcome
<1>1. IInv => StatusTellsOutcome
  <2> SUFFICES ASSUME IInv, row \in Final PROVE StatusTellsOutcome
    BY DEF StatusTellsOutcome
  <2>1. \A t \in plan : step[t] \in Ended /\ event[t] = step[t]
    BY DEF IInv, TypeOK, RowIsOutcome, TraceOf
  <2>2. row = IF plan \ Completed = {} THEN "completed"
              ELSE IF plan \ Completed = plan THEN "failed" ELSE "partial"
    BY DEF IInv, RowIsOutcome, Outcome, Failures
  <2> QED
    BY <2>1, <2>2 DEF StatusTellsOutcome, Completed, Ended
<1> QED
  BY <1>1, Invariance, PTL

\* Steps run after what they depend on, and only for its failure are skipped.
THEOREM DependenciesRule == Spec => []DependenciesDecide
<1>1. IInv => DependenciesDecide
  BY DEF IInv, TypeOK, PlanShape, TraceOf, Grouping, DependenciesDecide, DependsOn, Required,
         Completed, InFlight, Ended, Tool, Dashboard, NextAction, Knowledge, ExecutionTools
<1> QED
  BY <1>1, Invariance, PTL

\* Proposals told exist, and those that exist are told or excused.
THEOREM OffersAreTold == Spec => []OffersTold
<1>1. IInv => OffersTold
  BY DEF IInv, TypeOK, TraceOf, Grouping, Offering, OffersTold, Tool, ExecutionTools, NextAction
<1> QED
  BY <1>1, Invariance, PTL

\* Nobody is answered before the evaluation is stored.
THEOREM EvaluatedWhenAnswered == Spec => []AnsweredIsEvaluated
<1>1. IInv => AnsweredIsEvaluated
  BY DEF IInv, Evaluating, AnsweredIsEvaluated
<1> QED
  BY <1>1, Invariance, PTL

\* Once final, neither the row nor the trace ever changes.
THEOREM FinalStays == Spec => FinalTrace
<1>1. IInv /\ row \in Final /\ [Next]_vars => UNCHANGED <<row, event>>
  <2> SUFFICES ASSUME IInv, row \in Final, [Next]_vars PROVE UNCHANGED <<row, event>>
    OBVIOUS
  <2>1. main \in {"await", "answered", "rejected", "dead"}
    BY DEF IInv, RowIsOutcome
  <2>2. \A t \in Tool : step[t] \in Ended \cup {"pending"}
    BY DEF IInv, RowIsOutcome, TraceOf
  <2>3. CASE MainStep \/ MainFails
    BY <2>1, <2>3 DEF MainStep, MainFails, Begin, BeginFails, StartGroup, GroupDone, Skip,
       SkipFails, SaveOutcome, SaveOutcomeFails, Answer, AnswerFails, stored
  <2>4. ASSUME NEW t \in Tool, StepGoesOn(t) \/ StepMayGo(t) PROVE UNCHANGED <<row, event>>
    BY <2>2, <2>4 DEF StepGoesOn, StepMayGo, At, Ended, ToolAnswers, ToolFails, TimesOut,
       LateWork, LogCompleted, LogCompletedFails, LogFailed, LogRefused, LogAbsent, LogFails
  <2>5. CASE ShadowGoesOn \/ Suggest \/ RecordFails \/ ExcuseFails \/ Crash
    BY <2>5 DEF ShadowGoesOn, Suggest, SuggestFails, Record, RecordFails, ExcuseFails, Crash,
       stored
  <2>6. CASE UNCHANGED vars
    BY <2>6 DEF vars, stored
  <2> QED
    BY <2>3, <2>4, <2>5, <2>6 DEF Next
<1> QED
  BY <1>1, Invariance, PTL DEF Spec, FinalTrace
=============================================================================
