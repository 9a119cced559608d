SPECIFICATION FairSpec
CONSTANTS
  MaxFaults = 2
INVARIANTS StatusTellsOutcome DependenciesDecide OffersTold AnsweredIsEvaluated
PROPERTIES FinalTrace AnswersUnlessFault
\* a run ends
CHECK_DEADLOCK FALSE
