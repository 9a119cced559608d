SPECIFICATION Services
CONSTANTS
  Request = {r1, r2}
  Admin = {a1, a2}
  MaxAttempts = 2
  Threshold = 3
  MaxCrashes = 1
  p1 = p1
  p2 = p2
  w1 = w1
  q1 = q1
  i1 = i1
  i2 = i2
  t1 = t1
  t2 = t2
  t3 = t3
  NoValue = NoValue
SYMMETRY MCSymmetry
INVARIANTS
  TypesOK LettersAreAccounted GraphMirrors ProgressCurrent PhaseExplained
  JourneyFollowsProfile OpenStreamsHear AnswersHold TrainingLabelsAreTheVerdict
  HitsWereApproved PathsFollowTheQuestions ShownIsStored AccountsAreWhole
  OnlyChosenIsServed DefinitionsAndRunsKept OneStream NothingLeftLoading
PROPERTIES StaysResolved NeverMovesBack
CHECK_DEADLOCK FALSE
