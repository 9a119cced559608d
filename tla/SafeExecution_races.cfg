SPECIFICATION FairSpec
CONSTANTS
  Request = {"mail", "hook"}
  Client = {c1, c2}
  Worker = {w1, w2}
  Providers = {"email", "in_app"}
  InApp = "in_app"
  MaxAttempts = 2
  Ttl = 1
  MaxTime = 1
  MaxFaults = 1
  RemindAt <- MCRemindAt
  ChannelOf <- MCChannelOf
  NoDate = NoDate
  NoRequest = NoRequest
CONSTRAINT OneOffer
INVARIANTS ExecutedIsQueued SerialOutcome UndisturbedDelivery DeliveredIsAccepted
PROPERTIES ReusedOnlyByRace ImplementsContract SettlesForGood ApprovedCompletes
CHECK_DEADLOCK FALSE
