SPECIFICATION Spec
CONSTANTS
  Request = {"mail"}
  Client = {c1}
  Worker = {w1, w2}
  Providers = {"email", "in_app"}
  InApp = "in_app"
  MaxAttempts = 2
  Ttl = 1
  MaxTime = 1
  MaxFaults = 0
  RemindAt <- MCRemindAt
  ChannelOf <- MCChannelOf
  NoDate = NoDate
  NoRequest = NoRequest
INVARIANTS AttemptsBounded
CHECK_DEADLOCK FALSE
