SPECIFICATION FairPollSpec
CONSTANTS
  Event = {e1}
  Request = {r1, r2}
  Worker = {w1}
  Poller = {p1}
  MaxRetries = 1
  Env <- Survivable
  MaxOutages = 1
  NoTask = NoTask
INVARIANTS NoBlackhole AcceptedIsBacked
PROPERTIES AcceptedIsSettled ServedUnlessOutage PollingEnds
