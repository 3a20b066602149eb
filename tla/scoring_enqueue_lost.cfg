SPECIFICATION Spec
CONSTANTS
  Event = {e1}
  Request = {r1, r2}
  Worker = {w1}
  MaxRetries = 1
  Env = {"broker_error"}
  MaxOutages = 0
  NoTask = NoTask
PROPERTY ProcessingIsTrue
