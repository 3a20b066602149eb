SPECIFICATION Spec
CONSTANTS
  Event = {e1}
  LinkTask = {l1}
  Worker = {w1}
  MaxRetries = 4
  Env = {}
  MaxOutages = 0
  NoJob = NoJob
INVARIANT LinkTasksRun
