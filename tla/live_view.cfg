SPECIFICATION FairViewSpec
CONSTANTS
  e1 = e1
  l1 = l1
  Event = {e1}
  LinkTask = {l1}
  LinkOf <- OneLink
  Worker = {w1}
  MaxRetries = 1
  Env = {"llm_error", "db_error", "state_error", "link_error", "worker_crash"}
  MaxOutages = 1
  Session = {s1}
  MaxAttempts = 2
  ViewEnv = {"api_error", "read_error"}
  MaxReadErrors = 1
  NoEvent = NoEvent
  NoJob = NoJob
INVARIANTS DashboardTypeOK ExplanationOnRecord ShownWasTrue
PROPERTIES ExplanationStays ShownAfterScored ExplanationShown
