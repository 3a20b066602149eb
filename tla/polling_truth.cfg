SPECIFICATION PollSpec
CONSTANTS
  Event = {e1}
  Request = {r1, r2}
  Worker = {w1, w2}
  Poller = {p1}
  MaxRetries = 1
  Env <- WithLostDelete
  MaxOutages = 1
  NoTask = NoTask
SYMMETRY Symmetry
INVARIANT PollTypeOK
PROPERTIES ProcessingIsTrue AnswersNeverRegress PollProcessingIsTrue
