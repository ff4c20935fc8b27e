\* Two calls; a queue of one, which may fill up.
CONSTANTS
  MaxCalls = 2
  MaxWorkers = 2
  MaxQueue = 1
  Replies = {0, 2}
  NodeMayFail = TRUE
SPECIFICATION FairSpec
INVARIANTS AnswersOwn CompletedOnce AnswerFindsCall NoLeak
PROPERTIES CallsEnd
CHECK_DEADLOCK FALSE
