SPECIFICATION Spec
CONSTANTS
  Wrappers = {w1, w2}
  Servers = {w1}
  Convs = {1}
  SessionOf <- OneSession
  Topics = {T}
  Threshold = 1
  MaxFiles = 2
  MaxTalk = 1
  MaxExits = 1
  NULL = NULL
INVARIANTS TypeOK OneWorkerPerFile ScoreIsBacked
PROPERTIES ChecksLeaveAnswered QueueIsDrained
CHECK_DEADLOCK FALSE
