SPECIFICATION Spec
CONSTANTS
  w1 = w1
  Wrappers = {w1}
  Residents = {}
  Judged = {h1, h2}
  Notices = {}
  HomeOf <- OneWrapper
  MaxUnread = 0
  Procs = {p1, p2}
  NULL = NULL
INVARIANTS TypeOK SocketHasOneOwner ReadyMeansIdle OneJudgmentPerProcess SweepSparesOwnJudge
PROPERTIES JudgeIsAService HookIsReleased
CHECK_DEADLOCK FALSE
