SPECIFICATION SocketSpec
CONSTANTS
  w1 = w1
  Wrappers = {w1}
  Residents = {s1, s2}
  Judged = {}
  Notices = {n1}
  HomeOf <- OneWrapper
  MaxUnread = 1
  NULL = NULL
INVARIANTS SocketTypeOK OnlyRivalsAreTurnedAway
PROPERTIES LoneResidentIsServed
CHECK_DEADLOCK FALSE
