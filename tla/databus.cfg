SPECIFICATION Spec
CONSTANTS
  Systems = {s1}
  Pumps = {p1, p2}
  Queues = {q1, q2}
  QueueOf <- QueuePerPump
  None = none
  p1 = p1
  p2 = p2
  q1 = q1
  q2 = q2
  MaxGroups = 2
  MaxCrashes = 1
  SendsFail = TRUE
INVARIANTS TypeOK EveryGroupOnce MissesAtMostOne
CHECK_DEADLOCK FALSE
