SPECIFICATION FairSpec
CONSTANTS
  Systems = {s1, s2}
  Pumps = {p1, p2}
  Queues = {q1}
  QueueOf <- SharedQueue
  None = none
  p1 = p1
  p2 = p2
  q1 = q1
  q2 = q2
  MaxGroups = 2
  MaxCrashes = 0
  SendsFail = FALSE
INVARIANTS GroupsArriveInOrder
PROPERTIES EveryGroupReachesPump
CHECK_DEADLOCK FALSE
