SPECIFICATION FairSpec
CONSTANTS
  Orders = {o1, o2, o3}
  Managers = {m1, m2}
  NoOrder = NoOrder
INVARIANTS NoLostWakeup FIFO AtMostOneLateTake
PROPERTIES RefinesDispatch QueuedOrderIsTaken TakenIsReported JoinReturnsUnlessAsleep
CHECK_DEADLOCK FALSE
