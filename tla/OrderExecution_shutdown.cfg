SPECIFICATION FairSpec
CONSTANTS
  Orders = {o1, o2}
  Managers = {m1}
  NoOrder = NoOrder
PROPERTY DestructorReturns
CHECK_DEADLOCK FALSE
