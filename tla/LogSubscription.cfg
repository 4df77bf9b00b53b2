CONSTANTS
  Observers = {o1, o2, o3}
  MaxSubscribers = 2
SPECIFICATION FairSubscriptionSpec
CHECK_DEADLOCK FALSE
INVARIANTS
  SubscribedIsReachable
  NothingRemains
PROPERTIES
  SubscriptionEnds
