SPECIFICATION FairSpec
CONSTANTS
  t1 = t1
  t2 = t2
  t3 = t3
  Thread = {t1, t2, t3}
  NoThread = none
  Gem5 = FALSE
  Share <- Shares
  MaxNodes = 7
  Menu <- DequeMenu
  MaxPrefill = 2
  This = this
  Dummy = dummy
  Null = null
  Void = void
  Empty = empty
  Pending = pending
INVARIANT WellLinked
PROPERTIES Linearizable DeadForGood Termination
