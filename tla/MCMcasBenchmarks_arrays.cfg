SPECIFICATION FairSpec
CONSTANTS
  t1 = t1
  t2 = t2
  t3 = t3
  Thread = {t1, t2, t3}
  NoThread = none
  Gem5 = FALSE
  Algorithm = {"mwobject", "arrayswap"}
  Updates = 2
  Swaps = 1
  Modulus = 4
  NumRows = 3
  Share <- Shares
  MapNodes = 5
  TreeNodes = 6
  TableSize = 1
  Key = {1, 2, 3}
  MapKey = {1, 2}
  SentinelMax = 9
  Prefilled <- Trees
INVARIANTS Permutation
PROPERTIES UpdatesAreAtomic TornLoadsLose SwapsAreAtomic Termination
