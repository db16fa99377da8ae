SPECIFICATION Spec
CONSTANTS
  t1 = t1
  t2 = t2
  t3 = t3
  Thread = {t1, t2, t3}
  Owner = t1
  Algorithm = {"queue", "stack", "spsc", "deque", "sorted-list", "hashmap", "bst"}
  Share <- Shares
  MaxNodes = 8
  TreeNodes = 14
  Prefill = {0, 2}
  LogInitial = 0
  Key = {1, 2, 3}
  ListKey = {2, 3}
  SentinelMin = 0
  SentinelMax = 9
  Prefilled <- Trees
  WordSize = 4
  Void = Void
  Empty = Empty
  Pending = Pending
INVARIANTS BuffersOutliveSteals ListStaysWhole LinksLeadOn
PROPERTIES StackIsLinearizable QueueIsLinearizable DequeIsLinearizable TreeIsASet Termination
