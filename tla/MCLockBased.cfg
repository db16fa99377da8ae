SPECIFICATION Spec
CONSTANTS
  Thread = {t1, t2}
  Ops = 3
  Algorithm = {"mwobject", "stack", "queue", "deque", "sorted-list", "hashmap", "bst"}
  MaxNodes = 6
  TableSize = 2
  Key = {1, 2, 3}
  Value = {4, 5}
  SentinelMin = 0
  SentinelMax = 9
  head = head
  tail = tail
  Null = null
INVARIANTS PopsAreRight StackIsSafe ContentsAreRight
