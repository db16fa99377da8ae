SPECIFICATION Spec
CONSTANTS
  Thread = {t1, t2}
  NoThread = none
  Gem5 = FALSE
  Ops = 1
  Key = {1, 2}
  MaxPrefill = 1
  head = head
  tail = tail
  Null = null
INVARIANT NoNullDereference
