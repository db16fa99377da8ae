SPECIFICATION FairSpec
CONSTANTS
  Thread = {t1, t2}
  NoThread = none
  Gem5 = FALSE
  Ops = 2
  Key = {1, 2}
  MaxPrefill = 1
  head = head
  tail = tail
  Null = null
INVARIANTS ListIsWhole CountIsRegular
PROPERTIES EffectsAreAtomic Termination
