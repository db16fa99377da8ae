SPECIFICATION FairSpec
CONSTANTS
  Thread = {t1, t2}
  NoThread = none
  Addr = {a1, a2}
  Val = {0, 1}
  MaxWords = 2
  Gem5 = FALSE
INVARIANTS TypeOK LockDiscipline
PROPERTIES Atomic LockComesFree SomeCallReturns
