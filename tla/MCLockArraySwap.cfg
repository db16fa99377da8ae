SPECIFICATION Spec
CONSTANTS
  Thread = {t1, t2, t3}
  NoThread = none
  Ops = 2
  NumRows = 3
SYMMETRY Symmetry
INVARIANTS TypeOK NoCircularWait PermutationWhenDone
PROPERTY SwapsAreAtomic
