SPECIFICATION Spec
CONSTANTS
  Thread = {t1, t2}
  NoThread = none
  Addr = {a1, a2, a3}
  Val = {0, 1}
  MaxWords = 2
  Gem5 = FALSE
SYMMETRY Symmetry
INVARIANT AtomicToReaders
