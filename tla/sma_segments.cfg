SPECIFICATION Spec
CONSTANTS
  Proc = {w1, w2}
  NSegs = 2
  SegSize = 283
  HdrSize = 24
  BlockSize = 32
  Word = 8
  Sizes = {5, 75}
  LockMayFail = TRUE
  ZTS = TRUE
SYMMETRY Symmetry
INVARIANTS SegmentSound LiveDisjoint Reclaimed
PROPERTIES RefusedOnlyWhenFull
