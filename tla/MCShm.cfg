\* A ring of 4 slots (3 items): batches of 2 wrap in every direction.  Two classes and one
\* page of two blocks; a third process starts when one has died.
CONSTANTS
  N = 4
  Threads = {t1, t2}
  Free = Free
  Items = {a, b}
  Junk = Junk
  MaxCount = 2
  Procs = {p, q}
  Dead = Dead
  MaxClass = 2
  PageBlocks = 2
  Pages = 1
  MaxHeld = 2
  MaxStarts = 3
SPECIFICATION ShmSpec
SYMMETRY Symmetry
INVARIANTS TypeOK NoJunkRead BlocksAccounted
PROPERTIES UnreadKept FifoSpec
CHECK_DEADLOCK FALSE
