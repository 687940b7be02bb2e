CONSTANTS
  Procs = {p1, p2}
  Timeout = 3
  Poll = 2
  Nobody = Nobody
SPECIFICATION FairSpec
INVARIANTS Exclusion NoDescriptorLeft
PROPERTIES WaitersAreAnswered
