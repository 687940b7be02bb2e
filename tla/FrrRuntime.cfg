\* One node with zebra and a routing daemon.
SPECIFICATION Spec
CONSTANTS
  Nodes <- OneNode
  Daemons <- TwoDaemons
  Pids = {p1, p2, p3}
  MaxHarm = 2
SYMMETRY PidSymmetry
INVARIANTS StopIsComplete StrangersSpared RefusedForCause StartedIsReady
PROPERTY OthersKept
