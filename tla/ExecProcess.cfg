\* One command, both signals, up to two failing calls.
SPECIFICATION FairSpec
CONSTANT MaxFailures = 2
INVARIANTS NothingLeftBehind MaskRestored NoSignalLost
PROPERTY SignalEnds
CHECK_DEADLOCK FALSE
