\* Every answer, lost or not, at every call of one create_veth.
SPECIFICATION FairSpec
CONSTANT Patience = 2
INVARIANTS OthersUnharmed ReturnsConfigured RetriesDoNotCollide LeftoverIsVisible
PROPERTY Returns
CHECK_DEADLOCK FALSE
