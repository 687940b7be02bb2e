CONSTANTS
  Procs = {p1}
  big = big
  small = small
  sw = sw
  host = host
  cable = cable
  Topos <- MCTopos
  Namespaces <- MCNamespaces
  Links <- MCLinks
  NodesOf <- MCNodesOf
  BridgesOf <- MCBridgesOf
  LinksOf <- MCLinksOf
  Ends <- MCEnds
  Routed <- MCRouted
  MaxMishaps <- NoRemoval
  Nobody = Nobody
  Root = Root
  NoRuntime = NoRuntime
  NoSnapshot = NoSnapshot
SPECIFICATION FairSpec
INVARIANTS TypeOK LiveIsRecorded DeployedIsVerified RefusalTouchesNothing SuccessIsDurable CleanRunSucceeds
PROPERTIES ForeignSpared ImplementsJournal Terminates
