CONSTANTS
  Procs = {p1}
  big = big
  small = small
  sw = sw
  host = host
  cable = cable
  Topos <- MCTopos
  Namespaces <- MCNamespaces
  Links <- MCLinks
  NodesOf <- MCNodesOf
  BridgesOf <- MCBridgesOf
  LinksOf <- MCLinksOf
  Ends <- MCEnds
  Routed <- MCRouted
  MaxMishaps <- OneRemoval
  Nobody = Nobody
  Root = Root
  NoRuntime = NoRuntime
  NoSnapshot = NoSnapshot
SPECIFICATION Spec
INVARIANT DestroyWithoutState
