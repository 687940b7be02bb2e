CONSTANTS
  big = big
  small = small
  sw = sw
  host = host
  cable = cable
  Topos <- MCTopos
  AssetsOf <- MCAssetsOf
  NoEntry = NoEntry
SPECIFICATION Spec
INVARIANTS NoOrphans
