SPECIFICATION RouteFairSpec
CONSTANTS
  n1 = n1
  n2 = n2
  n3 = n3
  n4 = n4
  a = a
  b = b
  bad = bad
  c1 = c1
  c2 = c2
  Chains <- MCChains
  Tables <- MCTables
  Networks <- MCNetworks
  Instances <- MCInstances
  Configs <- MCConfigs
  BadConfigs = {bad}
  BadURIs = {n3}
  Rows <- MCRows
  Proxy = Proxy
  MaxChanges = 2
  MaxCrashes = 1
  NoValue = NoValue
INVARIANTS
  OneGeneration
  ServedAsConfigured
PROPERTIES
  Converges
