SPECIFICATION DevSpec
CONSTANTS
  None = None
  f = f
  k1 = k1
  k2 = k2
  c1 = c1
  c2 = c2
  MaxDeployments = 1
  Images = {postgres}
  Chains <- MCChains
  Policies <- MCPolicies
  Empty = Empty
  EnvKeys = {}
  Paths = {f}
  Contents <- MCTwoContents
INVARIANT WatchesTheWorktree
