SPECIFICATION Spec
CONSTANTS
  None = None
  Empty = Empty
  e = e
  f = f
  k = k
  k1 = k1
  k2 = k2
  k3 = k3
  c1 = c1
  c2 = c2
  p = p
  q = q
  Projects <- MCProjects
  Versions <- MCVersions
  Policies <- MCPolicies
  EnvKeys = {e}
  EnvVals = {Empty, x}
  Paths = {f}
  Contents <- MCContents
  Pipelines = {p, q}
  Horizon = 4
  MaxBuilds = 2
  MaxChanges = 1
SYMMETRY Renaming
INVARIANTS KeyFollowsInputs RenderRaisesExactlyWhenUnsound
