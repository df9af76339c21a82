SPECIFICATION KeySpec
CONSTANTS
  None = None
  build = build
  build2 = build2
  emoji = emoji
  n1 = n1
  n2 = n2
  Cmds = {c1}
  Labels = {build, build2, emoji}
  KeyOverrides = {n1, n2}
  Policies = {}
  StepImages = {}
  RootImages = {}
  Slugs = {n1}
  Slug <- MCSlug
  MaxSteps = 4
INVARIANTS KeyTypeOK KeysDistinct PrecedenceRespected BuildsInResolves
