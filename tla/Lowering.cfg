SPECIFICATION LoweringSpec
CONSTANTS
  None = None
  n1 = n1
  Cmds = {c1, c2}
  EditedCmds = {c2}
  Labels = {build}
  KeyOverrides = {n1}
  Policies <- MCPolicies
  StepImages = {}
  RootImages = {}
  Slugs = {n1}
  Slug <- MCSlug
  MaxSteps = 5
  MaxRendered = 4
INVARIANTS EqualKeysSameBuild DuplicatesStayLocal RebuildKeepsKeys KeysSurviveAddition
