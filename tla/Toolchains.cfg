SPECIFICATION Spec
CONSTANTS
  None = None
  Cmds = {"apt", "install", "layer", "user", "action"}
  Labels = {}
  KeyOverrides = {}
  Policies = {"none", "ttl", "forever", "on_change"}
  StepImages = {alpine}
  RootImages = {ubuntu}
  MaxSteps = 5
  Tools = {"rust", "haskell", "npm", "elm", "zig"}
  MaxWritten = 2
  MaxLeaves = 2
INVARIANTS NoImageIsIgnored ProjectsShareInstall UncachedParentIsUsers
