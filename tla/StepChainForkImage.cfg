SPECIFICATION BuildSpec
CONSTANTS
  None = None
  Cmds = {c1}
  Labels = {}
  KeyOverrides = {}
  Policies = {}
  StepImages = {alpine}
  RootImages = {ubuntu, debian}
  MaxSteps = 3
INVARIANT FirstCommandCarriesRootImage
CHECK_DEADLOCK FALSE
