SPECIFICATION TopoSpec
CONSTANTS
  None = None
  Cmds = {c1}
  Labels = {}
  KeyOverrides = {}
  Policies = {}
  StepImages = {}
  RootImages = {ubuntu}
  MaxSteps = 4
  MaxLeaves = 3
INVARIANTS ImageStopsAtCommand TopoTypeOK ParentFirst EmittedOnce Complete WaitsAreBarriers ResultIsCollected
PROPERTIES CallReturns OrderSpec
