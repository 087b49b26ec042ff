\* An agent gets a name that another had before its rename.
CONSTANTS
  ours = ours
  agent1 = agent1
  agent2 = agent2
  h1 = h1
  h2 = h2
  Admin = Admin
  None = None
  System = ours
  Names <- ThreeNames
  Listed <- ShownAs
  Family <- Versions
  Boxes <- FiveBoxes
  Handlers <- TwoHandlers
  MaxFaults = 0
SPECIFICATION Unrenamed
PROPERTY OwnWorkspace
CHECK_DEADLOCK FALSE
