\* Two requests of any kind on the system agent and two others.
CONSTANTS
  ours = ours
  agent1 = agent1
  agent2 = agent2
  h1 = h1
  h2 = h2
  Admin = Admin
  None = None
  System = ours
  Names <- ThreeNames
  Listed <- ShownAs
  Family <- Versions
  Boxes <- FiveBoxes
  Handlers <- TwoHandlers
  MaxFaults = 1
SPECIFICATION Spec
INVARIANTS
  TypeOK
  Agreement
  RowsHaveKeys
PROPERTIES
  SystemStays
SYMMETRY Swaps
CHECK_DEADLOCK FALSE
