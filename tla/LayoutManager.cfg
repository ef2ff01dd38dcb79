SPECIFICATION Spec
CONSTANTS
  a = a
  b = b
  Toplevels = {a, b}
  Transients = {x, y}
  None = None
  ScreenWidth = 100
  Padding = 1
  Existing <- MCExisting
  Areas <- MCAreas
  StartArea <- MCStartArea
  Sizes <- MCSizes
  TransientSize <- MCTransientSize
  TransientKinds <- MCTransientKinds
  Places <- MCPlaces
  TabPoints <- MCTabPoints
  TabOffset <- MCTabOffset
  Summary <- MCSummary
  CreateWidth = 4
  Pan = 5
  UsedKeys <- MCUsedKeys
  MaxFocusEvents = 2
  MaxSteps = 4
SYMMETRY Symmetry
CHECK_DEADLOCK FALSE
INVARIANTS
  LayoutIsConsistent
PROPERTIES
  ModalNotLost
