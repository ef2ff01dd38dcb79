SPECIFICATION Spec
CONSTANTS
  Panels = {p1, p2}
  NoPanel = NoPanel
  NoHandle = NoHandle
  TitlebarHeight = 2
  MinSize = 3
  StartSize <- MCStartSize
  Gap = 1
  HiddenHeight = 1
  DetachThreshold = 4
  AttachThreshold = 2
  DockWidth = 5
  Screens <- MCScreens
  Points <- MCPoints
  Sizes <- MCSizes
  Motions <- MCMotions
  MaxFocusEvents = 2
  MaxSteps = 6
  DragHandles = {"left"}
  StartScreen <- MCStartScreen
SYMMETRY Symmetry
CHECK_DEADLOCK FALSE
INVARIANTS
  PanelsInPlace
  PanelsReachable
