SPECIFICATION MCSpec
CONSTANTS
  Selections <- MCSelections
  Olds = {o1, o2}
  Us = Us
  Rival = Rival
  NoOwner = NoOwner
  Properties <- MCProperties
  NoValue = NoValue
  Targets = {x1, x2}
  Masks = {"focus", "structure"}
  MaxRequests = 3
  Groups = {g}
  Quads = {q}
  Textures = {t}
  Stage = Stage
  None = None
  Opacities = {1, 2}
  Durations = {0, 1}
  MaxTidySteps = 5
  Layers = {1, 2, 3}
  StackedWindows = {w1, w2, w3}
  MaxStackSteps = 7
  Unset = Unset
  SizeHintSet <- MCSizeHints
  WindowWidths = {1, 2}
  WindowXs = {1}
  Scales = {1}
  OffscreenX = 4
  MaxClientSteps = 2
  MaxCalls = 1
  Tabs = {t1, t2, t3}
  ChromeWindows = {c1, c2}
  NoTab = NoTab
  NoWindow = NoWindow
  MaxChromeSteps = 7
  ConsumerXids = {"a", "b", "c"}
  MaxConsumerSteps = 5
  OverlayKeys <- MCOverlayKeys
  Keycodes = {1, 2}
  MaxOverlaySteps = 4
CHECK_DEADLOCK FALSE
INVARIANTS
  ManagesAlone
  SceneIsDrawn
  StackedInLayers
  WindowIsCurrent
  ChromeAgrees
  EventsReachOwner
  OverlayShowsHeldKeys
PROPERTIES
  RegisterExistenceReturns
  CallsAnswerForThemselves
