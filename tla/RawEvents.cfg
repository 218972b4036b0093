SPECIFICATION MCSpec
CONSTANTS
  Stories = {x, y, z, auto}
  auto = auto
  x = x
  y = y
  z = z
  k1 = k1
  k2 = k2
  k3 = k3
  k4 = k4
  k5 = k5
  w1 = w1
  r1 = r1
  NoEvent = NoEvent
  Events = {1, 2, 3, 4, 5, 6}
  Externals = {x, y, z}
  Keys = {k1, k2, k3, k4, k5}
  Kind <- ThreeStories
  About <- AboutAll
  KeyOf <- OwnKeys
  Drafts = {y}
  Workers = {w1}
  Replayers = {r1}
  PoolOf <- OwnPools
  PoolMax = 2
  MaxRetries = 2
  BatchSize = 2
  ErrorClasses = {"transient"}
  MaxFaults = 1
  MaxReplays = 1
  Inbounds = {i1, i2}
  MaxTime = 2
  Seconds = {0, 2}
  MaxUpsets = 1
  MaxTries = 2
  OpenHours = {0}
  OutsideEnabled = TRUE
  FirstEnabled = FALSE
  NoReplyEnabled = TRUE
  Cooldown = 1
  Delay = 1
  EchoWindow = 2
  QueuedId = QueuedId
  OtherId = OtherId
SYMMETRY InboundSymmetry
INVARIANTS
  DoneMeansApplied
  IInv
  SecondReplyHasACause
  SomeReplyStands
  AutoReplyIInv
PROPERTIES
  ImplementsInboundLog
