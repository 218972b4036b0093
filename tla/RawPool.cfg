SPECIFICATION MCFairSpec
CONSTANTS
  Stories = {x}
  auto = auto
  x = x
  y = y
  z = z
  k1 = k1
  k2 = k2
  k3 = k3
  k4 = k4
  k5 = k5
  w1 = w1
  r1 = r1
  NoEvent = NoEvent
  Events = {1, 2}
  Externals = {x}
  Keys = {k1, k2, k3}
  Kind <- MessageFirst
  About <- AllAboutX
  KeyOf <- OwnKeys
  Drafts = {}
  Workers = {w1}
  Replayers = {r1}
  PoolOf <- OnePool
  PoolMax = 2
  MaxRetries = 2
  BatchSize = 2
  ErrorClasses = {"transient"}
  MaxFaults = 1
  MaxReplays = 1
  Inbounds = {i1}
  MaxTime = 2
  Seconds = {0, 2}
  MaxUpsets = 1
  MaxTries = 1
  OpenHours = {0}
  OutsideEnabled = TRUE
  FirstEnabled = FALSE
  NoReplyEnabled = TRUE
  Cooldown = 1
  Delay = 1
  EchoWindow = 2
  QueuedId = QueuedId
  OtherId = OtherId
PROPERTIES
  EveryMessageArrives
  EveryEventSettles
