\* One client snoozes while alerts, some critical, go on, and its socket is lost.
SPECIFICATION FairSpec
CONSTANTS
  d1 = d1
  d2 = d2
  k1 = k1
  k2 = k2
  Devices = {d1}
  Clients = {k1}
  Owner <- OneClient
  MayAck = {d1}
  MayAct = {}
  NoDevice = NoDevice
  Kinds <- NapKinds
  MaxAlerts = 3
  HistoryLimit = 3
  ReplayLimit = 2
  MaxWaiters = 1
  MaxRetries = 0
  SyncsOnReady = TRUE
  EarlySnoozes = FALSE
  Limit <- NapLimit
CHECK_DEADLOCK FALSE
INVARIANT HeldWithinReach
PROPERTY EveryHoldIsLifted
