\* Two tabs of one device share a cursor and race for a button, and are alike; history for two of three alerts.
SPECIFICATION Spec
CONSTANTS
  d1 = d1
  d2 = d2
  k1 = k1
  k2 = k2
  Devices = {d1}
  Clients = {k1, k2}
  Owner <- TwoTabs
  MayAck = {d1}
  MayAct = {d1}
  NoDevice = NoDevice
  Kinds <- CoreKinds
  MaxAlerts = 3
  HistoryLimit = 2
  ReplayLimit = 1
  MaxWaiters = 1
  MaxRetries = 0
  SyncsOnReady = FALSE
  EarlySnoozes = FALSE
  Limit <- CoreLimit
SYMMETRY Tabs
CHECK_DEADLOCK FALSE
INVARIANTS
  ActsOnce
  NothingPassedOver
