\* Two devices, one without notify.ack, that drop, a hub that restarts and an alert resolved.
SPECIFICATION FairSpec
CONSTANTS
  d1 = d1
  d2 = d2
  k1 = k1
  k2 = k2
  Devices = {d1, d2}
  Clients = {k1, k2}
  Owner <- TwoDevices
  MayAck = {d1}
  MayAct = {}
  NoDevice = NoDevice
  Kinds <- PairKinds
  MaxAlerts = 1
  HistoryLimit = 1
  ReplayLimit = 2
  MaxWaiters = 2
  MaxRetries = 1
  SyncsOnReady = FALSE
  EarlySnoozes = FALSE
  Limit <- PairLimit
CHECK_DEADLOCK FALSE
INVARIANT SettledStopsNagging
PROPERTIES
  EveryAlertArrives
  EveryNagEnds
