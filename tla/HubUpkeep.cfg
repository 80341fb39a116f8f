\* One heartbeat, three alerts of a key, a history of one alert, two roles and two devices; four
\* subscriptions and two keys; one token and two requests; three attempts and two senders; two
\* hubs on one directory, with one log.
SPECIFICATION Spec
CONSTANTS
  MaxSeq = 3
  MaxLog = 3
  HistoryLimit = 1
  b1 = b1
  m1 = m1
  r1 = r1
  a1 = a1
  Names = {b1}
  Keys = {m1, r1, a1}
  Exempt = {r1}
  Missed <- MissedKeys
  Recovered <- RecoveredKeys
  Repeating = {b1}
  Deadline = 2
  SweepEvery = 1
  Burst = 1
  WindowLen = 2
  MaxWindows = 1
  MaxOccurrences = 3
  RoleNames = {"admin", "other"}
  Top = "admin"
  Boss = "b"
  Devices = {"b", "d"}
  Caps = {"admin", "devices.manage", "roles.manage", "notify.receive"}
  Receiving = {"notify.receive"}
  NoRole = "none"
  MaxOut = 1
  Endpoints = {"e1", "e2", "e3", "e4"}
  Refused = {"e3"}
  Unusable = {"e4"}
  MaxKeys = 2
  MaxRuns = 2
  MaxTabs = 3
  TokenLife = 3
  TokenReuse = 2
  EvenWhenOnline = TRUE
  t1 = t1
  q1 = q1
  q2 = q2
  Tokens = {t1}
  Requests = {q1, q2}
  BanAfter = 2
  RatePerMinute = 1
  n1 = n1
  n2 = n2
  n3 = n3
  Attempts = {n1, n2, n3}
  NoAttempt = NoAttempt
  p1 = p1
  p2 = p2
  Senders = {p1, p2}
  KeepsTrying = TRUE
  x1 = x1
  x2 = x2
  Hubs = {x1, x2}
  NoHub = NoHub
  Logs = {"history"}
CHECK_DEADLOCK FALSE
INVARIANTS
  NumbersAreFresh
  EachAlertOnce
  ArmedOrWritten
  SilenceIsNoticed
  AlarmMatches
  EveryAlertCounts
  NoEscalation
  Wakeable
  RevokedIsFinal
  ConnectIsUsable
  OverlapIsSaid
  RestoreIsWhole
