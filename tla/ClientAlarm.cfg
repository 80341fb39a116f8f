\* As DeviceLink; does the deadline decide, whatever reconnects meanwhile?
SPECIFICATION ClientSpec
CONSTANTS
  Deadline = 2
  Backoff = 1
  Farewell = 2
  Patience = 4
  StrayLimit = 1
  ProbeLimit = 2
  AutoReconnect = TRUE
CHECK_DEADLOCK FALSE
PROPERTIES
  DeadlineDecides
