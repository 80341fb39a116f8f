\* The socket may fail between an auth frame and its verified signature.
SPECIFICATION Spec
CONSTANTS
  s1 = s1
  s2 = s2
  s3 = s3
  i1 = i1
  i2 = i2
  d1 = d1
  d2 = d2
  Slots = {s1, s2}
  Addresses = {i1}
  AddressOf <- OneAddress
  Devices = {d1}
  NoDevice = NoDevice
  Codes = {c1}
  CodeUses = 1
  MaxPerAddress = 2
  MaxUnauth = 1
  MaxDevices = 1
  MaxFailures = 2
  MaxLevel = 1
  MaxPending = 2
  ErrorsInFlight = TRUE
CHECK_DEADLOCK FALSE
INVARIANTS
  PresenceIsReal
