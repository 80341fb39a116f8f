\* One call, every shape of ladder, one repeat; the listener never calls back.
SPECIFICATION FairSpec
CONSTANTS
  d1 = d1
  d2 = d2
  Devices = {d1, d2}
  Calls = {c1}
  NoCall = NoCall
  NoDevice = NoDevice
  Ladders <- OneCallLadders
  MaxRepeat = 1
  ListenerCancels = FALSE
INVARIANTS
  SilentOnceSettled
  DeclinedIsUnanimous
PROPERTIES
  KeepsPromise
  EveryCallSettles
  EveryRecordReleased
