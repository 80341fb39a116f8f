\* Two calls over the same phones, and a listener that cancels calls from its
\* callback.
SPECIFICATION Spec
CONSTANTS
  d1 = d1
  d2 = d2
  Devices = {d1, d2}
  Calls = {c1, c2}
  NoCall = NoCall
  NoDevice = NoDevice
  Ladders <- TwoCallLadders
  MaxRepeat = 0
  ListenerCancels = TRUE
INVARIANTS
  NeverStranded
  OneRungRings
