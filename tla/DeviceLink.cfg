\* A deadline of two ticks and a farewell of three; two sources of one hub; two calls of two
\* hubs, with room for two taps; three intents for the watch service; three presses on the
\* desktop; two calls in a tab; a program with each kind of storage, and two seeds.
SPECIFICATION Spec
CONSTANTS
  Deadline = 2
  Backoff = 1
  Farewell = 3
  Patience = 3
  StrayLimit = 1
  ProbeLimit = 2
  AutoReconnect = TRUE
  a = a
  b = b
  Ids = {a, b}
  HubOf <- OneHubTwice
  c1 = c1
  c2 = c2
  h1 = h1
  h2 = h2
  Calls = {c1, c2}
  NoCall = NoCall
  Hubs = {h1, h2}
  Placer <- EachItsOwn
  TapLimit = 2
  CommandLimit = 3
  DeskCalls = {c1, c2}
  NoDeskCall = NoDeskCall
  PressLimit = 3
  WebCalls = {c1, c2}
  NoWebCall = NoWebCall
  app = app
  cli = cli
  s1 = s1
  s2 = s2
  Programs = {cli, app}
  Guarded = {cli}
  Seeds = {s1, s2}
CHECK_DEADLOCK FALSE
INVARIANTS
  WayBack
  AlarmIsTrue
  DeclineIsHeard
  RingIsAnswerable
  WatchGoesOn
  RingFollowsCall
  TabRings
  SeedsKept
PROPERTIES
  ListIsKept
