\* One channel, as from Telegram alone: one request, two steers, two repos.
CONSTANTS
  Reqs = {r1}
  Steers = {s1, s2}
  Channels = {telegram}
  Repos = {a, b}
  Externals = {}
  None = None
SPECIFICATION FairSpec
INVARIANTS
  SteeredRunIsInterrupted RetiredThreadStaysClosed
PROPERTIES
  AdmissionEnds QueueDrains
