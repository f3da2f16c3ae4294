\* A follow-up that loses the admission to another /run.
CONSTANTS
  Reqs = {r1, r2}
  Steers = {s1}
  Channels = {telegram}
  Repos = {a}
  Externals = {}
  None = None
SPECIFICATION Spec
INVARIANTS
  FollowUpKept
