\* An external client asks while a request waits for its approval.
CONSTANTS
  Reqs = {r1}
  Steers = {s1}
  Channels = {telegram}
  Repos = {a}
  Externals = {x}
  None = None
SPECIFICATION Spec
PROPERTIES
  ApprovalNotReplaced
