\* Two channels at once: two requests, a steer and an external approval.
CONSTANTS
  Reqs = {r1, r2}
  Steers = {s1}
  Channels = {telegram, local}
  Repos = {a}
  Externals = {x}
  None = None
SPECIFICATION Spec
SYMMETRY Symmetry
INVARIANTS
  TypeOK AdmissionExclusive ActiveRequestIsCurrent LiveChildIsAbortable NoUnapprovedRun
  SteersInOnePlace SettledNotApplied
PROPERTIES
  StartsOnce ApprovalKeptByRequests ImplementsSlot NoSilentRun
