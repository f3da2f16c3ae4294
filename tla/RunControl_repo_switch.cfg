\* /repo init while a request runs.
CONSTANTS
  Reqs = {r1}
  Steers = {s1}
  Channels = {telegram}
  Repos = {a, b}
  Externals = {}
  None = None
SPECIFICATION Spec
PROPERTIES
  RepoFixedWhileActive
