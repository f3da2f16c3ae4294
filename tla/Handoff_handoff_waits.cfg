CONSTANTS
  ModeSections = {"QUESTIONS"}
  AllowForce = FALSE
  Channels = {telegram}
  Posts = {p1, p2, p3}
  Bundles = {b1}
  WorkItems = 2
  SpecRef = 2
  MaxOpen = 1
  MaxLeases = 2
  MaxVersion = 2
  None = None
SPECIFICATION Spec
SYMMETRY Symmetry
INVARIANTS ReportedCompletionArrives
