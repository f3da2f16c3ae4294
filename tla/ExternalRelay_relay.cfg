CONSTANTS
  Sessions = {s1, s2}
  Keys = {k1}
  Channels = {telegram, queue}
  MaxLeases = 2
  MaxLeaseSeconds = 2
  MaxSequence = 2
  MaxReading = 1
  None = None
SPECIFICATION Spec
SYMMETRY Symmetry
INVARIANTS TypeOK RevokedLeaseLeavesNothing PendingApprovalIsKnown
PROPERTIES VerdictIsOnWhatWasShown ImplementsSessionLease
