CONSTANTS
  Sessions = {s1}
  Keys = {k1}
  Channels = {telegram}
  MaxLeases = 1
  MaxLeaseSeconds = 1
  MaxSequence = 1
  MaxReading = 1
  None = None
SPECIFICATION AnsweringSpec
PROPERTIES PendingApprovalCanBeAnswered
