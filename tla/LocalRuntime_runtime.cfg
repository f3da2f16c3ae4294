CONSTANTS
  Clients = {desk}
  Others = {editor}
  Ui = Ui
  MaxPids = 2
  None = None
SPECIFICATION FairSpec
CHECK_DEADLOCK FALSE
INVARIANTS TypeOK OwnServiceStopped SubmittedAsFinished LeaseReleased
PROPERTIES ClientsEnd UiFollowsItsService
