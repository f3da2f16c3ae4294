CONSTANTS
  Users = {alice}
  Chats = {chat}
  RelayEnabled = TRUE
  DiscardBacklog = TRUE
  MaxUpdates = 1
  MaxCommands = 1
  MaxLives = 2
  MaxChanges = 1
  MaxRuns = 1
  Nobody = Nobody
SPECIFICATION FairSpec
CHECK_DEADLOCK FALSE
INVARIANTS TypeOK NothingLeftUnsaved ActiveRequestHasARun BacklogStaysDiscarded StopFlushes
PROPERTIES ImplementsDurableState HandledOncePerLife StopEnds
