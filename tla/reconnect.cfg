\* Late acknowledgements, disconnections at any point, one connection anew.
SPECIFICATION FairSpec
CONSTANTS
  Asked = {"ping", "upload"}
  QueueCap = 1
  Timeouts = TRUE
  MaxTasks = 1
  MaxCalls = 1
INVARIANT TypeOK
PROPERTIES TasksReturn DisconnectEnds
CHECK_DEADLOCK FALSE
