\* Connected, every acknowledgement in time; tasks of one and of two rounds.
SPECIFICATION FairSpec
CONSTANTS
  Asked = {"ping", "stop", "upload", "dial", "gui"}
  QueueCap = 2
  Timeouts = FALSE
  MaxTasks = 4
  MaxCalls = 0
PROPERTIES OneByOne TasksReturn
CHECK_DEADLOCK FALSE
