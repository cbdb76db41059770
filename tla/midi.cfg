\* Queues and packets of two events, so that events share them and the threads
\* wait for room.
SPECIFICATION FairSpec
CONSTANTS
  QueueSize = 8
  SerialInputs <- MCSerialInputs
  HostEvents <- MCHostEvents
  HostTransfers <- MCHostTransfers
  SentOn <- MCSentOn
  MaxEvents = 3
  Early = 1
  MaxTroubles = 1
INVARIANTS TypeOK Fifo TailIsShort SerialHeard PlayedOnce
PROPERTIES WritesReturn EventsPlayed
CHECK_DEADLOCK FALSE
