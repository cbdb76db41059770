\* Commands with and without data; one block fills its packets, one does not.
SPECIFICATION FairSpec
CONSTANTS
  PacketSize = 64
  QueueSize = 256
  Asked <- MCAsked
  Played <- MCPlayed
  Torn = FALSE
  MaxCommands = 3
INVARIANTS TypeOK NothingDropped BlockUploaded
PROPERTY CarriedOutAsSent
CHECK_DEADLOCK FALSE
