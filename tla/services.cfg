\* A ring that two messages fill; memory for two blocks.
SPECIFICATION FairSpec
CONSTANTS
  RingSize = 4
  PerTransfer = 2
  Messages <- MCMessages
  Absent = Absent
  MaxErrors = 1
  SdramSize = 16
  Sizes <- MCSizes
  MaxBlocks = 3
  MaxSends = 2
  MaxPatches = 2
  MaxResets = 1
INVARIANTS TypeOK RunsInItsMemory RingInOrder NoneSkipped FaultKept NoneUntold
PROPERTY EventuallyTaken
CHECK_DEADLOCK FALSE
