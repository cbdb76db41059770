\* An idle board served by the host alone; two patches to upload.
SPECIFICATION FairSpec
CONSTANTS
  Patches = {p1, p2}
  Features = {"host"}
  MaxToggles = 0
INVARIANTS RunningIsInstalled StoppedMeansStopped
PROPERTIES RegionSafe CommandsReturn
