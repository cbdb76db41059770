\* A board without host and card switch boots; its patches load one another.
SPECIFICATION FairSpec
CONSTANTS
  Patches = {p1, p2}
  Features = {"boot", "load", "index"}
  MaxToggles = 0
PROPERTIES RegionSafe LoadsEnd
