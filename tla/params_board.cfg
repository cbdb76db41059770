\* The dsp thread alone, with one source that modulates both parameters.
SPECIFICATION FairSpec
CONSTANTS
  NumPEx = 2
  Values = {0, 1}
  Writers = {"dsp"}
  Modulators = {"dsp"}
  Targets <- MCTargets
  Contribution <- MCContribution
  Features = {}
  MaxChanges = 3
INVARIANT ModulationKept
PROPERTY PatcherFollows
CHECK_DEADLOCK FALSE
