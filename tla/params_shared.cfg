\* Two threads of the patch, the host and presets, one parameter.
SPECIFICATION Spec
CONSTANTS
  NumPEx = 1
  Values = {0, 1}
  Writers = {"dsp", "midi"}
  Modulators = {"dsp"}
  Targets <- MCOneTarget
  Contribution <- MCContribution
  Features = {"host", "presets"}
  MaxChanges = 3
INVARIANTS TypeOK ChangesReported
CHECK_DEADLOCK FALSE
