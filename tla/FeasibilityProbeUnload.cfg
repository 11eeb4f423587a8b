\* The primary model and one descriptive model, and one thing that goes wrong.
CONSTANTS
  Models = 2
  MaxTrouble = 1
  None = None
SPECIFICATION Spec
CHECK_DEADLOCK FALSE
INVARIANT DescriptiveOnly
