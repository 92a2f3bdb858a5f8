SPECIFICATION Spec
CONSTANTS
  Second = 1
  MaxInt32 = 127
  MaxInt64 = 8388607
  Unparsable = Unparsable
  Environments <- MCEnvironments
INVARIANTS
  OperatorSettingsTakeEffect
  ShortWindowsAreUnvalidated
  PurgeClearsRetryBudget
PROPERTY AcceptedConfigBoots
CHECK_DEADLOCK FALSE
