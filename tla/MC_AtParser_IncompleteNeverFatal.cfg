CONSTANTS
  ValueParsers <- MCValueParsers
  Digits <- MCDigits
  Scenarios <- MCScenarios
  None = None
  MaxIntr = 0
SPECIFICATION MCSpec
INVARIANT IncompleteNeverFatal
CHECK_DEADLOCK FALSE
