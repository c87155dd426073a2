CONSTANTS
  ValueParsers <- MCValueParsers
  Digits <- MCDigits
  Scenarios <- MCScenarios
  None = None
  MaxIntr = 1
SPECIFICATION MCSpec
INVARIANT InterruptedReadHarmless
CHECK_DEADLOCK FALSE
