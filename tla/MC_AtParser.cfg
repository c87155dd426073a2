CONSTANTS
  ValueParsers <- MCValueParsers
  Digits <- MCDigits
  Scenarios <- MCScenarios
  None = None
  MaxIntr = 1
SPECIFICATION MCSpec
INVARIANT TypeOK NoCorruption AllDelivered
INVARIANT RegRoundTrip CopsRoundTrip ClccRoundTrip CcfcuRoundTrip CsqFieldsByPosition FieldRepliesRoundTrip
INVARIANT AllowedTechnologyConsistent UsimResponseConverted
CHECK_DEADLOCK FALSE
