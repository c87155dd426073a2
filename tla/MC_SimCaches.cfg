CONSTANTS
  MaxRequests = 3
  MaxCusatp = 3
  MaxReports = 2
  MaxUnsol = 3
  MaxCalls = 2
SPECIFICATION MCSpec
INVARIANT CachesAgreeAfterRegistration CommandIndicatedOnce SignalReachesClient
CHECK_DEADLOCK FALSE
