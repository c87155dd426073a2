CONSTANT MaxRequests = 2
SPECIFICATION Spec
INVARIANT PduOnlyAtPrompt
PROPERTY RequestsAnswered
CHECK_DEADLOCK FALSE
