CONSTANT MaxRequests = 3
SPECIFICATION Spec
INVARIANT PowerRequestHonoured
CHECK_DEADLOCK FALSE
