SPECIFICATION Spec
CONSTANTS
    BYTE = 2
    Calls = {1, 2}
    Requests <- MCRequests
    Results <- MCResults
CHECK_DEADLOCK FALSE
INVARIANTS TypeOK MethodGetsArguments ResultIsOfThisCall FailureTouchesNothing AbortMeansWrongReturnType
