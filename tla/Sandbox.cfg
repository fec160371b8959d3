SPECIFICATION Spec
CONSTANTS
    Calls = {c1, c2}
INVARIANTS TypeOK SuccessIsComplete NoContainerLeft
CHECK_DEADLOCK FALSE
