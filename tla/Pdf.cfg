SPECIFICATION Spec
CONSTANTS
    Entries <- MCEntries
    MaxEntries = 4
INVARIANTS PrimaryIsComplete EmbedsAreNumbered
PROPERTIES NothingIsHidden
CHECK_DEADLOCK FALSE
