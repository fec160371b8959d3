SPECIFICATION Spec
CONSTANTS
    Clients = {c1, c2}
    JobIds = {j1, j2}
    SessionIds = {s1}
    NoJob = NoJob
    NoSession = NoSession
    MaxFaults = 1
SYMMETRY MongoSymmetry
INVARIANTS TypeOK  JobsHaveFiles NoDocumentLeft
PROPERTIES DeletedForever FindFailsOnlyOfDeleted ImplementsStore
CHECK_DEADLOCK FALSE
