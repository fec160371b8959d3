SPECIFICATION Spec
CONSTANTS
    Clients = {c1, c2}
    JobIds = {j1}
    SessionIds = {s1}
    NoJob = NoJob
    NoSession = NoSession
    MaxFaults = 0
SYMMETRY MongoSymmetry
INVARIANTS NoJobOfDeletedSession
