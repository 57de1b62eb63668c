\* Calls stop when the bound on admission states is used up.
CHECK_DEADLOCK FALSE
SPECIFICATION AdmissionSpec
CONSTANTS
    None = None
    Calls = {"c1", "c2", "c3"}
    MaxRevision = 2
    MaxStates = 3
    MaxConcurrency = 1
    RequestsPerMinute = 2
    Minute = 2
    MaxMinutes = 3
INVARIANT
    AdmissionBounded
