SPECIFICATION BackupSpec
CONSTANTS
    None = None
    BackupTargets = {1, 2}
    SlowTargets = {1}
    BackupJobIds = {1}
    BackupWorkers = {"w1"}
    JobsPerPass = 1
    MaxEdits = 0
    MaxFaults = 0
PROPERTY
    TargetsIsolated
