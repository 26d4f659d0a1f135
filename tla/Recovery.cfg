SPECIFICATION RecoverySpec
CONSTANTS
    Datums = {d1}
    Pods = {p1, p2}
    Babysitters = {b1}
    None = None
    Uris = {}
    OutputUris <- OwnOutputs
    Links = {}
    MaxRuns = 2
    Faults = {"apply", "pod", "job", "delete"}
PROPERTIES
    ZombiesAreReaped
    FailedDatumsAreRetried
    SettledJobIsClosed
    JobEnds
