SPECIFICATION Spec
CONSTANTS
    Datums = {d1}
    Pods = {p1, p2}
    Babysitters = {b1, b2}
    None = None
    Uris = {d1, d2}
    OutputUris <- OwnOutputs
    Links = {}
    MaxRuns = 2
    Faults = {"job"}
PROPERTY
    OnlyRunningJobsRetry
