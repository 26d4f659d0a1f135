SPECIFICATION Spec
CONSTANTS
    Datums = {d1}
    Pods = {p1, p2}
    Babysitters = {b1, b2}
    None = None
    Uris = {d1, d2}
    OutputUris <- OwnOutputs
    Links = {}
    MaxRuns = 2
    U32Max = 11
    I32Max = 5
    Unset = Unset
    Submitted <- Plain
    Faults = {"pod", "job", "delete"}
SYMMETRY Symmetry
INVARIANTS
    JobFailureIsReal
    DoneJobIsComplete
PROPERTIES
    VerdictIsFinal
    KeepsLifecycle
    BehavesAsInJobs
