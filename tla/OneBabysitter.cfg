SPECIFICATION Spec
CONSTANTS
    Datums = {d1, d2}
    Pods = {p1, p2}
    Babysitters = {b1}
    None = None
    Uris = {u1}
    OutputUris <- SharedOutput
    Links = {}
    MaxRuns = 2
    Faults = {"pod", "partition", "job"}
SYMMETRY Symmetry
INVARIANTS
    TypeOK
    FailedJobIsDecided
    WorkersLeaveTogether
    OneDatumPerPod
    RunsAreBounded
    OutputsAreOfTheCurrentRun
    DoneDatumsKeepOutputs
    DoneFilesAreStored
    DoneDatumsShareNoOutput
PROPERTIES
    OnlyDeadPodsLoseDatums
    DoneByTheCurrentRun
