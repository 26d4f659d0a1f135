SPECIFICATION JobsSpec
CONSTANTS
    U32Max = 11
    I32Max = 5
    Unset = Unset
    Work = {w1}
    Specs <- TimeoutSpecs
    Babysitters = {b1}
    MaxJobs = 1
INVARIANT
    AcceptedJobsHaveTime
