SPECIFICATION JobsSpec
CONSTANTS
    U32Max = 11
    I32Max = 5
    Unset = Unset
    Work = {w1, w2}
    Specs <- EdgeSpecs
    Babysitters = {b1}
    MaxJobs = 3
SYMMETRY Symmetry
INVARIANTS
    JobsTypeOK
    WorkIsDoneOnce
    DoneMeansAllIsDone
    BudgetFitsThePool
PROPERTY
    RetriedDatumsStayFailed
