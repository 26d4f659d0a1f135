SPECIFICATION SessionsSpec
CONSTANTS
    Datums = {d1, d2}
    Pods = {p1, p2}
    None = None
    Uris = {}
    OutputUris <- NoOutputs
    Links = {}
    MaxRuns = 2
    SessionIds = {s1, s2}
SYMMETRY Symmetry
INVARIANTS
    SessionsTypeOK
    SettledJobIsBeingClosed
    PodsRunOneDatum
    NobodyWaitsInACircle
PROPERTY
    TransactionsAreAtomic
