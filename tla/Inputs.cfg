SPECIFICATION Spec
CONSTANTS
    Bases = {b1, b2}
    Repos = {"r", "s"}
    Paths <- FilesAndMarkers
    Clauses <- AllClauses
    Depth <- DepthOf
INVARIANTS
    CrossIsEveryChoice
    CrossDistributesOverUnion
    RefusedWithItsAtoms
    DownloadsMirrorTheRepo
    DownloadsDoNotCollide
