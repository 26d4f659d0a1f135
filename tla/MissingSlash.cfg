SPECIFICATION Spec
CONSTANTS
    Bases = {b1}
    Repos = {"r"}
    Paths <- FilesAndMarkers
    Clauses <- Atoms
    Depth <- DepthOfAtoms
INVARIANT
    SlashIsOptional
