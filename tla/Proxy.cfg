SPECIFICATION ProxySpec
CONSTANT
    Forwards = {"postgres", "falconerid"}
CHECK_DEADLOCK FALSE
INVARIANTS
    ProxyTypeOK
    ShutdownIsPrompt
    NoKubectlIsLeft
PROPERTIES
    ForwardsAreKeptUp
    ShutdownEnds
