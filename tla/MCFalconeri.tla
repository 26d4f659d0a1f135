---------------------------- MODULE MCFalconeri -----------------------------
EXTENDS Falconeri, TLC

\* Each datum writes an output of its own, and none if that is not in Uris.
OwnOutputs == [d \in Datums |-> {d} \cap Uris]

\* Every datum writes the same output.
SharedOutput == [d \in Datums |-> Uris]

Symmetry ==
    Permutations(Datums) \cup Permutations(Pods) \cup Permutations(Babysitters)
=============================================================================
