----------------------------- MODULE MCSessions -----------------------------
EXTENDS Sessions, TLC

NoOutputs == [d \in Datums |-> {}]

Symmetry ==
    Permutations(Datums) \cup Permutations(Pods) \cup Permutations(SessionIds)
=============================================================================
