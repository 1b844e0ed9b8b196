---------------------------- MODULE MCEventStore ----------------------------
EXTENDS EventStore, TLC

CONSTANTS p1, p2, k1, k2, a1, a2

StoreSymmetry ==
    Permutations({p1, p2}) \cup Permutations({k1, k2})
        \cup Permutations({a1, a2})

=============================================================================
