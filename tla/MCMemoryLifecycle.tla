-------------------------- MODULE MCMemoryLifecycle --------------------------
(* MemoryLifecycle with the values its runs give the constants.            *)
EXTENDS MemoryLifecycle, TLC

CONSTANTS m1, m2, m3, p1, p2, s1, s2, h1, h2, o1, o2

\* A fact, and another of another content of the source, with a later deadline.
MCCandidates ==
    {[statement |-> s1, hash |-> h1, origin |-> o1, due |-> 0],
     [statement |-> s2, hash |-> h2, origin |-> o1, due |-> 1]}

MCOneCandidate ==
    {[statement |-> s1, hash |-> h1, origin |-> o1, due |-> 0]}

\* One record goes far enough to be revalidated twice; the others follow it.
MCMax == [m \in Memories |-> IF m = m1 THEN 5 ELSE 3]

MemorySymmetry == Permutations({m2, m3}) \cup Permutations({p1, p2})

=============================================================================
