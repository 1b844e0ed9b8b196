---------------------------- MODULE MCContextPack ----------------------------
(* ContextPack with the values its run gives the constants: two memories   *)
(* of one section, a second run that grants fewer of them, and a second    *)
(* process.                                                                *)
EXTENDS ContextPack

CONSTANTS m1, m2, s1, h1, o1

MCCandidates == {[statement |-> s1, hash |-> h1, origin |-> o1, due |-> 1]}

MCMax == [m \in Memories |-> 3]

MCSections == {"procedures", "knowledge"}
MCSection == [m \in Memories |-> "knowledge"]
MCTokens == [m \in Memories |-> IF m = m1 THEN 4 ELSE 1]

\* m1's statement begins with a token of blanks, and its third is blank too.
MCCut == [m \in Memories |-> IF m = m1 THEN <<0, 2, 2>> ELSE <<>>]

MCBudgets ==
    {[s \in MCSections |-> IF s = "knowledge" THEN b ELSE 1] : b \in {0, 1, 3, 4, 5}}
        \cup {[s \in {"procedures"} |-> 1], [s \in {"knowledge"} |-> 3]}

MCGranted == <<{m1, m2}, {m1}>>

=============================================================================
