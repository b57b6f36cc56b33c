----------------------------- MODULE MCDiagOwner -----------------------------
EXTENDS DiagOwner, TLC

CONSTANTS o1, o2, g1, g2, g3

MCOwners == {o1, o2}
MCGuards == {g1, g2, g3}

\* Init chooses one owner, so that only the guards are interchangeable.
Interchangeable == Permutations(MCGuards)
=============================================================================
