------------------------- MODULE MCOwnershipSolve -------------------------
EXTENDS OwnershipSolve

CONSTANT none

MCNodes == 1 .. 6

Fit(default, f) == [n \in MCNodes |-> IF n \in DOMAIN f THEN f[n] ELSE default]

Made(nodes, scopes, escapes, floor, ceiling) ==
    [nodes |-> nodes, scopes |-> scopes, escapes |-> escapes,
     floor |-> Fit(PlainOwned, floor), ceiling |-> Fit(NoCeiling, ceiling)]

\* One scope, two that meet in one binding, and two apart; a resource has the
\* ceiling PlainOwned.
Trio == {{{1, 2, 3}}, {{1, 2}, {2, 3}}, {{1, 2}, {3}}, {{1}, {2}, {3}}}

Trios ==
    {Made(1 .. 3, g, {}, f, [n \in r |-> PlainOwned]) :
        g \in Trio, f \in [1 .. 3 -> {PlainOwned, RcShared, ArcShared, RcMutShared}], r \in SUBSET {1, 3}}

\* Two scopes of two and three that meet, and a chain whose middle binding is
\* next to no component.
Longer ==
    {Made(1 .. 4, {{1, 2, 3}, {3, 4}}, {}, f, <<>>) :
        f \in [1 .. 4 -> {PlainOwned, RcShared, ArcMutShared}]}
    \cup {Made(1 .. 5, {{1, 2}, {2, 3}, {3, 4}, {4, 5}}, {}, f, <<>>) :
             f \in [{1, 3, 5} -> {PlainOwned, ArcShared, RcMutShared}]}

\* Two scopes of three that meet in one binding.
Twins ==
    {Made(1 .. 5, {{1, 2, 3}, {3, 4, 5}}, {}, f, <<>>) :
        f \in [1 .. 5 -> {PlainOwned, ArcMutShared}]}

\* A binding that escapes, a cluster that is too large, nothing undecided.
Refused ==
    {Made(1 .. 3, {{1, 2}}, e, [n \in e |-> RcShared], <<>>) : e \in {{1}, {3}, {1, 3}}}
    \cup {Made(1 .. 6, {1 .. 6}, {}, <<>>, <<>>), Made({}, {}, {}, <<>>, <<>>)}

MCProblems == Trios \cup Longer \cup Twins \cup Refused
=============================================================================
