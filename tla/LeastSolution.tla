--------------------------- MODULE LeastSolution ---------------------------
(***************************************************************************)
(* What lattice_solve promises of each cluster it is given: the least      *)
(* assignment within the bounds that every edge agrees with, or a conflict *)
(* if there is none, or if the least one breaks a mutual exclusion.        *)
(***************************************************************************)
EXTENDS OwnershipCluster

VARIABLES
    unit,       \* the cluster asked about
    answer

Pending == [kind |-> "pending"]
Solved(a) == [kind |-> "solved", map |-> a]
Conflict(n, top) == [kind |-> "conflict", node |-> n, top |-> top]

IsAnswer(u, r) ==
    \/ \E a \in [u.nodes -> Tiers] :
          r = Solved(a) /\ IsLeast(u, a) /\ IsSolution(u, a)
    \/ \E n \in u.nodes, top \in 0 .. NoCeiling :
          /\ r = Conflict(n, top)
          /\ \/ \A a \in [u.nodes -> Tiers] : ~Carried(u, a)
             \/ \E a \in [u.nodes -> Tiers], e \in u.edges :
                   IsLeast(u, a) /\ e.source = n /\ ~Meets(e, a)

Nothing ==
    [nodes |-> {}, floor |-> [n \in Nodes |-> PlainOwned],
     ceiling |-> [n \in Nodes |-> NoCeiling], edges |-> {}]

Init == unit = Nothing /\ answer = Pending

Ask ==
    /\ unit = Nothing \/ answer # Pending
    /\ answer' = Pending

Answer == answer = Pending /\ IsAnswer(unit, answer') /\ UNCHANGED unit

Spec == Init /\ [][Ask \/ Answer]_<<unit, answer>>
=============================================================================
