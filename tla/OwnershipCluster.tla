-------------------------- MODULE OwnershipCluster --------------------------
(***************************************************************************)
(* The data of kobo-migrate's solver: ownership tiers by rank, the         *)
(* constraints extracted between bindings, what an assignment of tiers     *)
(* must satisfy, and how a constraint graph is cut into the clusters and   *)
(* sub-clusters that are solved apart.                                     *)
(***************************************************************************)
EXTENDS Integers, FiniteSets

CONSTANT Nodes      \* the bindings the greedy pass may leave undecided

ASSUME NodesAreIds == Nodes \subseteq Nat

\* tier_rank: the canonical order of the tiers.
Undecided == 0
PlainOwned == 1
BoxOwned == 2
RcShared == 3
ArcShared == 4
RcMutShared == 5
ArcMutShared == 6
Scoped == 7

Tiers == Undecided .. Scoped
NoCeiling == Scoped + 1

IsShared(t) == t \in RcShared .. ArcMutShared
IsThreadSafe(t) == t \in {ArcShared, ArcMutShared}
IsMutable(t) == t \in {RcMutShared, ArcMutShared}

Least(S) == CHOOSE x \in S : \A y \in S : x <= y
Lower(a, b) == IF a <= b THEN a ELSE b

\* What a sharing edge and a send edge ask of the other end.
SendRequirement(t) == IF t \in {RcShared, RcMutShared} THEN t + 1 ELSE t
Need(kind, t) == IF kind = "send" THEN SendRequirement(t) ELSE t

-----------------------------------------------------------------------------
(* Extraction.  A problem names the undecided bindings, their floors and    *)
(* ceilings, those that escape, and the scopes they share.                  *)

Edge(kind, a, b) == [kind |-> kind, source |-> a, target |-> b]

Together(p) == {ab \in p.nodes \X p.nodes : ab[1] < ab[2] /\ \E g \in p.scopes : {ab[1], ab[2]} \subseteq g}

\* Bindings that escape are related across scopes.
Escaping(p) ==
    {ab \in p.escapes \X p.escapes : ab[1] < ab[2] /\ \A i \in {1, 2} : IsShared(p.floor[ab[i]])}

Sending(p) == {ab \in Together(p) : \E i \in {1, 2} : IsThreadSafe(p.floor[ab[i]])}

Excluding(p) == {ab \in Together(p) : \A i \in {1, 2} : IsMutable(p.floor[ab[i]])}

Edges(kind, pairs) == {Edge(kind, ab[1], ab[2]) : ab \in pairs}

\* Variant: bindings that exclude each other do not share.
EdgesApart(p) ==
    Edges("sharing", Together(p) \ Excluding(p)) \cup Edges("exclusive", Excluding(p))

EdgesOf(p) ==
    Edges("sharing", Together(p) \cup Escaping(p)) \cup Edges("send", Sending(p))
      \cup Edges("exclusive", Excluding(p))

\* A cluster: some of the bindings and the edges between them.
Among(p, S) ==
    [nodes |-> S, floor |-> p.floor, ceiling |-> p.ceiling,
     edges |-> {e \in EdgesOf(p) : e.source \in S /\ e.target \in S}]

-----------------------------------------------------------------------------
(* Assignments.                                                             *)

Carries(e) == e.kind # "exclusive"

\* is_consistent, for one edge.
Meets(e, a) ==
    LET s == a[e.source]
        t == a[e.target]
    IN  CASE e.kind = "sharing" -> s = t
          [] e.kind = "send" -> t >= SendRequirement(s) /\ s >= SendRequirement(t)
          [] e.kind = "exclusive" -> ~(IsMutable(s) /\ IsMutable(t))

InBounds(u, a) == \A n \in u.nodes : u.floor[n] <= a[n] /\ a[n] <= u.ceiling[n]

Consistent(u, a) == \A e \in u.edges : Meets(e, a)

\* Assignments that respect the bounds and everything propagation carries.
Carried(u, a) ==
    /\ a \in [u.nodes -> Tiers]
    /\ InBounds(u, a)
    /\ \A e \in u.edges : Carries(e) => Meets(e, a)

IsSolution(u, a) == Carried(u, a) /\ Consistent(u, a)

IsLeast(u, a) ==
    Carried(u, a) /\ \A b \in [u.nodes -> Tiers] : Carried(u, b) => \A n \in u.nodes : a[n] <= b[n]

\* candidate_satisfies_cluster: the edges as ConstraintKind documents them.
Documented(u, a) ==
    \A e \in u.edges :
        LET s == a[e.source]
            t == a[e.target]
        IN  CASE e.kind = "sharing" -> IsShared(s) => IsShared(t)
              [] e.kind = "send" -> IsThreadSafe(s) => IsThreadSafe(t)
              [] e.kind = "exclusive" -> ~(IsMutable(s) /\ IsMutable(t))

Floors(u) == [n \in u.nodes |-> u.floor[n]]

\* enumerate_candidates and append_candidate_if_distinct.
Candidates(u, a) ==
    LET lifted == {[Floors(u) EXCEPT ![n] = @ + 1] :
                      n \in {m \in u.nodes : u.floor[m] < Scoped /\ u.floor[m] + 1 <= u.ceiling[m]}}
    IN  {b \in {Floors(u), a} \cup lifted : Documented(u, b)}

-----------------------------------------------------------------------------
(* Connected parts.                                                         *)

Joined(E, a, b) == \E e \in E : {e.source, e.target} = {a, b}

Component(S, E, n) ==
    {m \in S : \A T \in SUBSET S :
        n \in T /\ (\A a \in T, b \in S : Joined(E, a, b) => b \in T) => m \in T}

Components(S, E) == {Component(S, E, n) : n \in S}

\* find_articulation_points, by what its search computes.
ArticulationPoints(u) ==
    {n \in u.nodes : Cardinality(Components(u.nodes \ {n}, u.edges)) > 1}

\* decompose: without the articulation points the cluster falls into
\* components; each is solved with the articulation points next to it.
SubClusters(u) ==
    LET cut == ArticulationPoints(u)
        Beside(c) == {n \in cut : \E m \in c : Joined(u.edges, n, m)}
    IN  {[first |-> Least(c), nodes |-> c \cup Beside(c)] : c \in Components(u.nodes \ cut, u.edges)}
=============================================================================
