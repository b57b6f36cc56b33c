------------------------ MODULE OwnershipSolveProofs ------------------------
(***************************************************************************)
(* Proofs about OwnershipSolve: the lattice pass gives each cluster its    *)
(* least solution or an honest conflict within its iteration budgets, and  *)
(* what that makes of the outcome.                                         *)
(***************************************************************************)
EXTENDS OwnershipSolve, TLAPS, NaturalsInduction, WellFoundedInduction

-----------------------------------------------------------------------------
(* Tiers and assignments.                                                   *)

\* Every nonempty set of naturals has a least element.
LEMMA LeastNatural ==
    ASSUME NEW S \in SUBSET Nat, S # {}
    PROVE  \E b \in S : \A d \in S : b <= d
<1> DEFINE R == {ss \in Nat \X Nat : ss[1] < ss[2]}
<1>1. \E b \in S : \A d \in S : ~(<<d, b>> \in OpToRel(<, Nat))
  BY NatLessThanWellFounded, WFMin
<1>2. \E b \in S : \A d \in S : ~(<<d, b>> \in R)
  BY Zenon, <1>1 DEF OpToRel
<1>3. ASSUME NEW d \in Nat, NEW b \in Nat, <<d, b>> \notin R
      PROVE  b <= d
  BY <1>3
<1> HIDE DEF R
<1> QED
  BY <1>2, <1>3

\* Least returns a member that is below all others.
LEMMA LeastIsLeast ==
    ASSUME NEW S \in SUBSET Nat, S # {}
    PROVE  Least(S) \in S /\ \A d \in S : Least(S) <= d
BY LeastNatural DEF Least

\* A nonempty set of tiers has a greatest one.
LEMMA GreatestTier ==
    ASSUME NEW S \in SUBSET Tiers, S # {}
    PROVE  \E x \in S : \A y \in S : y <= x
<1> DEFINE Room == {Scoped - x : x \in S}
<1>0. \A x \in S : Scoped - x \in Nat
  BY DEF Tiers, Undecided, Scoped
<1>1. Room \in SUBSET Nat /\ Room # {}
  BY <1>0
<1>2. PICK r \in Room : \A d \in Room : r <= d
  BY <1>1, LeastNatural
<1>3. PICK x \in S : r = Scoped - x
  BY <1>2
<1>4. ASSUME NEW y \in S
      PROVE  y <= x
  <2>1. Scoped - y \in Room
    OBVIOUS
  <2>2. r <= Scoped - y
    BY <1>2, <2>1
  <2> QED
    BY <1>3, <2>2 DEF Tiers, Undecided, Scoped
<1> QED
  BY <1>4

\* What an edge asks for is a tier no lower than the one it is asked by, and
\* it grows with it.
LEMMA NeedGrows ==
    ASSUME NEW kind, NEW s \in Tiers, NEW t \in Tiers, s <= t
    PROVE  Need(kind, s) \in Tiers /\ s <= Need(kind, s) /\ Need(kind, s) <= Need(kind, t)
BY DEF Need, SendRequirement, Tiers, Undecided, Scoped, RcShared, RcMutShared

\* A met edge that propagation carries gives either end what the other asks.
LEMMA MetEdgeIsAsked ==
    ASSUME NEW e, e.kind \in {"sharing", "send"}, NEW a,
           a[e.source] \in Tiers, a[e.target] \in Tiers
    PROVE  Meets(e, a) <=> /\ Need(e.kind, a[e.source]) <= a[e.target]
                           /\ Need(e.kind, a[e.target]) <= a[e.source]
<1>1. CASE e.kind = "sharing"
  BY <1>1 DEF Meets, Need, Tiers, Undecided, Scoped
<1>2. CASE e.kind = "send"
  BY <1>2 DEF Meets, Need
<1> QED
  BY <1>1, <1>2

-----------------------------------------------------------------------------
(* Constraint graphs.                                                       *)

IsUnit(u) ==
    /\ u.nodes \in SUBSET Nodes
    /\ u.floor \in [Nodes -> PlainOwned .. ArcMutShared]
    /\ u.ceiling \in [Nodes -> {PlainOwned, NoCeiling}]
    /\ \A e \in u.edges :
          /\ e.kind \in {"sharing", "send", "exclusive"}
          /\ e.source \in u.nodes /\ e.target \in u.nodes /\ e.source # e.target
    /\ \A e \in u.edges : e.kind = "exclusive" =>
          \E f \in u.edges : f.kind = "sharing" /\ f.source = e.source /\ f.target = e.target

\* An extracted edge joins two of the undecided bindings; where two bindings
\* exclude each other, they also share.
LEMMA EdgesJoin ==
    ASSUME NEW p, IsProblem(p), NEW e \in EdgesOf(p)
    PROVE  /\ e.kind \in {"sharing", "send", "exclusive"}
           /\ e.source \in p.nodes /\ e.target \in p.nodes /\ e.source # e.target
           /\ e.kind = "exclusive" => Edge("sharing", e.source, e.target) \in EdgesOf(p)
<1>1. p.escapes \subseteq p.nodes
  BY DEF IsProblem
<1>2. PICK kind \in {"sharing", "send", "exclusive"}, ab \in Together(p) \cup Escaping(p) :
        e = Edge(kind, ab[1], ab[2]) /\ (kind = "exclusive" => ab \in Excluding(p))
  BY DEF EdgesOf, Edges, Sending, Excluding
<1>3. ab[1] \in p.nodes /\ ab[2] \in p.nodes /\ ab[1] < ab[2]
  BY <1>1, <1>2 DEF Together, Escaping
<1>4. p.nodes \subseteq Nat
  BY NodesAreIds DEF IsProblem
<1>5. ab[1] # ab[2]
  BY <1>3, <1>4
<1>6. e.kind = kind /\ e.source = ab[1] /\ e.target = ab[2]
  BY <1>2 DEF Edge
<1>7. CASE e.kind = "exclusive"
  <2>1. ab \in Together(p)
    BY <1>2, <1>6, <1>7 DEF Excluding
  <2>2. Edge("sharing", ab[1], ab[2]) \in Edges("sharing", Together(p) \cup Escaping(p))
    BY <2>1 DEF Edges
  <2> QED
    BY <1>3, <1>5, <1>6, <2>2 DEF EdgesOf
<1> QED
  BY <1>3, <1>5, <1>6, <1>7

\* Any part of an extracted graph is a unit.
LEMMA ClusterIsUnit ==
    ASSUME NEW p, IsProblem(p), NEW S \in SUBSET p.nodes
    PROVE  IsUnit(Among(p, S)) /\ Among(p, S).nodes = S
<1> DEFINE u == Among(p, S)
<1>1. /\ u.nodes = S /\ u.floor = p.floor /\ u.ceiling = p.ceiling
      /\ u.edges = {e \in EdgesOf(p) : e.source \in S /\ e.target \in S}
  BY DEF Among
<1>2. S \subseteq Nodes
  BY DEF IsProblem
<1>3. ASSUME NEW e \in u.edges
      PROVE  /\ e.kind \in {"sharing", "send", "exclusive"}
             /\ e.source \in S /\ e.target \in S /\ e.source # e.target
             /\ e.kind = "exclusive" =>
                  \E f \in u.edges : f.kind = "sharing" /\ f.source = e.source /\ f.target = e.target
  <2>1. e \in EdgesOf(p) /\ e.source \in S /\ e.target \in S
    BY <1>1
  <2>2. ASSUME e.kind = "exclusive"
        PROVE  \E f \in u.edges : f.kind = "sharing" /\ f.source = e.source /\ f.target = e.target
    <3> DEFINE f == Edge("sharing", e.source, e.target)
    <3>1. f \in EdgesOf(p)
      BY <2>1, <2>2, EdgesJoin
    <3>2. f.kind = "sharing" /\ f.source = e.source /\ f.target = e.target
      BY DEF Edge
    <3>3. f \in u.edges
      BY <1>1, <2>1, <3>1, <3>2
    <3> QED
      BY <3>2, <3>3
  <2> QED
    BY <2>1, <2>2, EdgesJoin
<1> HIDE DEF u
<1> QED
  BY <1>1, <1>2, <1>3 DEF IsUnit, IsProblem, u

-----------------------------------------------------------------------------
(* Connected parts.                                                         *)

\* A component holds its node, lies in the graph, and no edge leaves it.
LEMMA ComponentIsClosed ==
    ASSUME NEW S, NEW E, NEW n \in S
    PROVE  /\ n \in Component(S, E, n) /\ Component(S, E, n) \subseteq S
           /\ \A a \in Component(S, E, n), b \in S :
                 Joined(E, a, b) => b \in Component(S, E, n)
<1>1. n \in Component(S, E, n) /\ Component(S, E, n) \subseteq S
  BY DEF Component
<1>2. ASSUME NEW a \in Component(S, E, n), NEW b \in S, Joined(E, a, b)
      PROVE  b \in Component(S, E, n)
  <2>1. a \in S
    BY <1>1
  <2>2. ASSUME NEW T \in SUBSET S,
               n \in T /\ (\A c \in T, d \in S : Joined(E, c, d) => d \in T)
        PROVE  b \in T
    <3>1. a \in T
      BY <2>2 DEF Component
    <3> QED
      BY <1>2, <2>2, <3>1
  <2> QED
    BY <2>2 DEF Component
<1> QED
  BY <1>1, <1>2

\* Components are nonempty parts of the graph and cover it.
LEMMA ComponentsCover ==
    ASSUME NEW S, NEW E
    PROVE  /\ \A c \in Components(S, E) : c # {} /\ c \subseteq S
           /\ \A n \in S : \E c \in Components(S, E) : n \in c
           /\ \A c \in Components(S, E) : \A a \in c, b \in S : Joined(E, a, b) => b \in c
BY ComponentIsClosed DEF Components

\* Two components that share a node are one.
LEMMA MeetingComponents ==
    ASSUME NEW S, NEW E, NEW c \in Components(S, E), NEW d \in Components(S, E), NEW x \in c, x \in d
    PROVE  c \subseteq d
<1>1. PICK n \in S : c = Component(S, E, n)
  BY DEF Components
<1>2. d \subseteq S /\ \A a \in d, b \in S : Joined(E, a, b) => b \in d
  BY ComponentsCover
<1>3. n \in d
  <2> SUFFICES ASSUME n \notin d
               PROVE  FALSE
    OBVIOUS
  <2> DEFINE T == S \ d
  <2>1. ASSUME NEW a \in T, NEW b \in S, Joined(E, a, b)
        PROVE  b \in T
    <3>1. Joined(E, b, a)
      BY <2>1 DEF Joined
    <3> QED
      BY <1>2, <2>1, <3>1
  <2>2. c \subseteq T
    BY <1>1, <2>1 DEF Component
  <2> QED
    BY <2>2
<1> QED
  BY <1>1, <1>2, <1>3 DEF Component

\* A component within another is that other.
LEMMA ComponentsAreApart ==
    ASSUME NEW S, NEW E, NEW c \in Components(S, E), NEW d \in Components(S, E), d \subseteq c
    PROVE  d = c
<1>1. PICK x \in d : x \in c
  BY ComponentsCover
<1> QED
  BY <1>1, MeetingComponents

\* The pieces of a cut cluster are parts of it, none of them empty, and there
\* is one unless all its nodes are articulation points.
LEMMA PiecesArePart ==
    ASSUME NEW u, NEW piece \in SubClusters(u)
    PROVE  piece.nodes \subseteq u.nodes /\ piece.nodes # {}
<1> DEFINE cut == ArticulationPoints(u)
           Beside(c) == {n \in cut : \E m \in c : Joined(u.edges, n, m)}
<1>1. PICK c \in Components(u.nodes \ cut, u.edges) :
        piece = [first |-> Least(c), nodes |-> c \cup Beside(c)]
  BY DEF SubClusters
<1>2. c # {} /\ c \subseteq u.nodes \ cut
  BY ComponentsCover
<1>3. Beside(c) \subseteq u.nodes
  BY DEF ArticulationPoints
<1>4. piece.nodes = c \cup Beside(c)
  BY <1>1
<1> HIDE DEF cut, Beside
<1> QED
  BY <1>2, <1>3, <1>4

-----------------------------------------------------------------------------
(* The initial state.                                                       *)

\* The invariant holds at the start.
LEMMA InitInv == Init => SolveInv
<1> SUFFICES ASSUME Init
             PROVE  SolveInv
  OBVIOUS
<1>1. IsProblem(problem) /\ phase = "next" /\ plan = {} /\ outcome = NoOutcome
  BY ProblemsAreExtracted DEF Init
<1>2. unit.nodes = {} /\ unit = Promise!Nothing
  BY DEF Init, Promise!Nothing
<1>3. Shapes
  BY <1>1, <1>2 DEF Init, Shapes, TypeOK, Phases, Working, Solving, Propagating
<1>4. LatticeInv
  BY <1>1 DEF Init, NoTiers, LatticeInv, Bounded, Agreeing, OverflowHonest, Turns, BudgetIsEnough,
              AnswerHonest, Solving, Propagating
<1>5. Composed /\ Concluded
  <2>1. told = {} /\ solution = [n \in {} |-> Undecided] /\ conflicts = {} /\ outcome = NoOutcome
    BY DEF Init, NoTiers
  <2>2. UNION {p.unit.nodes : p \in told} = {}
    BY <2>1
  <2> QED
    BY <2>1, <2>2 DEF Composed, Concluded, NoOutcome
<1>6. Accounted
  BY DEF Init, Accounted
<1> QED
  BY <1>3, <1>4, <1>5, <1>6 DEF SolveInv

-----------------------------------------------------------------------------
(* The loop over the clusters.                                              *)

\* Ending the loop over the clusters keeps the invariant.
LEMMA ReturnKeepsInv ==
    ASSUME SolveInv, OutOfTime \/ Contain \/ Finish
    PROVE  SolveInv'
<1>1. PICK result \in {"BudgetExceeded", "BoundaryStop", "ClusterTooLarge", "NoSolution",
                       "MultiSolution", "Unique"} :
        /\ phase = "next" /\ plan = {} /\ Return(result)
        /\ result = "NoSolution" => conflicts # {}
        /\ result \in {"Unique", "MultiSolution"} => conflicts = {} /\ todo = {}
  BY DEF OutOfTime, Contain, Finish, Between
<1>2. /\ outcome' = result /\ phase' = "done"
      /\ UNCHANGED <<problem, todo, plan, split, latticeVars, resultVars>>
  BY <1>1 DEF Return
<1>3. Shapes'
  BY <1>2 DEF SolveInv, Shapes, TypeOK, Phases, Working, Solving, Propagating, latticeVars, Cluster
<1>4. LatticeInv'
  BY <1>2 DEF SolveInv, LatticeInv, Bounded, Agreeing, OverflowHonest, Turns, BudgetIsEnough,
              AnswerHonest, Solving, Propagating, latticeVars
<1>5. Composed'
  BY <1>2 DEF SolveInv, Composed, resultVars, Cluster
<1>6. Accounted'
  BY <1>1, <1>2 DEF SolveInv, Accounted, resultVars, Working, Solving, Propagating
<1>7. Concluded'
  BY <1>1, <1>2 DEF SolveInv, Concluded, resultVars, Cluster
<1> QED
  BY <1>3, <1>4, <1>5, <1>6, <1>7 DEF SolveInv

\* The next cluster is one of those not solved yet.
LEMMA NextClusterIsOne ==
    ASSUME SolveInv, todo # {}
    PROVE  NextCluster \in todo /\ NextCluster \subseteq problem.nodes /\ NextCluster # {}
<1>1. \A c \in todo : c # {} /\ c \subseteq problem.nodes
  BY ComponentsCover DEF SolveInv, Shapes
<1>2. problem.nodes \subseteq Nat
  BY NodesAreIds DEF SolveInv, Shapes, TypeOK, IsProblem
<1>3. \A c \in todo : Least(c) \in Nat
  BY <1>1, <1>2, LeastIsLeast
<1> DEFINE firsts == {Least(c) : c \in todo}
<1>4. firsts \in SUBSET Nat /\ firsts # {}
  BY <1>3
<1>5. PICK b \in firsts : \A d \in firsts : b <= d
  BY <1>4, LeastNatural
<1>6. \E c \in todo : \A d \in todo : Least(c) <= Least(d)
  BY <1>5
<1>7. NextCluster \in todo
  BY <1>6 DEF NextCluster
<1> QED
  BY <1>1, <1>7

\* A taken cluster is in the plan, whole or in pieces.
LEMMA TakeClusterKeepsInv ==
    ASSUME SolveInv, TakeCluster
    PROVE  SolveInv'
<1>1. /\ NextCluster \in todo /\ NextCluster \subseteq problem.nodes /\ NextCluster # {}
  BY NextClusterIsOne DEF TakeCluster
<1>2. /\ phase = "next" /\ plan = {}
      /\ todo' = todo \ {NextCluster}
      /\ UNCHANGED <<problem, phase, latticeVars, resultVars, outcome>>
  BY DEF TakeCluster, Between
<1>3. /\ plan' # {}
      /\ \A piece \in plan' : piece.nodes \subseteq NextCluster /\ piece.nodes # {}
  <2> DEFINE u == Cluster(NextCluster)
             cut == /\ Cardinality(NextCluster) > TargetSize
                    /\ \E p, q \in SubClusters(u) : p # q
  <2>1. plan' = IF cut THEN SubClusters(u)
                ELSE {[first |-> Least(NextCluster), nodes |-> NextCluster]}
    BY DEF TakeCluster
  <2>2. u.nodes = NextCluster
    BY DEF Cluster, Among
  <2>3. \A piece \in SubClusters(u) : piece.nodes \subseteq NextCluster /\ piece.nodes # {}
    BY <2>2, PiecesArePart
  <2>4. CASE cut
    BY <2>1, <2>3, <2>4
  <2>5. CASE ~cut
    <3>1. plan' = {[first |-> Least(NextCluster), nodes |-> NextCluster]}
      BY <2>1, <2>5
    <3> QED
      BY <1>1, <3>1
  <2> QED
    BY <2>4, <2>5
<1>4. Shapes'
  <2>1. todo' \subseteq Components(problem.nodes, EdgesOf(problem))
    BY <1>2 DEF SolveInv, Shapes
  <2>2. \A piece \in plan' : piece.nodes \subseteq problem.nodes /\ piece.nodes # {}
    BY <1>1, <1>3
  <2> QED
    BY <1>2, <2>1, <2>2 DEF SolveInv, Shapes, TypeOK, Phases, Working, Solving, Propagating, latticeVars, Cluster
<1>5. LatticeInv'
  BY <1>2 DEF SolveInv, LatticeInv, Bounded, Agreeing, OverflowHonest, Turns, BudgetIsEnough,
              AnswerHonest, Solving, Propagating, latticeVars
<1>6. Composed'
  BY <1>2 DEF SolveInv, Composed, resultVars, Cluster
<1>7. Accounted'
  BY <1>2, <1>3 DEF SolveInv, Accounted, resultVars, Working, Solving, Propagating
<1>8. Concluded'
  BY <1>2 DEF SolveInv, Concluded, NoOutcome, resultVars, Cluster
<1> QED
  BY <1>4, <1>5, <1>6, <1>7, <1>8 DEF SolveInv

-----------------------------------------------------------------------------
(* One unit.                                                                *)

\* While a unit is worked on it is a part of the problem's graph.
LEMMA WorkingOnUnit ==
    ASSUME SolveInv, Working
    PROVE  IsUnit(unit) /\ unit.nodes \subseteq problem.nodes /\ unit = Cluster(unit.nodes)
BY ClusterIsUnit DEF SolveInv, Shapes, TypeOK, Cluster

\* The part of the invariant that is about the results is untouched by a step
\* of the lattice pass.
LEMMA ResultsKept ==
    ASSUME SolveInv, Solving, Working',
           UNCHANGED <<problem, todo, plan, split, unit, resultVars, outcome>>
    PROVE  Composed' /\ Accounted' /\ Concluded'
<1>1. Composed'
  BY DEF SolveInv, Composed, resultVars, Cluster
<1>2. Accounted'
  BY DEF SolveInv, Accounted, resultVars, Working
<1>3. Concluded'
  BY DEF SolveInv, Concluded, NoOutcome, resultVars, Cluster, Solving, Propagating
<1> QED
  BY <1>1, <1>2, <1>3

\* A unit starts at its floors and ceilings with every node to be looked at.
LEMMA StartUnitKeepsInv ==
    ASSUME SolveInv, StartUnit
    PROVE  SolveInv'
<1>1. PICK piece \in plan : plan' = plan \ {piece} /\ unit' = Cluster(piece.nodes)
  BY DEF StartUnit
<1>2. /\ phase = "next" /\ phase' = "preflight"
      /\ current' = Floors(unit') /\ worklist' = unit'.nodes /\ ceilings' = unit'.ceiling
      /\ falling' = {n \in unit'.nodes : unit'.ceiling[n] # NoCeiling}
      /\ taken' = [n \in unit'.nodes |-> 0] /\ dropped' = taken'
      /\ overflow' = NoNode /\ answer' = Pending
      /\ UNCHANGED <<problem, todo, split, resultVars, outcome>>
  BY DEF StartUnit
<1>3. piece.nodes \subseteq problem.nodes /\ piece.nodes # {} /\ IsProblem(problem)
  BY DEF SolveInv, Shapes, TypeOK
<1>4. /\ IsUnit(unit') /\ unit'.nodes = piece.nodes /\ unit' = Among(problem', unit'.nodes)
  BY <1>1, <1>2, <1>3, ClusterIsUnit DEF Cluster
<1>5. /\ current' \in [unit'.nodes -> Tiers]
      /\ taken' \in [unit'.nodes -> Nat] /\ dropped' \in [unit'.nodes -> Nat]
      /\ ceilings' \in [Nodes -> PlainOwned .. NoCeiling]
      /\ falling' \subseteq unit'.nodes
  BY <1>2, <1>4 DEF IsUnit, Floors, Tiers, Undecided, PlainOwned, ArcMutShared, Scoped, NoCeiling
<1>6. Shapes'
  <2>1. TypeOK'
    BY <1>2, <1>3, <1>4, <1>5 DEF TypeOK, Phases, Cluster, IsUnit
  <2>2. \A p \in plan' : p.nodes \subseteq problem.nodes /\ p.nodes # {}
    BY <1>1 DEF SolveInv, Shapes
  <2> QED
    BY <1>2, <1>3, <1>4, <2>1, <2>2 DEF SolveInv, Shapes, Working, Solving, Propagating, Cluster, Pending
<1>7. LatticeInv'
  <2>1. \A n \in unit'.nodes :
          /\ current'[n] = unit'.floor[n] /\ ceilings'[n] = unit'.ceiling[n]
          /\ taken'[n] = 0 /\ dropped'[n] = 0
          /\ unit'.floor[n] \in Int /\ unit'.ceiling[n] \in Int
    BY <1>2, <1>4 DEF Floors, IsUnit, NoCeiling, PlainOwned, Scoped, ArcMutShared
  <2>2. Bounded'
    BY <1>2, <2>1 DEF Bounded, Propagating, Solving, Carried, InBounds
  <2>3. Turns'
    BY <1>2, <2>1 DEF Turns
  <2>4. BudgetIsEnough'
    BY <1>2 DEF BudgetIsEnough, Scoped
  <2> QED
    BY <1>2, <2>2, <2>3, <2>4 DEF LatticeInv, Agreeing, OverflowHonest, AnswerHonest, Propagating
<1>8. Composed'
  BY <1>2 DEF SolveInv, Composed, resultVars, Cluster
<1>9. Accounted'
  BY <1>1, <1>2, <1>4 DEF SolveInv, Accounted, resultVars, Working, Solving, Propagating
<1>10. Concluded'
  BY <1>2 DEF SolveInv, Concluded, NoOutcome, resultVars, Cluster
<1> QED
  BY <1>6, <1>7, <1>8, <1>9, <1>10 DEF SolveInv

\* A floor above its ceiling at the preflight leaves no assignment; otherwise
\* propagation starts within the bounds.
LEMMA PreflightKeepsInv ==
    ASSUME SolveInv, Preflight
    PROVE  SolveInv'
<1>1. /\ phase = "preflight" /\ Crossed = {} /\ phase' = "raise"
      /\ UNCHANGED <<problem, todo, plan, split, latticeVars, resultVars, outcome>>
  BY DEF Preflight
<1>2. IsUnit(unit)
  BY <1>1, WorkingOnUnit DEF Working, Solving
<1>3. Shapes'
  BY <1>1 DEF SolveInv, Shapes, TypeOK, Phases, Working, Solving, Propagating, latticeVars, Cluster
<1>4. \A n \in unit.nodes : unit.floor[n] <= current[n] /\ current[n] <= unit.ceiling[n]
  <2>1. current = Floors(unit) /\ ceilings = unit.ceiling
    BY <1>1 DEF SolveInv, Shapes
  <2>2. ASSUME NEW n \in unit.nodes
        PROVE  unit.floor[n] \in Int /\ unit.ceiling[n] \in Int
    BY <1>2 DEF IsUnit, NoCeiling, PlainOwned, Scoped, ArcMutShared
  <2> QED
    BY <1>1, <2>1, <2>2 DEF Crossed, Floors
<1>5. Bounded'
  BY <1>1, <1>4 DEF SolveInv, LatticeInv, Bounded, Propagating, Solving, latticeVars, Assignments
<1>6. Agreeing' /\ OverflowHonest'
  <2>1. overflow = NoNode /\ worklist = unit.nodes
    BY <1>1 DEF SolveInv, Shapes
  <2> QED
    BY <1>1, <1>2, <2>1 DEF Agreeing, OverflowHonest, IsUnit, latticeVars
<1>7. Turns' /\ BudgetIsEnough' /\ AnswerHonest'
  BY <1>1 DEF SolveInv, LatticeInv, Turns, BudgetIsEnough, AnswerHonest, Solving, Propagating, latticeVars
<1>8. Composed' /\ Accounted' /\ Concluded'
  BY <1>1, ResultsKept DEF Working, Solving, Propagating, latticeVars
<1> QED
  BY <1>3, <1>5, <1>6, <1>7, <1>8 DEF SolveInv, LatticeInv

\* The downward pass starts from an upward worklist that is empty.
LEMMA PropagatedKeepsInv ==
    ASSUME SolveInv, Propagated
    PROVE  SolveInv'
<1>1. /\ phase = "raise" /\ worklist = {} /\ phase' = "lower"
      /\ UNCHANGED <<problem, todo, plan, split, latticeVars, resultVars, outcome>>
  BY DEF Propagated
<1>2. Shapes'
  BY <1>1 DEF SolveInv, Shapes, TypeOK, Phases, Working, Solving, Propagating, latticeVars, Cluster
<1>3. LatticeInv'
  BY <1>1 DEF SolveInv, LatticeInv, Bounded, Agreeing, OverflowHonest, Turns, BudgetIsEnough,
              AnswerHonest, Solving, Propagating, latticeVars, Assignments
<1>4. Composed' /\ Accounted' /\ Concluded'
  BY <1>1, ResultsKept DEF Working, Solving, Propagating, latticeVars
<1> QED
  BY <1>2, <1>3, <1>4 DEF SolveInv

-----------------------------------------------------------------------------
(* The upward worklist.                                                     *)

\* What a node wants of another is what a carried edge between them asks.
LEMMA WantedIsNeed ==
    ASSUME NEW n, NEW m
    PROVE  /\ \A t \in Wanted(n, m) : \E e \in unit.edges :
                /\ Carries(e) /\ {e.source, e.target} = {n, m}
                /\ t = Need(e.kind, current[n])
           /\ \A e \in unit.edges : Carries(e) /\ {e.source, e.target} = {n, m} =>
                Need(e.kind, current[n]) \in Wanted(n, m)
BY DEF Wanted

\* Every assignment that meets the edges gives a node at least what is wanted
\* of it.
LEMMA WantedIsDue ==
    ASSUME IsUnit(unit), current \in [unit.nodes -> Tiers],
           NEW n \in unit.nodes, NEW m \in unit.nodes, NEW t \in Wanted(n, m),
           NEW a \in Assignments, Carried(unit, a), current[n] <= a[n]
    PROVE  t \in Tiers /\ t <= a[m]
<1>1. PICK e \in unit.edges : Carries(e) /\ {e.source, e.target} = {n, m} /\ t = Need(e.kind, current[n])
  BY WantedIsNeed
<1>2. e.kind \in {"sharing", "send"} /\ e.source \in unit.nodes /\ e.target \in unit.nodes
  BY <1>1 DEF IsUnit, Carries
<1>3. Meets(e, a)
  BY <1>1 DEF Carried
<1>4. a[n] \in Tiers /\ a[m] \in Tiers /\ current[n] \in Tiers
  BY DEF Assignments
<1>5. /\ Need(e.kind, a[e.source]) <= a[e.target]
      /\ Need(e.kind, a[e.target]) <= a[e.source]
  BY <1>2, <1>3, MetEdgeIsAsked DEF Assignments
<1>6. Need(e.kind, a[n]) <= a[m]
  BY <1>1, <1>5
<1>7. Need(e.kind, current[n]) \in Tiers /\ Need(e.kind, current[n]) <= Need(e.kind, a[n])
  BY <1>4, NeedGrows
<1>8. Need(e.kind, a[n]) \in Tiers
  BY <1>4, NeedGrows DEF Tiers, Undecided, Scoped
<1> QED
  BY <1>1, <1>4, <1>6, <1>7, <1>8 DEF Tiers, Undecided, Scoped

\* What a node is asked for is a tier.
LEMMA WantedAreTiers ==
    ASSUME NEW n \in unit.nodes, NEW m, current[n] \in Tiers
    PROVE  Wanted(n, m) \subseteq Tiers
<1>1. \A kind : Need(kind, current[n]) \in Tiers
  BY NeedGrows DEF Tiers, Undecided, Scoped
<1> QED
  BY <1>1 DEF Wanted

\* One turn raises each neighbour to the highest tier wanted of it that its
\* ceiling allows, and puts back exactly the nodes it raised.
LEMMA RaiseRaises ==
    ASSUME SolveInv, NEW n \in Nodes, Raise(n)
    PROVE  /\ n \in unit.nodes /\ current' \in [unit.nodes -> Tiers]
           /\ worklist' = (worklist \ {n}) \cup {m \in unit.nodes : current'[m] # current[m]}
           /\ \A m \in unit.nodes :
                 /\ current[m] <= current'[m]
                 /\ \A t \in Wanted(n, m) : t <= unit.ceiling[m] => t <= current'[m]
                 /\ \/ current'[m] = current[m]
                    \/ current'[m] \in Wanted(n, m) /\ current'[m] <= unit.ceiling[m]
<1> DEFINE fits(m) == {t \in Wanted(n, m) : t <= unit.ceiling[m]}
           raised == {m \in unit.nodes : \E t \in fits(m) : t > current[m]}
           top(m) == CHOOSE t \in fits(m) : \A s \in fits(m) : s <= t
<1>1. /\ phase = "raise" /\ n \in worklist
      /\ current' = [m \in unit.nodes |-> IF m \in raised THEN top(m) ELSE current[m]]
      /\ worklist' = (worklist \ {n}) \cup raised
  BY DEF Raise, Requeued
<1>2. n \in unit.nodes /\ current \in [unit.nodes -> Tiers]
  BY <1>1 DEF SolveInv, Shapes, TypeOK
<1>3. \A m : fits(m) \subseteq Tiers
  BY <1>2, WantedAreTiers
<1>4. ASSUME NEW m \in unit.nodes, m \in raised
      PROVE  top(m) \in fits(m) /\ \A s \in fits(m) : s <= top(m)
  <2>1. fits(m) # {} /\ fits(m) \in SUBSET Tiers
    BY <1>3, <1>4
  <2> HIDE DEF fits
  <2>2. \E t \in fits(m) : \A s \in fits(m) : s <= t
    BY <2>1, GreatestTier
  <2> QED
    BY <2>2
<1>5. ASSUME NEW m \in unit.nodes
      PROVE  /\ current'[m] \in Tiers /\ current[m] <= current'[m]
             /\ m \in raised <=> current'[m] # current[m]
             /\ \A t \in fits(m) : t <= current'[m]
             /\ current'[m] = current[m] \/ current'[m] \in fits(m)
  <2>1. current[m] \in Tiers /\ current[m] \in Int
    BY <1>2 DEF Tiers, Undecided, Scoped
  <2>2. fits(m) \subseteq Int
    BY <1>3 DEF Tiers, Undecided, Scoped
  <2>3. CASE m \in raised
    <3>1. current'[m] = top(m)
      BY <1>1, <2>3
    <3>2. top(m) \in fits(m) /\ \A s \in fits(m) : s <= top(m)
      BY <1>4, <2>3
    <3>3. PICK t \in fits(m) : t > current[m]
      BY <2>3
    <3>4. top(m) \in Tiers
      BY <1>3, <3>2
    <3> HIDE DEF fits, top
    <3>5. t <= top(m) /\ t \in Int /\ top(m) \in Int
      BY <2>2, <3>2
    <3>6. current[m] < top(m)
      BY <2>1, <3>3, <3>5
    <3> QED
      BY <2>1, <2>3, <3>1, <3>2, <3>4, <3>5, <3>6
  <2>4. CASE m \notin raised
    <3>1. current'[m] = current[m]
      BY <1>1, <2>4
    <3>2. \A t \in fits(m) : ~(t > current[m])
      BY <2>4
    <3>3. \A t \in fits(m) : t <= current[m]
      BY <2>1, <2>2, <3>2
    <3> HIDE DEF fits
    <3> QED
      BY <2>1, <2>4, <3>1, <3>3
  <2> QED
    BY <2>3, <2>4
<1>6. raised = {m \in unit.nodes : current'[m] # current[m]}
  BY <1>5
<1>7. current' \in [unit.nodes -> Tiers]
  <2>1. \A m \in unit.nodes : current'[m] \in Tiers
    BY <1>5
  <2> HIDE DEF raised, top
  <2> QED
    BY <1>1, <2>1
<1> QED
  BY <1>1, <1>2, <1>5, <1>6, <1>7

\* A turn of the upward worklist keeps the tiers below every solution.
LEMMA RaiseKeepsInv ==
    ASSUME SolveInv, NEW n \in Nodes, Raise(n)
    PROVE  SolveInv'
<1> DEFINE over == {m \in unit.nodes : \E t \in Wanted(n, m) : t > unit.ceiling[m]}
<1>1. /\ phase = "raise" /\ phase' = "raise" /\ n \in worklist
      /\ overflow' \in IF overflow # NoNode \/ over = {} THEN {overflow} ELSE over
      /\ taken' = [taken EXCEPT ![n] = @ + 1]
      /\ UNCHANGED <<problem, todo, plan, split, unit, ceilings, falling, answer, dropped, resultVars, outcome>>
  BY DEF Raise
<1>2. /\ IsUnit(unit) /\ unit = Cluster(unit.nodes) /\ unit.nodes \subseteq Nodes
  BY <1>1, WorkingOnUnit DEF Working, Solving, Propagating, IsUnit
<1>3. /\ n \in unit.nodes /\ current' \in [unit.nodes -> Tiers]
      /\ worklist' = (worklist \ {n}) \cup {m \in unit.nodes : current'[m] # current[m]}
      /\ \A m \in unit.nodes :
            /\ current[m] <= current'[m]
            /\ \A t \in Wanted(n, m) : t <= unit.ceiling[m] => t <= current'[m]
            /\ \/ current'[m] = current[m]
               \/ current'[m] \in Wanted(n, m) /\ current'[m] <= unit.ceiling[m]
  BY RaiseRaises
<1>4. /\ current \in [unit.nodes -> Tiers] /\ taken \in [unit.nodes -> Nat]
      /\ worklist \subseteq unit.nodes /\ overflow \in unit.nodes \cup {NoNode}
      /\ dropped \in [unit.nodes -> Nat] /\ falling \subseteq unit.nodes
      /\ ceilings \in [Nodes -> PlainOwned .. NoCeiling]
  BY <1>1 DEF SolveInv, Shapes, TypeOK
<1>5. \A m \in unit.nodes :
         /\ current[m] \in 0 .. 7 /\ current'[m] \in 0 .. 7 /\ taken[m] \in Nat
         /\ unit.floor[m] \in 1 .. 6 /\ unit.ceiling[m] \in {1, 8}
  BY <1>2, <1>3, <1>4 DEF IsUnit, Tiers, Undecided, Scoped, PlainOwned, ArcMutShared, NoCeiling
<1>6. \A m \in unit.nodes : unit.floor[m] <= current[m] /\ current[m] <= unit.ceiling[m]
  BY <1>1 DEF SolveInv, LatticeInv, Bounded, Propagating
<1>7. overflow' \in unit.nodes \cup {NoNode} /\ taken' \in [unit.nodes -> Nat] /\ worklist' \subseteq unit.nodes
  BY <1>1, <1>3, <1>4
<1>8. Shapes'
  <2>1. TypeOK'
    BY <1>1, <1>2, <1>3, <1>4, <1>7 DEF SolveInv, Shapes, TypeOK, Phases, Cluster
  <2> QED
    BY <1>1, <2>1 DEF SolveInv, Shapes, Working, Solving, Propagating, Cluster
<1>9. ASSUME NEW a \in Assignments, Carried(unit, a)
      PROVE  \A m \in unit.nodes : current'[m] <= a[m] /\ a[m] <= ceilings[m] /\ a[m] <= unit.ceiling[m]
  <2>1. \A m \in unit.nodes : current[m] <= a[m] /\ a[m] <= ceilings[m]
    BY <1>1, <1>9 DEF SolveInv, LatticeInv, Bounded, Solving, Propagating
  <2>2. \A m \in unit.nodes : \A t \in Wanted(n, m) : t <= a[m]
    BY <1>2, <1>3, <1>4, <1>9, <2>1, WantedIsDue
  <2>3. \A m \in unit.nodes : a[m] <= unit.ceiling[m]
    BY <1>9 DEF Carried, InBounds
  <2> QED
    BY <1>3, <2>1, <2>2, <2>3
<1>10. Bounded'
  <2>1. \A m \in unit.nodes : unit.floor[m] <= current'[m] /\ current'[m] <= unit.ceiling[m]
    BY <1>3, <1>5, <1>6
  <2> QED
    BY <1>1, <1>9, <2>1 DEF Bounded, Propagating, Solving, Assignments
<1>11. OverflowHonest'
  <2>1. CASE overflow' = overflow
    BY <1>1, <2>1 DEF SolveInv, LatticeInv, OverflowHonest, Propagating, Assignments
  <2>2. ASSUME overflow' \in over, NEW a \in Assignments
        PROVE  ~Carried(unit, a)
    <3>1. PICK m \in unit.nodes : \E t \in Wanted(n, m) : t > unit.ceiling[m]
      BY <2>2
    <3>2. PICK t \in Wanted(n, m) : t > unit.ceiling[m]
      BY <3>1
    <3>3. t \in Tiers
      BY <1>3, <1>4, WantedAreTiers
    <3>4. ASSUME Carried(unit, a)
          PROVE  FALSE
      <4>1. current[n] <= a[n]
        BY <1>1, <1>3, <3>4 DEF SolveInv, LatticeInv, Bounded, Solving, Propagating
      <4>2. t <= a[m]
        BY <1>2, <1>3, <1>4, <3>4, <4>1, WantedIsDue
      <4>3. a[m] <= unit.ceiling[m] /\ a[m] \in Tiers
        BY <1>9, <3>4 DEF Assignments
      <4> QED
        BY <1>5, <3>2, <3>3, <4>2, <4>3 DEF Tiers, Undecided, Scoped
    <3> QED
      BY <3>4
  <2>3. overflow' = overflow \/ overflow' \in over
    BY <1>1
  <2> QED
    BY <1>1, <2>1, <2>2, <2>3 DEF OverflowHonest, Assignments
<1>12. Agreeing'
  <2> SUFFICES ASSUME overflow' = NoNode, NEW e \in unit.edges, Carries(e)
               PROVE  /\ e.source \notin worklist' => Need(e.kind, current'[e.source]) <= current'[e.target]
                      /\ e.target \notin worklist' => Need(e.kind, current'[e.target]) <= current'[e.source]
    BY <1>1 DEF Agreeing
  <2>1. overflow = NoNode /\ over = {}
    BY <1>1, <1>2, NoNodeIsNone
  <2>2. e.source \in unit.nodes /\ e.target \in unit.nodes
    BY <1>2 DEF IsUnit
  <2>3. ASSUME NEW v \in unit.nodes, NEW w \in unit.nodes, {v, w} = {e.source, e.target}, v \notin worklist',
               v \notin worklist => Need(e.kind, current[v]) <= current[w]
        PROVE  Need(e.kind, current'[v]) <= current'[w]
    <3>1. current'[v] = current[v]
      BY <1>3, <2>3
    <3>2. CASE v = n
      <4>1. Need(e.kind, current[n]) \in Wanted(n, w)
        BY <2>3, <3>2, WantedIsNeed
      <4>2. ~(Need(e.kind, current[n]) > unit.ceiling[w])
        BY <2>1, <4>1
      <4>3. Need(e.kind, current[n]) \in Tiers
        BY <1>3, <1>4, <4>1, WantedAreTiers
      <4>4. Need(e.kind, current[n]) <= unit.ceiling[w]
        BY <1>5, <4>2, <4>3 DEF Tiers, Undecided, Scoped
      <4> QED
        BY <1>3, <3>1, <3>2, <4>1, <4>4
    <3>3. CASE v # n
      <4>1. v \notin worklist
        BY <1>3, <2>3, <3>3
      <4>2. Need(e.kind, current[v]) <= current[w] /\ current[w] <= current'[w]
        BY <1>3, <2>3, <4>1
      <4>3. Need(e.kind, current[v]) \in Tiers
        BY <1>4, NeedGrows DEF Tiers, Undecided, Scoped
      <4> QED
        BY <1>5, <3>1, <4>2, <4>3 DEF Tiers, Undecided, Scoped
    <3> QED
      BY <3>2, <3>3
  <2>4. /\ e.source \notin worklist => Need(e.kind, current[e.source]) <= current[e.target]
        /\ e.target \notin worklist => Need(e.kind, current[e.target]) <= current[e.source]
    BY <1>1, <2>1 DEF SolveInv, LatticeInv, Agreeing, Propagating
  <2> QED
    BY <2>2, <2>3, <2>4
<1>13. Turns'
  <2> SUFFICES ASSUME NEW m \in unit.nodes
               PROVE  /\ taken'[m] <= 1 + current'[m] - unit.floor[m]
                      /\ m \in worklist' => taken'[m] <= current'[m] - unit.floor[m]
    BY <1>1 DEF SolveInv, LatticeInv, Turns, Solving, Propagating
  <2>1. /\ taken[m] <= 1 + current[m] - unit.floor[m]
        /\ m \in worklist => taken[m] <= current[m] - unit.floor[m]
    BY <1>1 DEF SolveInv, LatticeInv, Turns, Solving, Propagating
  <2>2. taken'[m] = IF m = n THEN taken[m] + 1 ELSE taken[m]
    BY <1>1, <1>4
  <2>3. m \in worklist' => (m \in worklist /\ m # n) \/ current'[m] # current[m]
    BY <1>3
  <2>4. current[m] <= current'[m]
    BY <1>3
  <2> QED
    BY <1>1, <1>5, <2>1, <2>2, <2>3, <2>4
<1>14. BudgetIsEnough'
  <2>1. \A m \in unit.nodes : taken'[m] <= 7
    BY <1>1, <1>5, <1>7, <1>13 DEF Turns, Solving, Propagating
  <2>2. \A m \in DOMAIN dropped : dropped[m] <= Scoped + 1
    BY DEF SolveInv, LatticeInv, BudgetIsEnough
  <2> QED
    BY <1>1, <1>7, <2>1, <2>2 DEF BudgetIsEnough, Scoped
<1>15. AnswerHonest'
  BY <1>1 DEF AnswerHonest
<1>16. Composed' /\ Accounted' /\ Concluded'
  BY <1>1, ResultsKept DEF Working, Solving, Propagating
<1> QED
  BY <1>8, <1>10, <1>11, <1>12, <1>13, <1>14, <1>15, <1>16 DEF SolveInv, LatticeInv

-----------------------------------------------------------------------------
(* The downward worklist.                                                   *)

\* A ceiling of an edge's target holds for its source as well.
LEMMA CeilingIsShared ==
    ASSUME IsUnit(unit), NEW a \in Assignments, Carried(unit, a),
           NEW e \in unit.edges, Carries(e)
    PROVE  a[e.source] <= a[e.target]
<1>1. e.kind \in {"sharing", "send"} /\ e.source \in unit.nodes /\ e.target \in unit.nodes
  BY DEF IsUnit, Carries
<1>2. a[e.source] \in Tiers /\ a[e.target] \in Tiers
  BY <1>1 DEF Assignments
<1>3. Meets(e, a)
  BY DEF Carried
<1>4. Need(e.kind, a[e.source]) <= a[e.target]
  BY <1>1, <1>2, <1>3, MetEdgeIsAsked
<1>5. a[e.source] <= Need(e.kind, a[e.source]) /\ Need(e.kind, a[e.source]) \in Tiers
  BY <1>2, NeedGrows DEF Tiers, Undecided, Scoped
<1> QED
  BY <1>2, <1>4, <1>5 DEF Tiers, Undecided, Scoped

\* A turn of the downward worklist keeps the ceilings above every solution.
LEMMA LowerKeepsInv ==
    ASSUME SolveInv, NEW n \in Nodes, LowerCeilings(n)
    PROVE  SolveInv'
<1> DEFINE sources == {m \in unit.nodes : \E e \in unit.edges : Carries(e) /\ e.target = n /\ e.source = m}
           lowered == {m \in sources : ceilings[n] < ceilings[m]}
<1>1. /\ phase = "lower" /\ phase' = "lower" /\ n \in falling
      /\ ceilings' = [m \in Nodes |-> IF m \in lowered THEN ceilings[n] ELSE ceilings[m]]
      /\ falling' = (falling \ {n}) \cup lowered
      /\ dropped' = [dropped EXCEPT ![n] = @ + 1]
      /\ UNCHANGED <<problem, todo, plan, split, unit, current, worklist, overflow, answer, taken,
                     resultVars, outcome>>
  BY DEF LowerCeilings
<1>2. /\ IsUnit(unit) /\ unit = Cluster(unit.nodes) /\ unit.nodes \subseteq Nodes
  BY <1>1, WorkingOnUnit DEF Working, Solving, Propagating, IsUnit
<1>3. /\ current \in [unit.nodes -> Tiers] /\ taken \in [unit.nodes -> Nat]
      /\ dropped \in [unit.nodes -> Nat] /\ falling \subseteq unit.nodes
      /\ ceilings \in [Nodes -> 1 .. 8]
  BY <1>1 DEF SolveInv, Shapes, TypeOK, PlainOwned, NoCeiling, Scoped
<1>4. /\ n \in unit.nodes /\ lowered \subseteq unit.nodes
      /\ ceilings' \in [Nodes -> 1 .. 8] /\ dropped' \in [unit.nodes -> Nat] /\ falling' \subseteq unit.nodes
  BY <1>1, <1>2, <1>3
<1>5. Shapes'
  <2>1. TypeOK'
    BY <1>1, <1>2, <1>4 DEF SolveInv, Shapes, TypeOK, Phases, Cluster, PlainOwned, NoCeiling, Scoped
  <2> QED
    BY <1>1, <2>1 DEF SolveInv, Shapes, Working, Solving, Propagating, Cluster
<1>6. ASSUME NEW a \in Assignments, Carried(unit, a), NEW m \in unit.nodes
      PROVE  current[m] <= a[m] /\ a[m] <= ceilings'[m]
  <2>1. \A w \in unit.nodes : current[w] <= a[w] /\ a[w] <= ceilings[w]
    BY <1>1, <1>6 DEF SolveInv, LatticeInv, Bounded, Solving, Propagating
  <2>2. CASE m \in lowered
    <3>1. PICK e \in unit.edges : Carries(e) /\ e.target = n /\ e.source = m
      BY <2>2
    <3>2. a[m] <= a[n]
      BY <1>2, <1>6, <3>1, CeilingIsShared
    <3>3. a[m] \in 0 .. 7 /\ a[n] \in 0 .. 7 /\ ceilings[n] \in 1 .. 8
      BY <1>2, <1>3, <1>4 DEF Assignments, Tiers, Undecided, Scoped
    <3>4. ceilings'[m] = ceilings[n]
      BY <1>1, <1>2, <2>2
    <3> QED
      BY <1>4, <2>1, <3>2, <3>3, <3>4
  <2>3. CASE m \notin lowered
    BY <1>1, <1>2, <2>1, <2>3
  <2> QED
    BY <2>2, <2>3
<1>7. Bounded'
  BY <1>1, <1>6 DEF SolveInv, LatticeInv, Bounded, Propagating, Solving, Assignments
<1>8. Agreeing' /\ OverflowHonest' /\ AnswerHonest'
  BY <1>1 DEF SolveInv, LatticeInv, Agreeing, OverflowHonest, AnswerHonest, Propagating, Assignments
<1>9. ASSUME NEW m \in unit.nodes
      PROVE  /\ dropped'[m] <= 1 + unit.ceiling[m] - ceilings'[m]
             /\ m \in falling' => dropped'[m] <= unit.ceiling[m] - ceilings'[m]
             /\ dropped'[m] <= 8
  <2>1. /\ dropped[m] <= 1 + unit.ceiling[m] - ceilings[m]
        /\ m \in falling => dropped[m] <= unit.ceiling[m] - ceilings[m]
    BY <1>1 DEF SolveInv, LatticeInv, Turns, Solving, Propagating
  <2>2. dropped'[m] = IF m = n THEN dropped[m] + 1 ELSE dropped[m]
    BY <1>1, <1>3
  <2>3. ceilings'[m] = IF m \in lowered THEN ceilings[n] ELSE ceilings[m]
    BY <1>1, <1>2
  <2>4. m \in lowered => ceilings[n] < ceilings[m]
    OBVIOUS
  <2>5. m \in falling' => (m \in falling /\ m # n) \/ m \in lowered
    BY <1>1
  <2>6. /\ dropped[m] \in Nat /\ ceilings[m] \in 1 .. 8 /\ ceilings[n] \in 1 .. 8
        /\ unit.ceiling[m] \in {1, 8}
    BY <1>2, <1>3, <1>4 DEF IsUnit, PlainOwned, NoCeiling, Scoped
  <2>7. m = n => m \in falling
    BY <1>1
  <2> HIDE DEF lowered
  <2> QED
    BY <2>1, <2>2, <2>3, <2>4, <2>5, <2>6, <2>7
<1>10. Turns' /\ BudgetIsEnough'
  <2>1. Turns'
    BY <1>1, <1>9 DEF SolveInv, LatticeInv, Turns, Solving, Propagating
  <2>2. \A m \in DOMAIN taken : taken[m] <= Scoped
    BY DEF SolveInv, LatticeInv, BudgetIsEnough
  <2> QED
    BY <1>1, <1>4, <1>9, <2>1, <2>2 DEF BudgetIsEnough, Scoped
<1>11. Composed' /\ Accounted' /\ Concluded'
  BY <1>1, ResultsKept DEF Working, Solving, Propagating
<1> QED
  BY <1>5, <1>7, <1>8, <1>10, <1>11 DEF SolveInv, LatticeInv

-----------------------------------------------------------------------------
(* The answers.                                                             *)

\* When both worklists have run empty and nothing overflowed, the tiers are
\* the least assignment that the edges carry.
LEMMA SettledIsLeast ==
    ASSUME SolveInv, Settled, overflow = NoNode
    PROVE  current \in Assignments /\ IsLeast(unit, current)
<1>1. phase = "lower" /\ worklist = {} /\ IsUnit(unit) /\ current \in Assignments
  BY WorkingOnUnit DEF Settled, SolveInv, Shapes, TypeOK, Working, Solving, Propagating, Assignments
<1>2. InBounds(unit, current)
  BY <1>1 DEF SolveInv, LatticeInv, Bounded, Propagating, InBounds
<1>3. ASSUME NEW e \in unit.edges, Carries(e)
      PROVE  Meets(e, current)
  <2>1. e.kind \in {"sharing", "send"} /\ e.source \in unit.nodes /\ e.target \in unit.nodes
    BY <1>1, <1>3 DEF IsUnit, Carries
  <2>2. current[e.source] \in Tiers /\ current[e.target] \in Tiers
    BY <1>1, <2>1 DEF Assignments
  <2>3. /\ Need(e.kind, current[e.source]) <= current[e.target]
        /\ Need(e.kind, current[e.target]) <= current[e.source]
    BY <1>1, <1>3 DEF SolveInv, LatticeInv, Agreeing, Propagating
  <2> QED
    BY <2>1, <2>2, <2>3, MetEdgeIsAsked
<1>4. Carried(unit, current)
  BY <1>1, <1>2, <1>3 DEF Carried, Assignments
<1>5. \A b \in Assignments : Carried(unit, b) => \A m \in unit.nodes : current[m] <= b[m]
  BY <1>1 DEF SolveInv, LatticeInv, Bounded, Solving, Propagating
<1> QED
  BY <1>1, <1>4, <1>5 DEF IsLeast, Assignments

\* Where a unit has no assignment at all, or its least one breaks an
\* exclusion, none without Scoped solves it and the search finds none.
LEMMA NoneSolves ==
    ASSUME IsUnit(unit),
           \/ \A a \in Assignments : ~Carried(unit, a)
           \/ /\ IsLeast(unit, current)
              /\ \E e \in unit.edges : e.kind = "exclusive" /\ ~Meets(e, current),
           NEW a \in Assignments, Carried(unit, a), Consistent(unit, a)
    PROVE  \E v, w \in unit.nodes : v # w /\ a[v] = Scoped /\ a[w] = Scoped
<1>1. IsLeast(unit, current)
  OBVIOUS
<1>2. PICK e \in unit.edges : e.kind = "exclusive" /\ ~Meets(e, current)
  OBVIOUS
<1>3. e.source \in unit.nodes /\ e.target \in unit.nodes
  BY DEF IsUnit
<1>4. IsMutable(current[e.source]) /\ IsMutable(current[e.target])
  BY <1>2 DEF Meets
<1>5. PICK f \in unit.edges : f.kind = "sharing" /\ f.source = e.source /\ f.target = e.target
  BY <1>2 DEF IsUnit
<1>6. a[e.source] = a[e.target]
  BY <1>5 DEF Consistent, Meets
<1>7. ~(IsMutable(a[e.source]) /\ IsMutable(a[e.target]))
  BY <1>2 DEF Consistent, Meets
<1>8. current[e.source] <= a[e.source]
  BY <1>1, <1>3 DEF IsLeast, Assignments
<1>9. a[e.source] \in Tiers
  BY <1>3 DEF Assignments
<1>10. a[e.source] = Scoped
  BY <1>4, <1>6, <1>7, <1>8, <1>9 DEF IsMutable, RcMutShared, ArcMutShared, Tiers, Undecided, Scoped
<1> QED
  BY <1>3, <1>6, <1>10 DEF IsUnit

\* The promise is stated with the same operators.
LEMMA SameWords ==
    ASSUME NEW u, NEW a, NEW e
    PROVE  /\ Promise!Carried(u, a) <=> Carried(u, a)
           /\ Promise!IsSolution(u, a) <=> IsSolution(u, a)
           /\ Promise!IsLeast(u, a) <=> IsLeast(u, a)
           /\ Promise!Meets(e, a) <=> Meets(e, a)
           /\ Promise!Tiers = Tiers /\ Promise!NoCeiling = NoCeiling
<1>1. Promise!Tiers = Tiers /\ Promise!NoCeiling = NoCeiling
  BY DEF Promise!Tiers, Promise!Undecided, Promise!Scoped, Promise!NoCeiling,
         Tiers, Undecided, Scoped, NoCeiling
<1>2. ASSUME NEW f, NEW b
      PROVE  Promise!Meets(f, b) <=> Meets(f, b)
  BY DEF Promise!Meets, Promise!SendRequirement, Promise!IsMutable, Promise!RcShared, Promise!RcMutShared,
         Promise!ArcMutShared, Meets, SendRequirement, IsMutable, RcShared, RcMutShared, ArcMutShared
<1>3. ASSUME NEW b
      PROVE  Promise!Carried(u, b) <=> Carried(u, b)
  BY <1>1, <1>2 DEF Promise!Carried, Promise!InBounds, Promise!Carries, Carried, InBounds, Carries
<1>4. Promise!IsSolution(u, a) <=> IsSolution(u, a)
  BY <1>2, <1>3 DEF Promise!IsSolution, Promise!Consistent, IsSolution, Consistent
<1>5. Promise!IsLeast(u, a) <=> IsLeast(u, a)
  BY <1>1, <1>3 DEF Promise!IsLeast, IsLeast
<1> QED
  BY <1>1, <1>2, <1>3, <1>4, <1>5

Grounds(n, top) ==
    /\ AnswerWith(Conflict(n, top))
    /\ n \in unit.nodes /\ top \in 0 .. NoCeiling
    /\ \/ Solving /\ top < unit.floor[n]
       \/ Propagating
    /\ \/ \A a \in Assignments : ~Carried(unit, a)
       \/ /\ IsLeast(unit, current)
          /\ \E e \in unit.edges : e.source = n /\ e.kind = "exclusive" /\ ~Meets(e, current)

\* A conflict is only answered on grounds: no assignment, or an exclusion that
\* the least one breaks.
LEMMA ConflictHasGrounds ==
    ASSUME SolveInv,
           PreflightConflict \/ CeilingConflict \/ OverflowConflict \/ ExclusionConflict
    PROVE  \E n \in unit.nodes, top \in 0 .. NoCeiling : Grounds(n, top)
<1>1. phase \in {"preflight", "lower"}
  BY DEF PreflightConflict, CeilingConflict, OverflowConflict, ExclusionConflict, Settled
<1>2. IsUnit(unit) /\ Solving /\ unit.nodes \subseteq Nodes
  BY <1>1, WorkingOnUnit DEF Working, Solving, Propagating, IsUnit
<1>3. \A n \in unit.nodes : unit.floor[n] \in 1 .. 6 /\ unit.ceiling[n] \in {1, 8}
  BY <1>2 DEF IsUnit, PlainOwned, ArcMutShared, NoCeiling, Scoped
<1>4. ceilings \in [Nodes -> 1 .. 8] /\ overflow \in unit.nodes \cup {NoNode}
  BY <1>1 DEF SolveInv, Shapes, TypeOK, PlainOwned, NoCeiling, Scoped
<1>5. ASSUME NEW n \in unit.nodes, unit.floor[n] > ceilings[n], NEW a \in Assignments
      PROVE  ~Carried(unit, a)
  <2>1. Carried(unit, a) => unit.floor[n] <= a[n] /\ a[n] <= ceilings[n]
    BY <1>2 DEF Carried, InBounds, SolveInv, LatticeInv, Bounded
  <2>2. a[n] \in 0 .. 7 /\ ceilings[n] \in 1 .. 8
    BY <1>2, <1>4 DEF Assignments, Tiers, Undecided, Scoped
  <2> QED
    BY <1>3, <1>5, <2>1, <2>2
<1>6. CASE PreflightConflict
  <2>1. PICK n \in Crossed : AnswerWith(Conflict(n, unit.ceiling[n]))
    BY <1>6 DEF PreflightConflict
  <2>2. n \in unit.nodes /\ unit.floor[n] > ceilings[n] /\ ceilings[n] = unit.ceiling[n]
    BY <1>6 DEF Crossed, PreflightConflict, SolveInv, Shapes
  <2>3. unit.ceiling[n] \in 0 .. NoCeiling /\ unit.ceiling[n] < unit.floor[n]
    BY <1>3, <2>2 DEF NoCeiling, Scoped
  <2> QED
    BY <1>2, <1>5, <2>1, <2>2, <2>3 DEF Grounds
<1>7. CASE CeilingConflict
  <2>1. PICK n \in Crossed : AnswerWith(Conflict(n, ceilings[n]))
    BY <1>7 DEF CeilingConflict
  <2>2. n \in unit.nodes /\ unit.floor[n] > ceilings[n]
    BY DEF Crossed
  <2>3. ceilings[n] \in 0 .. NoCeiling /\ ceilings[n] < unit.floor[n]
    BY <1>2, <1>3, <1>4, <2>2 DEF NoCeiling, Scoped
  <2> QED
    BY <1>2, <1>5, <2>1, <2>2, <2>3 DEF Grounds
<1>8. CASE OverflowConflict
  <2>1. overflow # NoNode /\ Propagating /\ AnswerWith(Conflict(overflow, unit.ceiling[overflow]))
    BY <1>8 DEF OverflowConflict, Settled, Propagating
  <2>2. overflow \in unit.nodes /\ unit.ceiling[overflow] \in 0 .. NoCeiling
    BY <1>3, <1>4, <2>1 DEF NoCeiling, Scoped
  <2>3. \A a \in Assignments : ~Carried(unit, a)
    BY <2>1 DEF SolveInv, LatticeInv, OverflowHonest
  <2> QED
    BY <2>1, <2>2, <2>3 DEF Grounds
<1>9. CASE ExclusionConflict
  <2>1. PICK e \in Excluded : AnswerWith(Conflict(e.source, Lower(unit.ceiling[e.source], Scoped)))
    BY <1>9 DEF ExclusionConflict
  <2>2. e \in unit.edges /\ e.kind = "exclusive" /\ ~Meets(e, current) /\ e.source \in unit.nodes
    BY <1>2 DEF Excluded, IsUnit
  <2>3. Propagating /\ IsLeast(unit, current)
    BY <1>9, SettledIsLeast DEF ExclusionConflict, Settled, Propagating
  <2>4. Lower(unit.ceiling[e.source], Scoped) \in 0 .. NoCeiling
    BY <1>3, <2>2 DEF Lower, NoCeiling, Scoped
  <2> QED
    BY <2>1, <2>2, <2>3, <2>4 DEF Grounds
<1> QED
  BY <1>6, <1>7, <1>8, <1>9

\* On such grounds no assignment that moves one binding off its floor helps.
LEMMA NoAttempt ==
    ASSUME SolveInv, Solving, NEW n \in unit.nodes, NEW top \in 0 .. NoCeiling, Grounds(n, top),
           NEW t \in PlainOwned .. Scoped, unit.floor[n] <= t, t <= top, t <= unit.ceiling[n],
           Consistent(unit, [Floors(unit) EXCEPT ![n] = t])
    PROVE  FALSE
<1> DEFINE a == [Floors(unit) EXCEPT ![n] = t]
<1>1. IsUnit(unit)
  BY WorkingOnUnit DEF Working
<1>2. \A m \in unit.nodes : unit.floor[m] \in 1 .. 6 /\ unit.ceiling[m] \in {1, 8}
  BY <1>1 DEF IsUnit, PlainOwned, ArcMutShared, NoCeiling, Scoped
<1>3. t \in 1 .. 7 /\ top \in 0 .. 8
  BY DEF PlainOwned, NoCeiling, Scoped
<1>4. Propagating
  BY <1>2, <1>3 DEF Grounds
<1>5. current \in [unit.nodes -> 0 .. 7]
  BY <1>4 DEF SolveInv, Shapes, TypeOK, Propagating, Tiers, Undecided, Scoped
<1>6. \A m \in unit.nodes : unit.floor[m] <= unit.ceiling[m]
  <2> SUFFICES ASSUME NEW m \in unit.nodes
               PROVE  unit.floor[m] <= unit.ceiling[m]
    OBVIOUS
  <2>1. unit.floor[m] <= current[m] /\ current[m] <= unit.ceiling[m]
    BY <1>4 DEF SolveInv, LatticeInv, Bounded
  <2>2. current[m] \in 0 .. 7
    BY <1>5
  <2> QED
    BY <1>2, <2>1, <2>2
<1>7. a = [m \in unit.nodes |-> IF m = n THEN t ELSE unit.floor[m]]
  BY DEF Floors
<1> HIDE DEF a
<1>8. a \in Assignments
  BY <1>2, <1>3, <1>7 DEF Assignments, Tiers, Undecided, Scoped
<1>9. InBounds(unit, a)
  BY <1>2, <1>3, <1>6, <1>7 DEF InBounds
<1>10. Consistent(unit, a)
  BY DEF a
<1>11. Carried(unit, a)
  BY <1>8, <1>9, <1>10 DEF Carried, Consistent, Assignments
<1>12. PICK v, w \in unit.nodes : v # w /\ a[v] = Scoped /\ a[w] = Scoped
  <2>1. \/ \A b \in Assignments : ~Carried(unit, b)
        \/ /\ IsLeast(unit, current)
           /\ \E e \in unit.edges : e.kind = "exclusive" /\ ~Meets(e, current)
    BY DEF Grounds
  <2> QED
    BY <1>1, <1>8, <1>10, <1>11, <2>1, NoneSolves
<1>13. PICK m \in unit.nodes : m # n /\ a[m] = Scoped
  BY <1>12
<1> QED
  BY <1>2, <1>7, <1>13 DEF Scoped

\* A conflict is honest, and one the promise allows.
LEMMA ConflictKeepsInv ==
    ASSUME SolveInv,
           PreflightConflict \/ CeilingConflict \/ OverflowConflict \/ ExclusionConflict
    PROVE  SolveInv' /\ Promise!IsAnswer(unit, answer') /\ answer = Pending /\ UNCHANGED unit
<1>1. Solving
  BY DEF PreflightConflict, CeilingConflict, OverflowConflict, ExclusionConflict, Settled, Solving, Propagating
<1>2. PICK n \in unit.nodes, top \in 0 .. NoCeiling : Grounds(n, top)
  BY ConflictHasGrounds
<1>3. /\ answer' = Conflict(n, top) /\ phase' = "answered"
      /\ UNCHANGED <<problem, todo, plan, split, unit, current, worklist, overflow, ceilings,
                     falling, taken, dropped, resultVars, outcome>>
  BY <1>2 DEF Grounds, AnswerWith
<1>4. answer'.kind = "conflict" /\ answer'.node = n /\ answer'.top = top
  BY <1>3 DEF Conflict, Promise!Conflict
<1>5. IsUnit(unit) /\ unit = Cluster(unit.nodes)
  BY <1>1, WorkingOnUnit DEF Working
<1>6. \/ \A a \in Assignments : ~Carried(unit, a)
      \/ /\ IsLeast(unit, current)
         /\ \E e \in unit.edges : e.source = n /\ e.kind = "exclusive" /\ ~Meets(e, current)
  BY <1>2 DEF Grounds
<1>7. Shapes'
  <2>1. TypeOK'
    BY <1>1, <1>3, <1>4 DEF SolveInv, Shapes, TypeOK, Phases, Solving, Propagating, Cluster
  <2>2. answer' # Pending
    BY <1>4 DEF Pending, Promise!Pending
  <2> QED
    BY <1>1, <1>3, <2>1, <2>2 DEF SolveInv, Shapes, Working, Solving, Propagating, Cluster
<1>8. Attempts' = {}
  <2> SUFFICES ASSUME NEW a \in Attempts'
               PROVE  FALSE
    OBVIOUS
  <2>1. PICK t \in PlainOwned .. Scoped :
          /\ unit.floor[n] <= t /\ t <= top
          /\ a = [Floors(unit) EXCEPT ![n] = t]
          /\ a[n] <= unit.ceiling[n] /\ Consistent(unit, a)
    BY <1>3, <1>4 DEF Attempts
  <2>2. a[n] = t
    BY <2>1 DEF Floors
  <2> QED
    BY <1>1, <1>2, <2>1, <2>2, NoAttempt
<1>9. ASSUME NEW a \in [unit.nodes -> PlainOwned .. ArcMutShared]
      PROVE  ~IsSolution(unit, a)
  <2>1. \A m \in unit.nodes : a[m] \in 1 .. 6
    BY DEF PlainOwned, ArcMutShared
  <2>2. a \in Assignments
    BY DEF Assignments, PlainOwned, ArcMutShared, Tiers, Undecided, Scoped
  <2>3. SUFFICES ASSUME IsSolution(unit, a)
                 PROVE  FALSE
    OBVIOUS
  <2>4. Carried(unit, a) /\ Consistent(unit, a)
    BY <2>3 DEF IsSolution
  <2>5. PICK v, w \in unit.nodes : v # w /\ a[v] = Scoped /\ a[w] = Scoped
    BY <1>5, <1>6, <2>2, <2>4, NoneSolves
  <2> QED
    BY <2>1, <2>5 DEF Scoped
<1>10. AnswerHonest'
  BY <1>3, <1>4, <1>8, <1>9 DEF AnswerHonest
<1>11. Bounded' /\ Agreeing' /\ OverflowHonest' /\ Turns'
  BY <1>3 DEF Bounded, Agreeing, OverflowHonest, Turns, Solving, Propagating
<1>12. BudgetIsEnough'
  BY <1>3 DEF SolveInv, LatticeInv, BudgetIsEnough
<1>13. Composed' /\ Accounted' /\ Concluded'
  BY <1>1, <1>3, ResultsKept DEF Working
<1>14. Promise!IsAnswer(unit, answer')
  <2>1. n \in unit.nodes /\ top \in 0 .. Promise!NoCeiling /\ answer' = Promise!Conflict(n, top)
    BY <1>3, SameWords DEF Conflict
  <2>2. CASE \A a \in Assignments : ~Carried(unit, a)
    <3>1. \A a \in [unit.nodes -> Promise!Tiers] : ~Promise!Carried(unit, a)
      BY <2>2, SameWords DEF Assignments
    <3> QED
      BY <2>1, <3>1 DEF Promise!IsAnswer
  <2>3. CASE /\ IsLeast(unit, current)
             /\ \E e \in unit.edges : e.source = n /\ e.kind = "exclusive" /\ ~Meets(e, current)
    <3>1. PICK e \in unit.edges : e.source = n /\ ~Meets(e, current)
      BY <2>3
    <3>2. Promise!IsLeast(unit, current) /\ ~Promise!Meets(e, current)
      BY <2>3, <3>1, SameWords
    <3>3. current \in [unit.nodes -> Promise!Tiers]
      BY <2>3, SameWords DEF IsLeast, Carried
    <3> QED
      BY <2>1, <3>1, <3>2, <3>3 DEF Promise!IsAnswer
  <2> QED
    BY <1>6, <2>2, <2>3
<1>15. answer = Pending
  BY <1>1 DEF SolveInv, Shapes
<1> QED
  BY <1>3, <1>7, <1>10, <1>11, <1>12, <1>13, <1>14, <1>15 DEF SolveInv, LatticeInv

\* A solved unit has its least solution, as the promise demands.
LEMMA SolveUnitKeepsInv ==
    ASSUME SolveInv, SolveUnit
    PROVE  SolveInv' /\ Promise!IsAnswer(unit, answer') /\ answer = Pending /\ UNCHANGED unit
<1>1. Solving /\ Settled /\ overflow = NoNode /\ Excluded = {}
  BY DEF SolveUnit, Settled, Solving, Propagating
<1>2. /\ answer' = Solved(current) /\ phase' = "answered"
      /\ UNCHANGED <<problem, todo, plan, split, unit, current, worklist, overflow, ceilings,
                     falling, taken, dropped, resultVars, outcome>>
  BY DEF SolveUnit, AnswerWith
<1>3. answer'.kind = "solved" /\ answer'.map = current
  BY <1>2 DEF Solved, Promise!Solved
<1>4. current \in Assignments /\ IsLeast(unit, current) /\ Carried(unit, current)
  BY <1>1, SettledIsLeast DEF IsLeast
<1>5. Consistent(unit, current)
  BY <1>1, <1>4 DEF Excluded, Consistent, Carried, Carries
<1>6. IsSolution(unit, current)
  BY <1>4, <1>5 DEF IsSolution
<1>7. Shapes'
  <2>1. TypeOK'
    BY <1>1, <1>2, <1>3 DEF SolveInv, Shapes, TypeOK, Phases, Solving, Propagating, Cluster
  <2>2. answer' # Pending
    BY <1>3 DEF Pending, Promise!Pending
  <2> QED
    BY <1>1, <1>2, <2>1, <2>2 DEF SolveInv, Shapes, Working, Solving, Propagating, Cluster
<1>8. AnswerHonest'
  BY <1>2, <1>3, <1>4, <1>6 DEF AnswerHonest, Assignments
<1>9. Bounded' /\ Agreeing' /\ OverflowHonest' /\ Turns'
  BY <1>2 DEF Bounded, Agreeing, OverflowHonest, Turns, Solving, Propagating
<1>10. BudgetIsEnough'
  BY <1>2 DEF SolveInv, LatticeInv, BudgetIsEnough
<1>11. Composed' /\ Accounted' /\ Concluded'
  BY <1>1, <1>2, ResultsKept DEF Working
<1>12. Promise!IsAnswer(unit, answer')
  <2>1. current \in [unit.nodes -> Promise!Tiers] /\ answer' = Promise!Solved(current)
    BY <1>2, <1>4, SameWords DEF Assignments, Solved
  <2>2. Promise!IsLeast(unit, current) /\ Promise!IsSolution(unit, current)
    BY <1>4, <1>6, SameWords
  <2> QED
    BY <2>1, <2>2 DEF Promise!IsAnswer
<1>13. answer = Pending
  BY <1>1 DEF SolveInv, Shapes
<1> QED
  BY <1>2, <1>7, <1>8, <1>9, <1>10, <1>11, <1>12, <1>13 DEF SolveInv, LatticeInv

-----------------------------------------------------------------------------
(* What is made of the answers.                                             *)

\* The merged map is still put together from least solutions.
LEMMA AbsorbMapKeepsInv ==
    ASSUME SolveInv, AbsorbMap
    PROVE  SolveInv'
<1> DEFINE new == [unit |-> unit, map |-> answer.map]
<1>1. /\ phase = "answered" /\ phase' = "next" /\ answer.kind = "solved"
      /\ solution' = Insert(solution, answer.map)
      /\ told' = told \cup {new}
      /\ UNCHANGED <<problem, todo, plan, split, latticeVars, outcome, conflicts>>
  BY DEF AbsorbMap, Absorbed
<1>2. /\ IsUnit(unit) /\ unit = Cluster(unit.nodes) /\ unit.nodes \subseteq problem.nodes /\ unit.nodes # {}
  BY <1>1, WorkingOnUnit DEF Working, SolveInv, Shapes
<1>3. /\ answer.map \in [unit.nodes -> Tiers] /\ IsLeast(unit, answer.map) /\ IsSolution(unit, answer.map)
  BY <1>1 DEF SolveInv, LatticeInv, AnswerHonest, Assignments
<1>4. new.unit = unit /\ new.map = answer.map /\ new \in told'
  BY <1>1
<1>5. Shapes'
  <2>1. answer # Pending
    BY <1>1 DEF Pending, Promise!Pending
  <2> QED
    BY <1>1, <2>1 DEF SolveInv, Shapes, TypeOK, Phases, Working, Solving, Propagating, latticeVars, Cluster
<1>6. LatticeInv'
  BY <1>1 DEF SolveInv, LatticeInv, Bounded, Agreeing, OverflowHonest, Turns, BudgetIsEnough,
              AnswerHonest, Solving, Propagating, latticeVars
<1>7. Composed'
  <2> DEFINE known == UNION {p.unit.nodes : p \in told}
  <2>1. ASSUME NEW p \in told'
        PROVE  /\ p.unit = Cluster(p.unit.nodes) /\ p.unit.nodes \subseteq problem.nodes /\ p.unit.nodes # {}
               /\ p.map \in [p.unit.nodes -> Tiers] /\ IsLeast(p.unit, p.map) /\ IsSolution(p.unit, p.map)
    <3>1. CASE p = new
      BY <1>2, <1>3, <1>4, <3>1
    <3>2. CASE p \in told
      BY <3>2 DEF SolveInv, Composed
    <3> QED
      BY <1>1, <3>1, <3>2
  <2>2. solution \in [known -> Tiers] /\ DOMAIN solution = known
    BY DEF SolveInv, Composed
  <2>3. UNION {p.unit.nodes : p \in told'} = known \cup unit.nodes
    BY <1>1, <1>4
  <2>4. /\ solution' = [n \in known \cup unit.nodes |->
                          IF n \in unit.nodes THEN answer.map[n] ELSE solution[n]]
    BY <1>1, <1>3, <2>2 DEF Insert
  <2>5. \A n \in known : \E p \in told : n \in p.unit.nodes /\ solution[n] = p.map[n]
    BY <2>2 DEF SolveInv, Composed
  <2>6. ASSUME NEW n \in known \cup unit.nodes
        PROVE  /\ solution'[n] \in Tiers
               /\ \E p \in told' : n \in p.unit.nodes /\ solution'[n] = p.map[n]
    <3>1. CASE n \in unit.nodes
      BY <1>3, <1>4, <2>4, <3>1
    <3>2. CASE n \notin unit.nodes
      <4>1. solution'[n] = solution[n] /\ n \in known
        BY <2>4, <3>2
      <4>2. solution[n] \in Tiers
        BY <2>2, <4>1
      <4> QED
        BY <1>1, <2>5, <4>1, <4>2
    <3> QED
      BY <3>1, <3>2
  <2> HIDE DEF known
  <2>7. solution' \in [known \cup unit.nodes -> Tiers] /\ DOMAIN solution' = known \cup unit.nodes
    BY <2>4, <2>6
  <2> QED
    BY <1>1, <2>1, <2>3, <2>6, <2>7 DEF Composed, Cluster
<1>8. Accounted'
  <2> SUFFICES ASSUME conflicts = {}, NEW c \in Components(problem.nodes, EdgesOf(problem))
               PROVE  \/ c \in todo
                      \/ \E piece \in plan : piece.nodes \subseteq c
                      \/ \E p \in told' : p.unit.nodes \subseteq c
    BY <1>1 DEF Accounted
  <2>1. CASE Working /\ unit.nodes \subseteq c
    BY <1>4, <2>1
  <2>2. CASE \E p \in told : p.unit.nodes \subseteq c
    BY <1>1, <2>2
  <2> QED
    BY <2>1, <2>2 DEF SolveInv, Accounted
<1>9. Concluded'
  BY <1>1 DEF SolveInv, Concluded, NoOutcome, Cluster
<1> QED
  BY <1>5, <1>6, <1>7, <1>8, <1>9 DEF SolveInv

\* An assignment of the whole problem that solves it solves each of its parts.
LEMMA PartsAreSolved ==
    ASSUME IsProblem(problem), NEW S \in SUBSET problem.nodes, NEW R, R \subseteq Tiers,
           NEW a \in [problem.nodes -> R], IsSolution(Cluster(problem.nodes), a)
    PROVE  IsSolution(Cluster(S), [n \in S |-> a[n]])
<1> DEFINE b == [n \in S |-> a[n]]
           u == Cluster(problem.nodes)
           v == Cluster(S)
<1>1. /\ u.nodes = problem.nodes /\ v.nodes = S /\ v.floor = u.floor /\ v.ceiling = u.ceiling
      /\ v.edges \subseteq u.edges /\ \A e \in v.edges : e.source \in S /\ e.target \in S
  BY DEF Cluster, Among
<1>2. InBounds(u, a) /\ Consistent(u, a)
  BY DEF IsSolution, Carried
<1>3. \A n \in S : b[n] = a[n] /\ b[n] \in Tiers
  OBVIOUS
<1> HIDE DEF u, v
<1>4. b \in [v.nodes -> Tiers] /\ InBounds(v, b)
  BY <1>1, <1>2, <1>3 DEF InBounds
<1> HIDE DEF b
<1>5. \A e \in v.edges : Meets(e, b)
  BY <1>1, <1>2, <1>3 DEF Consistent, Meets
<1> QED
  BY <1>4, <1>5 DEF IsSolution, Carried, Consistent, b, v

\* A conflict in one unit leaves the whole problem without a solution.
LEMMA AbsorbConflictKeepsInv ==
    ASSUME SolveInv, AbsorbConflict
    PROVE  SolveInv'
<1>1. /\ phase = "answered" /\ phase' = "next" /\ answer.kind = "conflict"
      /\ conflicts' = conflicts \cup {answer.node}
      /\ UNCHANGED <<problem, todo, plan, split, latticeVars, outcome, solution, told>>
  BY DEF AbsorbConflict, Absorbed
<1>2. /\ unit = Cluster(unit.nodes) /\ unit.nodes \in SUBSET problem.nodes /\ IsProblem(problem)
  BY <1>1 DEF SolveInv, Shapes, TypeOK, Working
<1>3. Shapes'
  <2>1. answer # Pending
    BY <1>1 DEF Pending, Promise!Pending
  <2> QED
    BY <1>1, <2>1 DEF SolveInv, Shapes, TypeOK, Phases, Working, Solving, Propagating, latticeVars, Cluster
<1>4. LatticeInv'
  BY <1>1 DEF SolveInv, LatticeInv, Bounded, Agreeing, OverflowHonest, Turns, BudgetIsEnough,
              AnswerHonest, Solving, Propagating, latticeVars
<1>5. Composed'
  BY <1>1 DEF SolveInv, Composed, Cluster
<1>6. Accounted'
  BY <1>1 DEF Accounted
<1>7. ASSUME NEW a \in [problem.nodes -> PlainOwned .. ArcMutShared],
             IsSolution(Cluster(problem.nodes), a)
      PROVE  FALSE
  <2> DEFINE b == [n \in unit.nodes |-> a[n]]
  <2>1. PlainOwned .. ArcMutShared \subseteq Tiers
    BY DEF PlainOwned, ArcMutShared, Tiers, Undecided, Scoped
  <2>2. IsSolution(Cluster(unit.nodes), b)
    BY <1>2, <1>7, <2>1, PartsAreSolved
  <2>3. b \in [unit.nodes -> PlainOwned .. ArcMutShared]
    BY <1>2
  <2>4. \A c \in [unit.nodes -> PlainOwned .. ArcMutShared] : ~IsSolution(unit, c)
    BY <1>1 DEF SolveInv, LatticeInv, AnswerHonest
  <2> QED
    BY <1>2, <2>2, <2>3, <2>4
<1>8. Concluded'
  BY <1>1, <1>7 DEF SolveInv, Concluded, NoOutcome, Cluster
<1> QED
  BY <1>3, <1>4, <1>5, <1>6, <1>8 DEF SolveInv

-----------------------------------------------------------------------------
(* The invariant and what follows from it.                                  *)

\* Every step keeps the invariant.
LEMMA NextKeepsInv == SolveInv /\ [Next]_vars => SolveInv'
<1> SUFFICES ASSUME SolveInv, [Next]_vars
             PROVE  SolveInv'
  OBVIOUS
<1>1. CASE OutOfTime \/ Contain \/ Finish
  BY <1>1, ReturnKeepsInv
<1>2. CASE TakeCluster
  BY <1>2, TakeClusterKeepsInv
<1>3. CASE StartUnit
  BY <1>3, StartUnitKeepsInv
<1>4. CASE Preflight
  BY <1>4, PreflightKeepsInv
<1>5. CASE Propagated
  BY <1>5, PropagatedKeepsInv
<1>6. ASSUME NEW n \in Nodes, Raise(n)
      PROVE  SolveInv'
  BY <1>6, RaiseKeepsInv
<1>7. ASSUME NEW n \in Nodes, LowerCeilings(n)
      PROVE  SolveInv'
  BY <1>7, LowerKeepsInv
<1>8. CASE PreflightConflict \/ CeilingConflict \/ OverflowConflict \/ ExclusionConflict
  BY <1>8, ConflictKeepsInv
<1>9. CASE SolveUnit
  BY <1>9, SolveUnitKeepsInv
<1>10. CASE AbsorbMap
  BY <1>10, AbsorbMapKeepsInv
<1>11. CASE AbsorbConflict
  BY <1>11, AbsorbConflictKeepsInv
<1>12. CASE UNCHANGED vars
  BY <1>12 DEF vars, latticeVars, resultVars, SolveInv, Shapes, TypeOK, Phases, Working, Solving,
     Propagating, Cluster, LatticeInv, Bounded, Agreeing, OverflowHonest, Turns, BudgetIsEnough,
     AnswerHonest, Attempts, Assignments, Composed, Accounted, Concluded
<1> QED
  BY <1>1, <1>2, <1>3, <1>4, <1>5, <1>6, <1>7, <1>8, <1>9, <1>10, <1>11, <1>12 DEF Next, Lattice

\* The invariants of the solver hold in every state, whatever the order in
\* which the worklists are taken.
THEOREM SolverInvariant == Spec => []SolveInv
BY InitInv, NextKeepsInv, PTL DEF Spec

\* lattice_solve implements its promise: a cluster's answer is its least
\* solution, or a conflict where there is none, or where the least one breaks
\* a mutual exclusion.
THEOREM SolverImplementsPromise == Spec => SolvesLeast
<1>1. Init => Promise!Init
  BY DEF Init, Promise!Init, Pending
<1>2. SolveInv /\ [Next]_vars => [Promise!Ask \/ Promise!Answer]_<<unit, answer>>
  <2> SUFFICES ASSUME SolveInv, [Next]_vars
               PROVE  [Promise!Ask \/ Promise!Answer]_<<unit, answer>>
    OBVIOUS
  <2>1. CASE OutOfTime \/ Contain \/ Finish \/ TakeCluster
    BY <2>1 DEF OutOfTime, Contain, Finish, Return, TakeCluster, latticeVars
  <2>2. CASE StartUnit
    <3>1. unit = Promise!Nothing \/ answer # Promise!Pending
      BY <2>2 DEF StartUnit, SolveInv, Shapes, Pending
    <3> QED
      BY <2>2, <3>1 DEF StartUnit, Promise!Ask, Pending
  <2>3. CASE Preflight \/ Propagated
    BY <2>3 DEF Preflight, Propagated, latticeVars
  <2>4. ASSUME NEW n \in Nodes, Raise(n) \/ LowerCeilings(n)
        PROVE  UNCHANGED <<unit, answer>>
    BY <2>4 DEF Raise, LowerCeilings
  <2>5. CASE PreflightConflict \/ CeilingConflict \/ OverflowConflict \/ ExclusionConflict
    BY <2>5, ConflictKeepsInv DEF Promise!Answer, Pending
  <2>6. CASE SolveUnit
    BY <2>6, SolveUnitKeepsInv DEF Promise!Answer, Pending
  <2>7. CASE AbsorbMap \/ AbsorbConflict
    BY <2>7 DEF AbsorbMap, AbsorbConflict, Absorbed, latticeVars
  <2>8. CASE UNCHANGED vars
    BY <2>8 DEF vars, latticeVars
  <2> QED
    BY <2>1, <2>2, <2>3, <2>4, <2>5, <2>6, <2>7, <2>8 DEF Next, Lattice
<1> QED
  BY <1>1, <1>2, SolverInvariant, PTL DEF Spec, SolvesLeast, Promise!Spec

\* Neither worklist runs out of its budget: IterationBudgetExceeded and the cut
\* at 16 turns for each node never happen.
THEOREM WithinBudget == Spec => []BudgetIsEnough
<1>1. SolveInv => BudgetIsEnough
  BY DEF SolveInv, LatticeInv
<1> QED
  BY <1>1, SolverInvariant, PTL

\* The backtracking search never finds an assignment for a cluster in conflict.
THEOREM SearchFindsNothing == Spec => []SearchIsVain
<1>1. SolveInv => SearchIsVain
  BY DEF SolveInv, LatticeInv, AnswerHonest, SearchIsVain
<1> QED
  BY <1>1, SolverInvariant, PTL

\* K0080 is honest: where the solver reports no solution, no assignment without
\* Scoped bindings satisfies the constraints.
THEOREM NoSolutionHolds == Spec => []NoSolutionIsHonest
<1>1. SolveInv => NoSolutionIsHonest
  BY DEF SolveInv, Concluded, NoSolutionIsHonest
<1> QED
  BY <1>1, SolverInvariant, PTL

\* When every cluster was solved whole, the pieces agree and cover the graph.
LEMMA WholeClustersAgree ==
    ASSUME SolveInv, outcome \in {"Unique", "MultiSolution"}, SolvedWhole
    PROVE  AgreedPieces
<1> DEFINE E == EdgesOf(problem)
           parts == Components(problem.nodes, E)
<1>1. phase = "done" /\ conflicts = {} /\ todo = {} /\ plan = {} /\ IsProblem(problem)
  BY DEF SolveInv, Concluded, NoOutcome, Shapes, TypeOK
<1>2. ASSUME NEW p \in told, NEW q \in told, NEW n \in p.unit.nodes \cap q.unit.nodes
      PROVE  p.map[n] = q.map[n]
  <2>1. p.unit.nodes \in parts /\ q.unit.nodes \in parts
    BY DEF SolvedWhole
  <2>2. p.unit.nodes = q.unit.nodes
    <3>1. n \in p.unit.nodes /\ n \in q.unit.nodes
      OBVIOUS
    <3>2. p.unit.nodes \subseteq q.unit.nodes
      BY <2>1, <3>1, MeetingComponents
    <3>3. q.unit.nodes \subseteq p.unit.nodes
      BY <2>1, <3>1, MeetingComponents
    <3> QED
      BY <3>2, <3>3
  <2>3. p.unit = q.unit
    BY <2>2 DEF SolveInv, Composed
  <2>4. /\ p.map \in [p.unit.nodes -> Tiers] /\ q.map \in [p.unit.nodes -> Tiers]
        /\ IsLeast(p.unit, p.map) /\ IsLeast(p.unit, q.map)
    BY <2>3 DEF SolveInv, Composed
  <2>5. p.map[n] <= q.map[n] /\ q.map[n] <= p.map[n]
    BY <2>4 DEF IsLeast
  <2>6. p.map[n] \in Tiers /\ q.map[n] \in Tiers
    BY <2>4
  <2> QED
    BY <2>5, <2>6 DEF Tiers, Undecided, Scoped
<1>3. ASSUME NEW c \in parts
      PROVE  \E p \in told : p.unit.nodes = c
  <2>1. PICK p \in told : p.unit.nodes \subseteq c
    BY <1>1 DEF SolveInv, Accounted, Working, Solving, Propagating
  <2> QED
    BY <2>1, ComponentsAreApart DEF SolvedWhole
<1>4. \A n \in problem.nodes : \E c \in parts : n \in c
  BY ComponentsCover
<1>5. ASSUME NEW e \in E
      PROVE  \E p \in told : {e.source, e.target} \subseteq p.unit.nodes
  <2>1. e.source \in problem.nodes /\ e.target \in problem.nodes
    BY <1>1, EdgesJoin
  <2>2. PICK c \in parts : e.source \in c
    BY <1>4, <2>1
  <2>3. Joined(E, e.source, e.target)
    BY DEF Joined
  <2>4. e.target \in c
    BY <2>1, <2>2, <2>3, ComponentsCover
  <2> QED
    BY <1>3, <2>2, <2>4
<1> QED
  BY <1>2, <1>3, <1>4, <1>5 DEF AgreedPieces

\* A Unique or MultiSolution map satisfies every constraint unless a cluster
\* was cut and its pieces disagree or miss something.
THEOREM UncutMapsAreVerified == Spec => []VerifiedUnlessCut
<1>1. SolveInv => VerifiedUnlessCut
  <2> SUFFICES ASSUME SolveInv, outcome \in {"Unique", "MultiSolution"}, SolvedWhole \/ AgreedPieces
               PROVE  Verified
    BY DEF VerifiedUnlessCut
  <2> DEFINE u == Cluster(problem.nodes)
  <2>1. AgreedPieces
    BY WholeClustersAgree
  <2>2. /\ u.nodes = problem.nodes /\ u.floor = problem.floor /\ u.ceiling = problem.ceiling
        /\ u.edges \subseteq EdgesOf(problem)
    BY DEF Cluster, Among
  <2>3. ASSUME NEW p \in told
        PROVE  /\ p.unit.nodes \subseteq problem.nodes
               /\ p.unit.floor = problem.floor /\ p.unit.ceiling = problem.ceiling
               /\ p.unit.edges = {e \in EdgesOf(problem) : e.source \in p.unit.nodes /\ e.target \in p.unit.nodes}
               /\ InBounds(p.unit, p.map) /\ Consistent(p.unit, p.map)
    <3>1. p.unit = Cluster(p.unit.nodes) /\ p.unit.nodes \subseteq problem.nodes /\ IsSolution(p.unit, p.map)
      BY DEF SolveInv, Composed
    <3> DEFINE S == p.unit.nodes
    <3>2. p.unit = [nodes |-> S, floor |-> problem.floor, ceiling |-> problem.ceiling,
                    edges |-> {e \in EdgesOf(problem) : e.source \in S /\ e.target \in S}]
      BY <3>1 DEF Cluster, Among
    <3> HIDE DEF S
    <3>3. /\ p.unit.floor = problem.floor /\ p.unit.ceiling = problem.ceiling
          /\ p.unit.edges = {e \in EdgesOf(problem) : e.source \in S /\ e.target \in S}
      BY <3>2
    <3> QED
      BY <3>1, <3>3 DEF IsSolution, Carried, S
  <2>4. solution \in [problem.nodes -> Tiers]
    <3>1. UNION {p.unit.nodes : p \in told} = problem.nodes
      BY <2>1, <2>3 DEF AgreedPieces
    <3> QED
      BY <3>1 DEF SolveInv, Composed
  <2>5. ASSUME NEW p \in told, NEW n \in p.unit.nodes
        PROVE  solution[n] = p.map[n]
    <3>1. PICK q \in told : n \in q.unit.nodes /\ solution[n] = q.map[n]
      BY <2>3, <2>4 DEF SolveInv, Composed
    <3> QED
      BY <2>1, <3>1 DEF AgreedPieces
  <2> HIDE DEF u
  <2>6. InBounds(u, solution)
    BY <2>1, <2>2, <2>3, <2>5 DEF InBounds, AgreedPieces
  <2>7. ASSUME NEW e \in u.edges
        PROVE  Meets(e, solution)
    <3>1. PICK p \in told : {e.source, e.target} \subseteq p.unit.nodes
      BY <2>1, <2>2 DEF AgreedPieces
    <3>2. Meets(e, p.map)
      BY <2>2, <2>3, <3>1 DEF Consistent
    <3>3. solution[e.source] = p.map[e.source] /\ solution[e.target] = p.map[e.target]
      BY <2>5, <3>1
    <3> QED
      BY <3>2, <3>3 DEF Meets
  <2> QED
    BY <2>2, <2>4, <2>6, <2>7 DEF Verified, IsSolution, Carried, Consistent, u
<1> QED
  BY <1>1, SolverInvariant, PTL
=============================================================================
