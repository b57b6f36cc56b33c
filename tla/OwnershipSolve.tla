--------------------------- MODULE OwnershipSolve ---------------------------
(***************************************************************************)
(* solve_modular: the bindings the greedy pass left undecided are solved   *)
(* cluster by cluster.  A cluster above the target size is cut at its      *)
(* articulation points, the pieces are solved on threads of their own and  *)
(* their maps are merged; any other cluster is solved whole, and a         *)
(* conflict there is handed to the backtracking search.  The threads share *)
(* nothing and are joined in order, so the pieces are solved one after the *)
(* other here; the worklists of lattice_solve are taken in any order.      *)
(***************************************************************************)
EXTENDS OwnershipCluster

CONSTANTS
    Problems,           \* what extract_constraints may be given
    SizeLimit,          \* budget.max_cluster_size
    TargetSize,         \* DECOMPOSE_TARGET_SIZE
    NoNode

IsProblem(p) ==
    /\ p.nodes \subseteq Nodes /\ p.escapes \subseteq p.nodes
    /\ IsFiniteSet(p.nodes)
    /\ \A g \in p.scopes : g \subseteq p.nodes
    /\ p.floor \in [Nodes -> PlainOwned .. ArcMutShared]
    /\ p.ceiling \in [Nodes -> {PlainOwned, NoCeiling}]

ASSUME ProblemsAreExtracted == \A p \in Problems : IsProblem(p)
ASSUME NoNodeIsNone == NoNode \notin Nodes

VARIABLES
    problem,    \* the undecided bindings and what is known of them
    todo,       \* the clusters not solved yet
    plan,       \* the pieces of the current cluster not solved yet
    split,      \* whether the current cluster was cut
    phase,      \* the step of the current lattice_solve, or "next"
    unit,       \* the cluster lattice_solve works on
    current,    \* the tier of each of its nodes
    worklist,
    overflow,   \* lub_conflict
    ceilings,   \* effective_ceiling
    falling,    \* ceil_worklist
    answer,     \* what lattice_solve returned
    solution, conflicts, ambiguous, outcome,
    taken,      \* history: how often each node was taken from the worklist
    dropped,    \* history: and how often from the downward one
    told        \* history: the map each unit contributed

latticeVars == <<unit, current, worklist, overflow, ceilings, falling, answer, taken, dropped>>
resultVars == <<solution, conflicts, ambiguous, told>>
vars == <<problem, todo, plan, split, phase, latticeVars, resultVars, outcome>>

Promise == INSTANCE LeastSolution

Pending == Promise!Pending
Solved(a) == Promise!Solved(a)
Conflict(n, top) == Promise!Conflict(n, top)

NoOutcome == "none yet"
NoTiers == [n \in {} |-> Undecided]

Init ==
    /\ problem \in Problems
    /\ todo = Components(problem.nodes, EdgesOf(problem))
    /\ plan = {} /\ split = FALSE /\ phase = "next"
    /\ unit = Promise!Nothing /\ current = NoTiers
    /\ worklist = {} /\ overflow = NoNode /\ ceilings = NoTiers /\ falling = {}
    /\ answer = Pending
    /\ solution = NoTiers /\ conflicts = {} /\ ambiguous = FALSE /\ told = {}
    /\ outcome = NoOutcome
    /\ taken = NoTiers /\ dropped = NoTiers

-----------------------------------------------------------------------------
(* The loop over the clusters.                                              *)

Between == phase = "next" /\ plan = {}

Return(result) ==
    /\ outcome' = result /\ phase' = "done"
    /\ UNCHANGED <<problem, todo, plan, split, latticeVars, resultVars>>

\* The clock is read before every cluster.
OutOfTime == Between /\ todo # {} /\ Return("BudgetExceeded")

NextCluster == CHOOSE c \in todo : \A d \in todo : Least(c) <= Least(d)

\* containment_precheck: a boundary wins over a cluster that is too large.
Contain ==
    /\ Between /\ todo # {}
    /\ \/ NextCluster \cap problem.escapes # {} /\ Return("BoundaryStop")
       \/ /\ NextCluster \cap problem.escapes = {}
          /\ Cardinality(NextCluster) > SizeLimit
          /\ Return("ClusterTooLarge")

Cluster(S) == Among(problem, S)

TakeCluster ==
    /\ Between /\ todo # {}
    /\ NextCluster \cap problem.escapes = {}
    /\ Cardinality(NextCluster) <= SizeLimit
    /\ todo' = todo \ {NextCluster}
    /\ LET pieces == SubClusters(Cluster(NextCluster))
           cut == /\ Cardinality(NextCluster) > TargetSize
                  /\ \E p, q \in pieces : p # q
       IN  /\ split' = cut
           /\ plan' = IF cut THEN pieces
                      ELSE {[first |-> Least(NextCluster), nodes |-> NextCluster]}
    /\ UNCHANGED <<problem, phase, latticeVars, resultVars, outcome>>

\* After the last cluster.
Finish ==
    /\ Between /\ todo = {}
    /\ Return(IF conflicts # {} THEN "NoSolution"
              ELSE IF ambiguous THEN "MultiSolution" ELSE "Unique")

-----------------------------------------------------------------------------
(* lattice_solve on one unit.                                               *)

StartUnit ==
    /\ phase = "next" /\ plan # {}
    /\ \E piece \in plan :
          /\ \A other \in plan : piece.first <= other.first
          /\ plan' = plan \ {piece}
          /\ unit' = Cluster(piece.nodes)
    /\ phase' = "preflight"
    /\ current' = Floors(unit')
    /\ worklist' = unit'.nodes
    /\ ceilings' = unit'.ceiling
    /\ falling' = {n \in unit'.nodes : unit'.ceiling[n] # NoCeiling}
    /\ taken' = [n \in unit'.nodes |-> 0] /\ dropped' = taken'
    /\ overflow' = NoNode /\ answer' = Pending
    /\ UNCHANGED <<problem, todo, split, resultVars, outcome>>

AnswerWith(result) ==
    /\ answer' = result /\ phase' = "answered"
    /\ UNCHANGED <<problem, todo, plan, split, unit, current, worklist, overflow, ceilings,
                   falling, taken, dropped, resultVars, outcome>>

\* Variant: a floor that meets its ceiling counts as above it.
CrossedOrMet == {n \in unit.nodes : unit.floor[n] >= ceilings[n]}

Crossed == {n \in unit.nodes : unit.floor[n] > ceilings[n]}

\* A floor above its own ceiling.
PreflightConflict ==
    /\ phase = "preflight"
    /\ \E n \in Crossed : AnswerWith(Conflict(n, unit.ceiling[n]))

Preflight ==
    /\ phase = "preflight" /\ Crossed = {}
    /\ phase' = "raise"
    /\ UNCHANGED <<problem, todo, plan, split, latticeVars, resultVars, outcome>>

\* Variant: an edge carries its source's tier to its target only.
WantedForward(n, m) ==
    {Need(e.kind, current[n]) : e \in {f \in unit.edges : Carries(f) /\ f.source = n /\ f.target = m}}

\* What node n asks of node m over the edges that join them.
Wanted(n, m) ==
    {Need(e.kind, current[n]) : e \in {f \in unit.edges : Carries(f) /\ {f.source, f.target} = {n, m}}}

\* Variants: a raised node is not put back; every neighbour is put back.
RequeuedNever(n, raised) == worklist \ {n}
RequeuedAll(n, raised) == (worklist \ {n}) \cup {m \in unit.nodes : Joined(unit.edges, n, m)}

Requeued(n, raised) == (worklist \ {n}) \cup raised

\* One turn of the upward worklist: the neighbours are raised to what they are
\* asked for, as far as their ceilings allow.
Raise(n) ==
    /\ phase = "raise" /\ n \in worklist
    /\ LET fits(m) == {t \in Wanted(n, m) : t <= unit.ceiling[m]}
           raised == {m \in unit.nodes : \E t \in fits(m) : t > current[m]}
           over == {m \in unit.nodes : \E t \in Wanted(n, m) : t > unit.ceiling[m]}
       IN  /\ current' = [m \in unit.nodes |->
                             IF m \in raised
                             THEN CHOOSE t \in fits(m) : \A s \in fits(m) : s <= t
                             ELSE current[m]]
           /\ worklist' = Requeued(n, raised)
           /\ overflow' \in IF overflow # NoNode \/ over = {} THEN {overflow} ELSE over
    /\ taken' = [taken EXCEPT ![n] = @ + 1]
    /\ UNCHANGED <<problem, todo, plan, split, phase, unit, ceilings, falling, answer, dropped,
                   resultVars, outcome>>

Propagated ==
    /\ phase = "raise" /\ worklist = {}
    /\ phase' = "lower"
    /\ UNCHANGED <<problem, todo, plan, split, latticeVars, resultVars, outcome>>

\* One turn of the downward worklist: a ceiling holds for the sources of the
\* edges into its node.
LowerCeilings(n) ==
    /\ phase = "lower" /\ n \in falling
    /\ LET sources == {m \in unit.nodes : \E e \in unit.edges : Carries(e) /\ e.target = n /\ e.source = m}
           lowered == {m \in sources : ceilings[n] < ceilings[m]}
       IN  /\ ceilings' = [m \in Nodes |-> IF m \in lowered THEN ceilings[n] ELSE ceilings[m]]
           /\ falling' = (falling \ {n}) \cup lowered
    /\ dropped' = [dropped EXCEPT ![n] = @ + 1]
    /\ UNCHANGED <<problem, todo, plan, split, phase, unit, current, worklist, overflow, answer,
                   taken, resultVars, outcome>>

Settled == phase = "lower" /\ falling = {}

CeilingConflict ==
    /\ Settled
    /\ \E n \in Crossed : n = Least(Crossed) /\ AnswerWith(Conflict(n, ceilings[n]))

OverflowConflict ==
    /\ Settled /\ Crossed = {} /\ overflow # NoNode
    /\ AnswerWith(Conflict(overflow, unit.ceiling[overflow]))

Excluded == {e \in unit.edges : e.kind = "exclusive" /\ ~Meets(e, current)}

ExclusionConflict ==
    /\ Settled /\ Crossed = {} /\ overflow = NoNode
    /\ \E e \in Excluded : AnswerWith(Conflict(e.source, Lower(unit.ceiling[e.source], Scoped)))

SolveUnit ==
    /\ Settled /\ Crossed = {} /\ overflow = NoNode /\ Excluded = {}
    /\ AnswerWith(Solved(current))

-----------------------------------------------------------------------------
(* What solve_modular does with an answer.                                  *)

Insert(s, a) ==
    [n \in DOMAIN s \cup DOMAIN a |-> IF n \in DOMAIN a THEN a[n] ELSE s[n]]

Absorbed ==
    /\ phase = "answered"
    /\ phase' = "next"
    /\ UNCHANGED <<problem, todo, plan, split, latticeVars, outcome>>

\* merge_results for a piece; a whole cluster also offers its candidates.
AbsorbMap ==
    /\ Absorbed /\ answer.kind = "solved"
    /\ solution' = Insert(solution, answer.map)
    /\ ambiguous' = (ambiguous \/ (~split /\ \E a, b \in Candidates(unit, answer.map) : a # b))
    /\ told' = told \cup {[unit |-> unit, map |-> answer.map]}
    /\ UNCHANGED conflicts

\* generate_disjunctions_from_conflict and the search over its one
\* disjunction: the other nodes stay at their floors.
Attempts ==
    LET alternatives == {t \in PlainOwned .. Scoped : unit.floor[answer.node] <= t /\ t <= answer.top}
    IN  {a \in {[Floors(unit) EXCEPT ![answer.node] = t] : t \in alternatives} :
            a[answer.node] <= unit.ceiling[answer.node] /\ Consistent(unit, a)}

\* A piece is not searched.  The branch in which the search of a whole cluster
\* succeeds is not here because nothing gets to it: SearchIsVain.
AbsorbConflict ==
    /\ Absorbed /\ answer.kind = "conflict"
    /\ split \/ Attempts = {}
    /\ conflicts' = conflicts \cup {answer.node}
    /\ UNCHANGED <<solution, ambiguous, told>>

-----------------------------------------------------------------------------

Lattice ==
    \/ PreflightConflict \/ Preflight \/ Propagated
    \/ \E n \in Nodes : Raise(n) \/ LowerCeilings(n)
    \/ CeilingConflict \/ OverflowConflict \/ ExclusionConflict \/ SolveUnit

Next ==
    \/ OutOfTime \/ Contain \/ TakeCluster \/ Finish \/ StartUnit
    \/ Lattice
    \/ AbsorbMap \/ AbsorbConflict

Spec == Init /\ [][Next]_vars

-----------------------------------------------------------------------------

Phases == {"next", "preflight", "raise", "lower", "answered", "done"}

TypeOK ==
    /\ IsProblem(problem)
    /\ unit.nodes \subseteq Nodes
    /\ phase \in Phases
    /\ phase \in {"preflight", "raise", "lower", "answered"} =>
          /\ unit = Cluster(unit.nodes)
          /\ current \in [unit.nodes -> Tiers]
          /\ taken \in [unit.nodes -> Nat] /\ dropped \in [unit.nodes -> Nat]
          /\ ceilings \in [Nodes -> PlainOwned .. NoCeiling]
          /\ worklist \subseteq unit.nodes /\ falling \subseteq unit.nodes
          /\ overflow \in unit.nodes \cup {NoNode}
    /\ phase = "answered" => answer.kind \in {"solved", "conflict"}

\* lattice_solve gives the least assignment that the edges and bounds allow, or
\* a conflict where there is none, whatever order its worklists are taken in
\* and whatever the downward pass did to the ceilings.
SolvesLeast == Promise!Spec

\* IterationBudgetExceeded never happens and the downward pass is never cut off
\* at its 16 turns for each node: a node is taken from a worklist at most as
\* often as its tier or its ceiling can change.
BudgetIsEnough ==
    /\ \A n \in DOMAIN taken : taken[n] <= Scoped
    /\ \A n \in DOMAIN dropped : dropped[n] <= Scoped + 1

\* The backtracking search never finds anything for a cluster of extracted
\* constraints: bindings that exclude each other share a scope, so an edge
\* makes them equal, and the search moves only one of them.
SearchIsVain == phase = "answered" /\ answer.kind = "conflict" /\ ~split => Attempts = {}

\* "contain a complete verified map" (cache.rs:75): every undecided binding has
\* a tier within its bounds, and every constraint holds.
Verified == IsSolution(Cluster(problem.nodes), solution)

UniqueIsVerified == outcome = "Unique" => Verified

\* What is true of it, and of the map that the candidates of a MultiSolution are
\* combined with: the map is complete and satisfies every constraint if every
\* cluster was solved whole.  If one was cut, what is wrong with it is at the
\* cut: two pieces differ about a node, or a node or an edge is in no piece.
SolvedWhole == \A p \in told : p.unit.nodes \in Components(problem.nodes, EdgesOf(problem))

AgreedPieces ==
    /\ \A p, q \in told : \A n \in p.unit.nodes \cap q.unit.nodes : p.map[n] = q.map[n]
    /\ \A n \in problem.nodes : \E p \in told : n \in p.unit.nodes
    /\ \A e \in EdgesOf(problem) : \E p \in told : {e.source, e.target} \subseteq p.unit.nodes

VerifiedUnlessCut ==
    outcome \in {"Unique", "MultiSolution"} /\ (SolvedWhole \/ AgreedPieces) => Verified

\* K0080 "no valid assignment": no assignment without a Scoped binding
\* satisfies the constraints, whether or not the cluster was cut.
NoSolutionIsHonest ==
    outcome = "NoSolution" =>
        \A a \in [problem.nodes -> PlainOwned .. ArcMutShared] : ~IsSolution(Cluster(problem.nodes), a)

-----------------------------------------------------------------------------
(* The invariants behind these.                                             *)

Propagating == phase \in {"raise", "lower"}
Solving == phase = "preflight" \/ Propagating
Working == Solving \/ phase = "answered"

Assignments == [unit.nodes -> Tiers]

Shapes ==
    /\ TypeOK
    /\ todo \subseteq Components(problem.nodes, EdgesOf(problem))
    /\ \A piece \in plan : piece.nodes \subseteq problem.nodes /\ piece.nodes # {}
    /\ Working => unit = Cluster(unit.nodes) /\ unit.nodes \subseteq problem.nodes /\ unit.nodes # {}
    /\ Solving => answer = Pending
    /\ phase = "preflight" => current = Floors(unit) /\ ceilings = unit.ceiling
    /\ phase = "preflight" => overflow = NoNode /\ worklist = unit.nodes
    /\ phase = "lower" => worklist = {}
    /\ phase = "next" => unit = Promise!Nothing \/ answer # Pending

\* The tiers stay in their bounds and below every solution, the ceilings above.
Bounded ==
    /\ Propagating => \A n \in unit.nodes : unit.floor[n] <= current[n] /\ current[n] <= unit.ceiling[n]
    /\ Solving => \A a \in Assignments : Carried(unit, a) =>
          \A n \in unit.nodes : current[n] <= a[n] /\ a[n] <= ceilings[n]

\* An edge whose end waits in no worklist has what that end asks for.
Agreeing ==
    Propagating /\ overflow = NoNode =>
        \A e \in unit.edges : Carries(e) =>
            /\ e.source \notin worklist => Need(e.kind, current[e.source]) <= current[e.target]
            /\ e.target \notin worklist => Need(e.kind, current[e.target]) <= current[e.source]

OverflowHonest == Propagating /\ overflow # NoNode => \A a \in Assignments : ~Carried(unit, a)

\* Every turn but the first follows a change.
Turns ==
    Solving => \A n \in unit.nodes :
        /\ taken[n] <= 1 + current[n] - unit.floor[n]
        /\ n \in worklist => taken[n] <= current[n] - unit.floor[n]
        /\ dropped[n] <= 1 + unit.ceiling[n] - ceilings[n]
        /\ n \in falling => dropped[n] <= unit.ceiling[n] - ceilings[n]

AnswerHonest ==
    phase = "answered" =>
        /\ answer.kind = "solved" =>
              answer.map \in Assignments /\ IsLeast(unit, answer.map) /\ IsSolution(unit, answer.map)
        /\ answer.kind = "conflict" =>
              /\ Attempts = {}
              /\ \A a \in [unit.nodes -> PlainOwned .. ArcMutShared] : ~IsSolution(unit, a)

LatticeInv == Bounded /\ Agreeing /\ OverflowHonest /\ Turns /\ BudgetIsEnough /\ AnswerHonest

\* The map is put together from the least solutions of the units.
Composed ==
    /\ \A p \in told :
          /\ p.unit = Cluster(p.unit.nodes) /\ p.unit.nodes \subseteq problem.nodes /\ p.unit.nodes # {}
          /\ p.map \in [p.unit.nodes -> Tiers] /\ IsLeast(p.unit, p.map) /\ IsSolution(p.unit, p.map)
    /\ solution \in [UNION {p.unit.nodes : p \in told} -> Tiers]
    /\ \A n \in DOMAIN solution : \E p \in told : n \in p.unit.nodes /\ solution[n] = p.map[n]

\* No cluster is forgotten.
Accounted ==
    conflicts = {} => \A c \in Components(problem.nodes, EdgesOf(problem)) :
        \/ c \in todo
        \/ \E piece \in plan : piece.nodes \subseteq c
        \/ Working /\ unit.nodes \subseteq c
        \/ \E p \in told : p.unit.nodes \subseteq c

Concluded ==
    /\ outcome # NoOutcome => phase = "done"
    /\ outcome = "NoSolution" => conflicts # {}
    /\ outcome \in {"Unique", "MultiSolution"} => conflicts = {} /\ todo = {} /\ plan = {}
    /\ conflicts # {} =>
          \A a \in [problem.nodes -> PlainOwned .. ArcMutShared] : ~IsSolution(Cluster(problem.nodes), a)

SolveInv == Shapes /\ LatticeInv /\ Composed /\ Accounted /\ Concluded
=============================================================================
