---------------------------- MODULE CertifiedRun ----------------------------
(***************************************************************************)
(* What a certificate is for: the function it describes runs, and no       *)
(* obligation is lost.  The verifier decides on a certificate; when it     *)
(* accepts, a run of the certified control-flow graph is followed one      *)
(* block at a time with the obligations it really holds, loops included as *)
(* often as the run likes.  The verifier replays every block once, so the  *)
(* two can differ after a back edge.                                       *)
(***************************************************************************)
EXTENDS ObligationReplay

VARIABLES
    walk,   \* "idle" before the run, "in" a block, "out" after it left
    at,     \* the block the run is about to execute
    held,   \* the environment the run really has
    lost,   \* an unresolved obligation was overwritten
    broken  \* an event happened in a status its rule does not allow

runVars == <<walk, at, held, lost, broken>>
vars == <<replayVars, runVars>>

Init ==
    /\ ReplayInit
    /\ walk = "idle" /\ at = (CHOOSE b \in Blocks : TRUE) /\ held = EmptyEnv
    /\ lost = FALSE /\ broken = FALSE

\* A binding of a loop body is a new one on every iteration, so a run may
\* create over a settled obligation; the replay sees its block only once.
RuleAllows(ev) ==
    \/ EventAllowed(ev, held)
    \/ ev.kind = "create" /\ held[ev.binding] \notin UnresolvedStatuses

StartRun ==
    /\ phase = "accepted" /\ walk = "idle" /\ cert.nodes # {}
    /\ walk' = "in"
    /\ at' = FirstBlock(cert)
    /\ held' = cert.entryEnv
    /\ UNCHANGED <<replayVars, lost, broken>>

\* The run executes its block and leaves by one of the block's edges.
RunBlock ==
    /\ walk = "in"
    /\ held' = ApplyEvent(cert.event[at], held)
    /\ broken' = (broken \/ ~RuleAllows(cert.event[at]))
    /\ lost' = (lost \/ /\ cert.event[at].kind = "create"
                        /\ held[cert.event[at].binding] \in UnresolvedStatuses)
    /\ \/ \E t \in Successors(at) : at' = t /\ walk' = "in"
       \/ /\ at \in cert.exits \/ Successors(at) = {}
          /\ walk' = "out" /\ UNCHANGED at
    /\ UNCHANGED replayVars

RunStep == StartRun \/ RunBlock

Submit == phase = "waiting" /\ \E c \in Certificates : Receive(c)

Next ==
    \/ /\ Submit \/ VerifierStep
       /\ UNCHANGED runVars
    \/ RunStep

Spec == Init /\ [][Next]_vars

-----------------------------------------------------------------------------

TypeOK ==
    /\ ReplayTypeOK
    /\ walk \in {"idle", "in", "out"}
    /\ at \in Blocks
    /\ held \in Envs
    /\ lost \in BOOLEAN
    /\ broken \in BOOLEAN

\* Soundness of acceptance: a run of an accepted function never leaves it
\* with an unresolved obligation, by any exit and after any number of loop
\* iterations, and never overwrites one.
NoSilentLoss == ~lost /\ (walk = "out" => Unresolved(held) = {})

\* The verifier takes the loop_regions of the events from the certificate.
LoopMarked(inv, R) ==
    /\ inv.target \in R /\ inv.source \in R
    /\ \A b \in R : cert.event[b].kind = "create" => inv.loop \in cert.event[b].regions

\* Control enters R only at the loop's entry.
NaturalLoop(inv, R) ==
    /\ LoopMarked(inv, R)
    /\ \A u, t \in Blocks : <<u, t>> \in cert.edges /\ t \in R /\ u \notin R => t = inv.target
    /\ FirstBlock(cert) \in R => FirstBlock(cert) = inv.target

ClosedInside(R, S) ==
    \A u \in S, t \in R : <<u, t>> \in cert.edges /\ ~ExcusedBackEdge(u, t) => t \in S

\* Wherever else R is entered, the block that closes the loop is reached from the loop's
\* entry inside R without an excused edge.
TraversedLoop(inv, R) ==
    /\ LoopMarked(inv, R)
    /\ \A S \in SUBSET R : inv.target \in S /\ ClosedInside(R, S) => inv.source \in S

\* The regions are honest when every invariant whose closing edge the replay comes to has
\* a loop whose creations are all marked.
RegionsHonest ==
    \A inv \in cert.invariants : inv.source \in reached =>
        \E R \in SUBSET Blocks : NaturalLoop(inv, R) \/ TraversedLoop(inv, R)

\* Whatever else a certificate claims, honest regions make acceptance sound.
AcceptanceSound == RegionsHonest => NoSilentLoss

\* Where an excused back edge differs from the environment the loop was
\* entered with, the loop body created the binding and settled it.
ExcusesScoped ==
    \A b \in reached \cap cert.nodes, t \in Blocks :
        <<b, t>> \in cert.edges /\ ExcusedBackEdge(b, t) =>
            \A x \in Bindings :
                \/ exit[b][x] = entry[t][x]
                \/ entry[t][x] = Absent /\ exit[b][x] \notin UnresolvedStatuses

\* Every event of an accepted function happens in a status its rule allows,
\* provided the certificate's excused back edges are scoped.
RulesKept == ExcusesScoped => ~broken

\* The same without the proviso: the input_states of rules/obligation_rules.toml (owned
\* for a transfer, owned or transferred for a discharge) read for every run.
EveryRunKeepsTheRules == ~broken

-----------------------------------------------------------------------------
(***************************************************************************)
(* The invariant behind NoSilentLoss.                                      *)
(***************************************************************************)

\* A replayed block leaves nothing to check: its event and its edges fit the
\* environments that are now fixed.
Replayed(b) ==
    LET out == ApplyEvent(cert.event[b], entry[b]) IN
    /\ EventMatches(b)
    /\ exit[b] = out
    /\ b \in cert.exits => Unresolved(out) = {}
    /\ b \in cert.exits \/ Successors(b) = {} => out \in terminal
    /\ b \in EventBlocks => b \in checked
    /\ \A t \in Successors(b) :
          /\ t \in reached
          /\ entry[t] = out \/ ExcusedBackEdge(b, t)

ReplaySound ==
    /\ \A b \in reached \ queue : Replayed(b)
    /\ phase = "waiting" => reached = {}
    /\ phase \in {"loops", "exits", "accepted"} => queue = {}
    /\ phase # "waiting" /\ cert.nodes # {} =>
          FirstBlock(cert) \in reached /\ entry[FirstBlock(cert)] = cert.entryEnv
    /\ phase \in {"exits", "accepted"} => \A inv \in cert.invariants : InvariantHolds(inv)
    /\ phase = "accepted" => \A env \in terminal : Unresolved(env) = {}

\* Inside a loop an obligation the loop does not create is unresolved only if
\* it was when the loop was entered.
LoopsInherit ==
    \A inv \in cert.invariants, R \in SUBSET Blocks, b \in Blocks, x \in Bindings :
        /\ NaturalLoop(inv, R) /\ b \in R \cap reached
        /\ x \notin CreatedIn(inv.loop)
        /\ x \in Unresolved(entry[b])
        => inv.target \in reached /\ x \in Unresolved(entry[inv.target])

\* The run holds no unresolved obligation the replay does not know of.
RunTracked ==
    /\ walk # "idle" => phase = "accepted" /\ cert.nodes # {}
    /\ RegionsHonest =>
          /\ walk = "in" => at \in reached /\ Unresolved(held) \subseteq Unresolved(entry[at])
          /\ NoSilentLoss
    /\ walk = "idle" => ~lost

SoundInv == TypeOK /\ ReplaySound /\ LoopsInherit /\ RunTracked
=============================================================================
