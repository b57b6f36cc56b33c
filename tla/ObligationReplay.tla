-------------------------- MODULE ObligationReplay --------------------------
(***************************************************************************)
(* The certificate verifier of kobo-proof, the part that decides whether a *)
(* certificate's obligation evidence is believed: the worklist replay of   *)
(* the events over the control-flow graph, the loop invariants that excuse *)
(* a back edge from the exact join, and the exit environments.             *)
(*                                                                         *)
(* A certificate is a record of claims; it is data from outside, and       *)
(* nothing about it is assumed beyond its shape.                           *)
(***************************************************************************)
EXTENDS ObligationCfg

CONSTANT Certificates    \* the certificates the verifier may be given

CertEvents == [kind : Kinds, binding : Bindings, before : Envs, after : Envs,
               regions : SUBSET LoopIds]

LoopFacts == [source : Blocks, target : Blocks, loop : LoopIds]

Invariants == [source : Blocks, target : Blocks, loop : LoopIds,
               preserved : BOOLEAN, created : SUBSET Bindings,
               checked : SUBSET Bindings, entryStates : Envs, backStates : Envs]

CertificateShape ==
    [nodes : SUBSET Blocks, edges : SUBSET (Blocks \X Blocks),
     exits : SUBSET Blocks, event : [Blocks -> CertEvents],
     entryEnv : Envs, exitEnv : Envs, facts : SUBSET LoopFacts,
     invariants : SUBSET Invariants, bounded : SUBSET LoopFacts]

ASSUME CertificatesHaveShape == Certificates \subseteq CertificateShape

VARIABLES
    cert,       \* the certificate under verification
    phase,      \* which check comes next, or the verdict
    queue,      \* blocks whose entry environment is known but not replayed
    reached,    \* blocks that have an entry environment
    entry,      \* block_entry_envs; the default environment if not reached
    exit,       \* block_exit_envs; likewise
    terminal,   \* terminal_envs
    checked     \* blocks whose event was checked

replayVars == <<cert, phase, queue, reached, entry, exit, terminal, checked>>

Verdicts == {"accepted", "rejected"}

Successors(b) == {t \in Blocks : <<b, t>> \in cert.edges}

EventBlocks == {b \in Blocks : cert.event[b].kind # "none"}

\* is_invariant_back_edge: any invariant marked preserved excuses its edge.
ExcusedBackEdge(b, t) ==
    \E inv \in cert.invariants :
        inv.source = b /\ inv.target = t /\ inv.preserved

FirstBlock(c) == CHOOSE b \in c.nodes : \A d \in c.nodes : b <= d

BlankCertificate ==
    [nodes |-> {}, edges |-> {}, exits |-> {},
     event |-> [b \in Blocks |->
                  [kind |-> "none", binding |-> CHOOSE x \in Bindings : TRUE,
                   before |-> EmptyEnv, after |-> EmptyEnv, regions |-> {}]],
     entryEnv |-> EmptyEnv, exitEnv |-> EmptyEnv, facts |-> {},
     invariants |-> {}, bounded |-> {}]

ReplayInit ==
    /\ cert = BlankCertificate
    /\ phase = "waiting"
    /\ queue = {} /\ reached = {} /\ terminal = {} /\ checked = {}
    /\ entry = [b \in Blocks |-> EmptyEnv]
    /\ exit = [b \in Blocks |-> EmptyEnv]

\* verify_certificate is called.  A graph without nodes leaves nothing to
\* replay: the function returns before it looks at edges and events.
Receive(c) ==
    /\ cert' = c
    /\ IF c.nodes = {}
         THEN /\ phase' = "loops"
              /\ UNCHANGED <<queue, reached, entry>>
         ELSE /\ phase' = "replay"
              /\ queue' = {FirstBlock(c)}
              /\ reached' = {FirstBlock(c)}
              /\ entry' = [entry EXCEPT ![FirstBlock(c)] = c.entryEnv]
    /\ UNCHANGED <<exit, terminal, checked>>

\* Variant: the precondition of the event's rule is not checked.
EventClaimedOnly(b) ==
    LET ev == cert.event[b] IN
    ev.kind # "none" => ev.before = entry[b] /\ ev.after = ApplyEvent(ev, entry[b])

\* What replay_block_event and the loop over the outgoing edges require of a
\* block; the first requirement that fails rejects the certificate.
EventMatches(b) ==
    LET ev == cert.event[b] IN
    ev.kind # "none" =>
        /\ ev.before = entry[b]
        /\ EventAllowed(ev, entry[b])
        /\ ev.after = ApplyEvent(ev, entry[b])

EdgesMatch(b, out) ==
    /\ b \in cert.exits => Unresolved(out) = {}
    /\ \A t \in Successors(b) :
          /\ t \in cert.nodes
          /\ t \in reached => entry[t] = out \/ ExcusedBackEdge(b, t)

BlockReplays(b) ==
    EventMatches(b) /\ EdgesMatch(b, ApplyEvent(cert.event[b], entry[b]))

\* Variant: the front of the queue is read and not taken.
QueueKept(b) == queue

QueueWithout(b) == queue \ {b}

\* One turn of the worklist loop.  The code's queue is first-in-first-out;
\* any order is allowed here, so that no result depends on it.
ReplayBlock(b) ==
    LET out == ApplyEvent(cert.event[b], entry[b])
        new == Successors(b) \ reached
    IN  /\ phase = "replay" /\ b \in queue
        /\ BlockReplays(b)
        /\ queue' = QueueWithout(b) \cup new
        /\ reached' = reached \cup new
        /\ entry' = [t \in Blocks |-> IF t \in new THEN out ELSE entry[t]]
        /\ exit' = [exit EXCEPT ![b] = out]
        /\ terminal' = IF b \in cert.exits \/ Successors(b) = {}
                         THEN terminal \cup {out} ELSE terminal
        /\ checked' = checked \cup ({b} \cap EventBlocks)
        /\ UNCHANGED <<cert, phase>>

RejectBlock(b) ==
    /\ phase = "replay" /\ b \in queue
    /\ ~BlockReplays(b)
    /\ phase' = "rejected"
    /\ UNCHANGED <<cert, queue, reached, entry, exit, terminal, checked>>

\* The worklist is empty: every edge must leave a known block and every event
\* must have been reached.
FinishReplay ==
    /\ phase = "replay" /\ queue = {}
    /\ phase' = IF /\ \A e \in cert.edges : e[1] \in cert.nodes
                   /\ EventBlocks \subseteq checked
                  THEN "loops" ELSE "rejected"
    /\ UNCHANGED <<cert, queue, reached, entry, exit, terminal, checked>>

\* The bindings a loop creates, as the events' loop_regions tell.
CreatedIn(loop) ==
    {cert.event[b].binding :
        b \in {c \in EventBlocks : /\ cert.event[c].kind = "create"
                                   /\ loop \in cert.event[c].regions}}

Agree(S, left, right) == \A x \in S : left[x] = right[x]

InvariantShape(inv) ==
    /\ inv.preserved
    /\ inv.target \in reached => Agree(inv.checked, entry[inv.target], inv.entryStates)
    /\ Leaks(inv.checked, inv.entryStates) = {}
    /\ Leaks(inv.checked, inv.backStates) = {}
    /\ inv.source \in reached => Agree(inv.checked, exit[inv.source], inv.backStates)
    /\ [source |-> inv.source, target |-> inv.target, loop |-> inv.loop] \in cert.facts

\* Variant: an invariant need not check the bindings it lists as created.
CreatedUnchecked(inv) == InvariantShape(inv) /\ inv.created = CreatedIn(inv.loop)

InvariantHolds(inv) ==
    /\ InvariantShape(inv)
    /\ inv.created = CreatedIn(inv.loop)
    /\ inv.created \subseteq inv.checked

LoopCovered(fact) ==
    \/ fact \in cert.bounded
    \/ \E inv \in cert.invariants :
          /\ inv.source = fact.source /\ inv.target = fact.target
          /\ inv.loop = fact.loop /\ inv.preserved

CheckLoops ==
    /\ phase = "loops"
    /\ phase' = IF /\ \A inv \in cert.invariants : InvariantHolds(inv)
                   /\ \A fact \in cert.facts : LoopCovered(fact)
                  THEN "exits" ELSE "rejected"
    /\ UNCHANGED <<cert, queue, reached, entry, exit, terminal, checked>>

CheckExits ==
    /\ phase = "exits"
    /\ phase' = IF \A env \in terminal : env = cert.exitEnv /\ Unresolved(env) = {}
                  THEN "accepted" ELSE "rejected"
    /\ UNCHANGED <<cert, queue, reached, entry, exit, terminal, checked>>

VerifierStep ==
    \/ \E b \in Blocks : ReplayBlock(b)
    \/ \E b \in Blocks : RejectBlock(b)
    \/ FinishReplay
    \/ CheckLoops
    \/ CheckExits

ReplayTypeOK ==
    /\ cert \in CertificateShape
    /\ phase \in {"waiting", "replay", "loops", "exits"} \cup Verdicts
    /\ queue \subseteq reached
    /\ reached \subseteq cert.nodes
    /\ entry \in [Blocks -> Envs]
    /\ exit \in [Blocks -> Envs]
    /\ terminal \subseteq Envs
    /\ checked \subseteq reached
=============================================================================
