------------------------- MODULE ObligationDataflow -------------------------
(***************************************************************************)
(* The certificate emitter of kobo-driver: the forward dataflow over the   *)
(* Core blocks of a function that computes the environment every block is  *)
(* entered with, and the certificate assembled from it.                    *)
(***************************************************************************)
EXTENDS ObligationCfg, FiniteSets

CONSTANT Programs    \* the functions that may be compiled

ASSUME BlocksFinite == IsFiniteSet(Blocks)

BackEdgeFacts == [source : Blocks, target : Blocks, loop : LoopIds]

(***************************************************************************)
(* A program is a Core function: its blocks, the edges between them, the   *)
(* blocks with an edge to a modeled exit, the obligation event of each     *)
(* block, the edges that belong to a loop and those that close it, the     *)
(* bindings with a lifecycle template, the directive of a user invariant   *)
(* and the loops with complete bounded evidence.  A directive is about the *)
(* facts of the loops with its label or, without a label, about the only   *)
(* fact there is; it ranges over the bindings of the kind it names, unless *)
(* it is malformed and names none.                                         *)
(***************************************************************************)
CoreFunctions ==
    [nodes : SUBSET Blocks, edges : SUBSET (Blocks \X Blocks), exits : SUBSET Blocks,
     event : [Blocks -> [kind : Kinds, binding : Bindings]],
     facts : SUBSET BackEdgeFacts, loopEdges : [LoopIds -> SUBSET (Blocks \X Blocks)],
     templated : SUBSET Bindings, bounded : SUBSET BackEdgeFacts,
     directed : SUBSET BackEdgeFacts, malformed : BOOLEAN, domain : SUBSET Bindings]

\* Lowering: an edge joins two blocks of the function, a loop is closed by an edge, and an
\* edge to the same or an earlier block closes a loop.
Lowered(p) ==
    /\ p.edges \subseteq p.nodes \X p.nodes
    /\ \A fact \in p.facts : <<fact.source, fact.target>> \in p.edges
    /\ \A e \in p.edges : e[2] <= e[1] =>
          \E fact \in p.facts : fact.source = e[1] /\ fact.target = e[2]

ASSUME ProgramsAreLowered == \A p \in Programs : p \in CoreFunctions /\ Lowered(p)

VARIABLES
    program,
    stage,      \* "start", "flow" while the worklist runs, "emitted"
    work,       \* blocks whose entry environment changed
    region,     \* LoopRegionIndex: the blocks of each loop
    found,      \* blocks that have an entry environment
    flowIn      \* block_entry_envs of the emitter

flowVars == <<program, stage, region, work, found, flowIn>>

\* Variant: where two paths disagree, the first one wins.
MergeKeepsFirst(current, incoming) ==
    [x \in Bindings |-> IF current[x] = Absent THEN incoming[x] ELSE current[x]]

\* merge_block_entry_env: a binding missing on one side takes the other
\* side's status, two different statuses become branch_unresolved.
MergeEnv(current, incoming) ==
    [x \in Bindings |->
        CASE incoming[x] = Absent     -> current[x]
          [] current[x] = Absent      -> incoming[x]
          [] current[x] = incoming[x] -> current[x]
          [] OTHER                    -> "branch_unresolved"]

\* The merge of a whole set, in any order: MergeEnv is a least upper bound.
MergeAll(envs) ==
    [x \in Bindings |->
        LET present == {env[x] : env \in envs} \ {Absent}
        IN  IF present = {} THEN Absent
            ELSE IF Cardinality(present) = 1 THEN CHOOSE s \in present : TRUE
            ELSE "branch_unresolved"]

Targets(b) == {t \in Blocks : <<b, t>> \in program.edges}

\* is_back_edge_between_blocks: the emitter never follows an edge to the same
\* or an earlier block.
Forward(b) == {t \in Targets(b) \cap program.nodes : t > b}

FlowOut(b) == ApplyEvent(program.event[b], flowIn[b])

\* Variant: a loop's region is only its entry.
LoopEntryOnly(fact) == {fact.target} \cap program.nodes

\* loop_region_blocks: forward from the loop's entry over the edges that do
\* not belong to the loop itself.
LoopRegion(fact) ==
    LET plain == program.edges \ program.loopEdges[fact.loop]
        within[n \in 0 .. Cardinality(Blocks)] ==
            IF n = 0 THEN {fact.target} \cap program.nodes
            ELSE LET inside == within[n - 1]
                 IN  inside \cup {t \in program.nodes : \E s \in inside : <<s, t>> \in plain}
    IN  within[Cardinality(Blocks)]

FlowInit ==
    /\ program \in Programs
    /\ stage = "start" /\ work = {} /\ found = {}
    /\ region = [fact \in program.facts |-> {}]
    /\ flowIn = [b \in Blocks |-> EmptyEnv]

StartFlow ==
    /\ stage = "start"
    /\ stage' = "flow"
    /\ region' = [fact \in program.facts |-> LoopRegion(fact)]
    /\ LET first == {b \in program.nodes : \A c \in program.nodes : b <= c}
       IN  work' = first /\ found' = first
    /\ UNCHANGED <<program, flowIn>>

FoundFrom(b) == found \cup Forward(b)

\* One turn of the worklist loop of function_obligation_replay.
FlowBlock(b) ==
    LET merged(t) == MergeEnv(flowIn[t], FlowOut(b))
        touched == {t \in Forward(b) : t \notin found \/ merged(t) # flowIn[t]}
    IN  /\ stage = "flow" /\ b \in work
        /\ work' = (work \ {b}) \cup touched
        /\ found' = FoundFrom(b)
        /\ flowIn' = [t \in Blocks |-> IF t \in Forward(b) THEN merged(t) ELSE flowIn[t]]
        /\ UNCHANGED <<program, stage, region>>

-----------------------------------------------------------------------------
(* The certificate, assembled when the worklist is empty.                  *)

EmittedEvent(b) ==
    [kind |-> program.event[b].kind, binding |-> program.event[b].binding,
     before |-> flowIn[b], after |-> FlowOut(b),
     regions |-> {l \in LoopIds :
                    \E fact \in program.facts : fact.loop = l /\ b \in region[fact]}]

Created(fact) ==
    {program.event[b].binding :
        b \in {c \in region[fact] : program.event[c].kind = "create"}}

\* The user names a kind for this loop.
UserKind(fact) == fact \in program.directed /\ ~program.malformed

\* The created bindings an invariant speaks of: those of the user's kind, or
\* those that have a lifecycle template.
Relevant(fact) ==
    Created(fact) \cap (IF UserKind(fact) THEN program.domain ELSE program.templated)

CheckedBy(fact) == IF UserKind(fact) THEN program.domain ELSE Relevant(fact)

OnlyChecked(fact, env) ==
    [x \in Bindings |-> IF x \in CheckedBy(fact) THEN env[x] ELSE Absent]

\* Environments of blocks the dataflow never found are missing, not computed.
OutIfFound(b) == IF b \in found THEN FlowOut(b) ELSE EmptyEnv

EmittedInvariant(fact) ==
    LET before == OnlyChecked(fact, flowIn[fact.target])
        after == OnlyChecked(fact, OutIfFound(fact.source))
    IN  [source |-> fact.source, target |-> fact.target, loop |-> fact.loop,
         preserved |-> /\ Leaks(Bindings, before) = {} /\ Leaks(Bindings, after) = {}
                       /\ fact \in program.directed => UserKind(fact) /\ program.domain # {},
         created |-> Relevant(fact), checked |-> CheckedBy(fact),
         entryStates |-> before, backStates |-> after]

TerminalBlocks == {b \in found : b \in program.exits \/ Targets(b) = {}}

EmittedCertificate ==
    [nodes |-> program.nodes, edges |-> program.edges, exits |-> program.exits,
     event |-> [b \in Blocks |-> EmittedEvent(b)],
     entryEnv |-> EmptyEnv,
     exitEnv |-> MergeAll({FlowOut(b) : b \in TerminalBlocks}),
     facts |-> program.facts,
     invariants |-> {EmittedInvariant(fact) :
                       fact \in {f \in program.facts :
                                   f \in program.directed \/ Relevant(f) # {}}},
     bounded |-> program.bounded]

FlowStep == StartFlow \/ \E b \in Blocks : FlowBlock(b)

FlowDone == stage = "flow" /\ work = {}

-----------------------------------------------------------------------------
(* What the dataflow should compute, without a worklist: the merge of the  *)
(* environments of all forward paths.                                      *)

PathEnvs ==
    LET first == CHOOSE b \in program.nodes : \A c \in program.nodes : b <= c
        into[b \in Blocks] ==
            (IF b = first THEN {EmptyEnv} ELSE {}) \cup
            UNION {{ApplyEvent(program.event[p], env) : env \in into[p]} :
                     p \in {q \in program.nodes : q < b /\ <<q, b>> \in program.edges}}
    IN  into
=============================================================================
