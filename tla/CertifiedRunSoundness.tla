----------------------- MODULE CertifiedRunSoundness -----------------------
(***************************************************************************)
(* Proofs about the certificate pipeline.                                  *)
(*                                                                         *)
(* First the verifier and the certified run, for any certificate: types,   *)
(* and that what the verifier accepts is sound.  The argument for          *)
(* soundness has three parts.  ReplaySound: the environments the replay    *)
(* fixed are consistent along every edge that is not an excused back edge. *)
(* LoopsInherit: inside a loop, an unresolved obligation that the loop     *)
(* does not create was already unresolved at the loop's entry.  With both, *)
(* RunTracked: a run never holds an unresolved obligation that the replay  *)
(* does not know of, not even after a back edge.  RunShadows says the same *)
(* of the statuses.                                                        *)
(*                                                                         *)
(* Then the emitter in front of it.  FlowInv: what is handed over is the   *)
(* emitter's certificate, and it has the shape of one, so that soundness   *)
(* carries over.  The regions the emitter marks are closed, hence honest.  *)
(* PathInv: the dataflow knows nothing no path brings, and a block that no *)
(* longer waits has handed on all it knows; with an empty worklist that is *)
(* the merge over the paths.  VerdictInv: without loops the replay follows *)
(* the paths, so that its verdict is the one the paths deserve.            *)
(***************************************************************************)
EXTENDS ProofPipeline, TLAPS, NaturalsInduction, WellFoundedInduction, FiniteSetTheorems

\* Every nonempty set of naturals has a least element.
LEMMA LeastNatural ==
    ASSUME NEW S \in SUBSET Nat, S # {}
    PROVE  \E b \in S : \A d \in S : b <= d
<1> DEFINE R == {ss \in Nat \X Nat : ss[1] < ss[2]}
<1>1. \E b \in S : \A d \in S : ~(<<d, b>> \in OpToRel(<, Nat))
  BY NatLessThanWellFounded, WFMin
<1>2. \E b \in S : \A d \in S : ~(<<d, b>> \in R)
  BY Zenon, <1>1 DEF OpToRel
<1>3. ASSUME NEW d \in Nat, NEW b \in Nat, <<d, b>> \notin R
      PROVE  b <= d
  BY <1>3
<1> HIDE DEF R
<1> QED
  BY <1>2, <1>3

\* The entry block of a graph with nodes is one of them.
LEMMA FirstBlockIsNode ==
    ASSUME NEW c \in CertificateShape, c.nodes # {}
    PROVE  FirstBlock(c) \in c.nodes /\ FirstBlock(c) \in Blocks
<1>1. c.nodes \in SUBSET Nat /\ c.nodes \subseteq Blocks
  BY BlocksAreIndices DEF CertificateShape
<1>2. \E b \in c.nodes : \A d \in c.nodes : b <= d
  BY <1>1, LeastNatural
<1> QED
  BY <1>1, <1>2 DEF FirstBlock

\* An event turns an environment into an environment.
LEMMA ApplyEventType ==
    ASSUME NEW ev \in CertEvents, NEW env \in Envs
    PROVE  ApplyEvent(ev, env) \in Envs
<1>1. ev.kind \in Kinds /\ ev.binding \in Bindings
  BY DEF CertEvents
<1>2. StatusAfter(ev.kind) \in Statuses
  BY <1>1 DEF StatusAfter, Statuses
<1> QED
  BY <1>1, <1>2 DEF ApplyEvent, Envs

\* The empty environment is an environment.
LEMMA EmptyEnvType == EmptyEnv \in Envs
BY DEF EmptyEnv, Envs

\* What the shape of a certificate says of its fields.
LEMMA CertificateFields ==
    ASSUME NEW c \in CertificateShape
    PROVE  /\ c.nodes \subseteq Blocks
           /\ c.exits \subseteq Blocks
           /\ c.entryEnv \in Envs
           /\ c.exitEnv \in Envs
           /\ c.invariants \subseteq Invariants
           /\ \A b \in Blocks : c.event[b] \in CertEvents
BY DEF CertificateShape

\* The blank certificate has the shape of one.
LEMMA BlankCertificateType == BlankCertificate \in CertificateShape
<1>1. (CHOOSE x \in Bindings : TRUE) \in Bindings
  BY SomeBinding
<1> DEFINE none == [kind |-> "none", binding |-> CHOOSE x \in Bindings : TRUE,
                    before |-> EmptyEnv, after |-> EmptyEnv, regions |-> {}]
<1>2. none \in CertEvents
  BY <1>1, EmptyEnvType DEF CertEvents, Kinds
<1> HIDE DEF none
<1>3. [b \in Blocks |-> none] \in [Blocks -> CertEvents]
  BY <1>2
<1>4. BlankCertificate =
        [nodes |-> {}, edges |-> {}, exits |-> {}, event |-> [b \in Blocks |-> none],
         entryEnv |-> EmptyEnv, exitEnv |-> EmptyEnv, facts |-> {},
         invariants |-> {}, bounded |-> {}]
  BY DEF BlankCertificate, none
<1> QED
  BY <1>3, <1>4, EmptyEnvType DEF CertificateShape

-----------------------------------------------------------------------------

\* The types hold at the start.
LEMMA InitTypeOK == Init => TypeOK
<1> SUFFICES ASSUME Init PROVE TypeOK
  OBVIOUS
<1> USE DEF Init, ReplayInit
<1>1. cert \in CertificateShape
  BY BlankCertificateType
<1>2. at \in Blocks
  BY BlocksAreIndices
<1>3. entry \in [Blocks -> Envs] /\ exit \in [Blocks -> Envs] /\ held \in Envs
  BY EmptyEnvType
<1> QED
  BY <1>1, <1>2, <1>3 DEF TypeOK, ReplayTypeOK

\* Receiving a certificate keeps the types.
LEMMA ReceiveTypeOK ==
    ASSUME ReplayTypeOK, NEW c \in CertificateShape, Receive(c), reached = {}
    PROVE  ReplayTypeOK'
<1>1. cert' = c /\ UNCHANGED <<exit, terminal, checked>>
  BY DEF Receive
<1>2. CASE c.nodes = {}
  BY <1>1, <1>2 DEF Receive, ReplayTypeOK
<1>3. CASE c.nodes # {}
  <2>1. /\ phase' = "replay" /\ queue' = {FirstBlock(c)} /\ reached' = {FirstBlock(c)}
        /\ entry' = [entry EXCEPT ![FirstBlock(c)] = c.entryEnv]
    BY <1>3 DEF Receive
  <2>2. FirstBlock(c) \in c.nodes /\ FirstBlock(c) \in Blocks /\ c.entryEnv \in Envs
    BY <1>3, FirstBlockIsNode, CertificateFields
  <2>3. entry' \in [Blocks -> Envs]
    BY <2>1, <2>2 DEF ReplayTypeOK
  <2> QED
    BY <1>1, <2>1, <2>2, <2>3 DEF ReplayTypeOK
<1> QED
  BY <1>2, <1>3

\* Replaying a block keeps the types.
LEMMA ReplayBlockTypeOK ==
    ASSUME ReplayTypeOK, NEW b \in Blocks, ReplayBlock(b)
    PROVE  ReplayTypeOK'
<1> DEFINE out == ApplyEvent(cert.event[b], entry[b])
           new == Successors(b) \ reached
<1>1. cert.event[b] \in CertEvents /\ entry[b] \in Envs
  BY CertificateFields DEF ReplayTypeOK
<1>2. out \in Envs
  BY <1>1, ApplyEventType
<1>3. b \in reached /\ b \in queue
  BY DEF ReplayBlock, ReplayTypeOK
<1>4. new \subseteq cert.nodes
  BY DEF ReplayBlock, BlockReplays, EdgesMatch
<1>5. /\ queue' = (queue \ {b}) \cup new
      /\ reached' = reached \cup new
      /\ entry' = [t \in Blocks |-> IF t \in new THEN out ELSE entry[t]]
      /\ exit' = [exit EXCEPT ![b] = out]
      /\ terminal' = terminal \cup {out} \/ terminal' = terminal
      /\ checked' = checked \cup ({b} \cap EventBlocks)
      /\ UNCHANGED <<cert, phase>>
  BY DEF ReplayBlock, QueueWithout
<1> HIDE DEF out, new
<1>6. entry' \in [Blocks -> Envs] /\ exit' \in [Blocks -> Envs]
  BY <1>2, <1>5 DEF ReplayTypeOK
<1>7. terminal' \subseteq Envs
  BY <1>2, <1>5 DEF ReplayTypeOK
<1> QED
  BY <1>3, <1>4, <1>5, <1>6, <1>7 DEF ReplayTypeOK

\* The steps to a verdict keep the types.
LEMMA VerdictStepTypeOK ==
    ASSUME ReplayTypeOK,
           \/ \E b \in Blocks : RejectBlock(b)
           \/ FinishReplay
           \/ CheckLoops
           \/ CheckExits
    PROVE  ReplayTypeOK'
BY DEF ReplayTypeOK, RejectBlock, FinishReplay, CheckLoops, CheckExits, Verdicts

\* A step of the run keeps the types.
LEMMA RunStepTypeOK ==
    ASSUME TypeOK, RunStep
    PROVE  TypeOK'
<1>1. CASE StartRun
  <2>1. FirstBlock(cert) \in Blocks /\ cert.entryEnv \in Envs
    BY <1>1, FirstBlockIsNode, CertificateFields DEF StartRun, TypeOK, ReplayTypeOK
  <2> QED
    BY <1>1, <2>1 DEF StartRun, TypeOK, ReplayTypeOK, replayVars
<1>2. CASE RunBlock
  <2>1. cert.event[at] \in CertEvents
    BY CertificateFields DEF TypeOK, ReplayTypeOK
  <2>2. held' \in Envs
    BY <1>2, <2>1, ApplyEventType DEF RunBlock, TypeOK
  <2>3. at' \in Blocks /\ walk' \in {"in", "out"}
    BY <1>2 DEF RunBlock, TypeOK, Successors
  <2>4. lost' \in BOOLEAN /\ broken' \in BOOLEAN
    BY <1>2 DEF RunBlock
  <2> QED
    BY <1>2, <2>2, <2>3, <2>4 DEF RunBlock, TypeOK, ReplayTypeOK, replayVars
<1> QED
  BY <1>1, <1>2 DEF RunStep

\* Nothing is known of any block before a certificate arrives.
Fresh == phase = "waiting" => reached = {}

\* The steps of the verifier and of the run, for whatever certificate there may be: those
\* of Certificates, and those an emitter writes.
AnyReceive == phase = "waiting" /\ \E c \in CertificateShape : Receive(c)

AnyStep ==
    \/ /\ AnyReceive \/ VerifierStep
       /\ UNCHANGED runVars
    \/ RunStep

\* The steps of the specification are such steps.
LEMMA NextIsAnyStep == Next => AnyStep
BY CertificatesHaveShape DEF Next, Submit, AnyStep, AnyReceive

\* At the start the types hold and nothing is known of any block.
LEMMA InitTypes == Init => TypeOK /\ Fresh
BY InitTypeOK DEF Init, ReplayInit, Fresh

\* Every step keeps the types.
LEMMA AnyStepTypes == TypeOK /\ Fresh /\ [AnyStep]_vars => (TypeOK /\ Fresh)'
<1> SUFFICES ASSUME TypeOK, Fresh, [AnyStep]_vars
             PROVE  TypeOK' /\ Fresh'
  OBVIOUS
<1>1. ASSUME UNCHANGED runVars, ReplayTypeOK'
      PROVE  TypeOK'
  BY <1>1 DEF TypeOK, runVars
<1>2. ASSUME phase = "waiting", NEW c \in CertificateShape, Receive(c), UNCHANGED runVars
      PROVE  TypeOK' /\ Fresh'
  <2>1. ReplayTypeOK /\ reached = {}
    BY <1>2 DEF Receive, Fresh, TypeOK
  <2>2. phase' # "waiting"
    BY <1>2 DEF Receive
  <2> QED
    BY <1>1, <1>2, <2>1, <2>2, ReceiveTypeOK DEF Fresh
<1>3. ASSUME NEW b \in Blocks, ReplayBlock(b), UNCHANGED runVars
      PROVE  TypeOK' /\ Fresh'
  <2>1. phase' # "waiting"
    BY <1>3 DEF ReplayBlock
  <2> QED
    BY <1>1, <1>3, <2>1, ReplayBlockTypeOK DEF TypeOK, Fresh
<1>4. ASSUME \/ \E b \in Blocks : RejectBlock(b)
             \/ FinishReplay
             \/ CheckLoops
             \/ CheckExits,
             UNCHANGED runVars
      PROVE  TypeOK' /\ Fresh'
  <2>1. phase' # "waiting"
    BY <1>4 DEF RejectBlock, FinishReplay, CheckLoops, CheckExits
  <2> QED
    BY <1>1, <1>4, <2>1, VerdictStepTypeOK DEF TypeOK, Fresh
<1>5. CASE RunStep
  BY <1>5, RunStepTypeOK DEF RunStep, StartRun, RunBlock, replayVars, Fresh
<1>6. CASE UNCHANGED vars
  BY <1>6 DEF vars, replayVars, runVars, TypeOK, ReplayTypeOK, Fresh
<1> QED
  BY <1>2, <1>3, <1>4, <1>5, <1>6 DEF AnyStep, AnyReceive, VerifierStep

\* Every variable keeps its type, whatever certificate the verifier is given
\* and however long the accepted function runs.
THEOREM TypeCorrect == Spec => []TypeOK
<1>1. [Next]_vars => [AnyStep]_vars
  BY NextIsAnyStep
<1> QED
  BY <1>1, InitTypes, AnyStepTypes, PTL DEF Spec

-----------------------------------------------------------------------------
(* The status calculus.                                                    *)

\* Only a creation makes an obligation unresolved that was not.
LEMMA OnlyCreationBurdens ==
    ASSUME NEW ev \in CertEvents, NEW env \in Envs, NEW x \in Bindings,
           EventAllowed(ev, env), x \in Unresolved(ApplyEvent(ev, env)),
           ~(ev.kind = "create" /\ ev.binding = x)
    PROVE  x \in Unresolved(env)
<1>1. ev.kind \in Kinds /\ ev.binding \in Bindings
  BY DEF CertEvents
<1>2. CASE ev.kind \in {"none", "call"} \/ ev.binding # x
  BY <1>1, <1>2 DEF Unresolved, ApplyEvent, Envs
<1>3. CASE ev.kind \notin {"none", "call"} /\ ev.binding = x
  <2>1. ApplyEvent(ev, env)[x] = StatusAfter(ev.kind)
    BY <1>1, <1>3 DEF ApplyEvent, Envs
  <2>2. StatusAfter(ev.kind) \in UnresolvedStatuses
    BY <2>1 DEF Unresolved
  <2>3. ev.kind \in {"move", "branch_unresolved"}
    BY <1>1, <1>3, <2>2 DEF Kinds, StatusAfter, UnresolvedStatuses
  <2>4. env[x] = "owned"
    BY <1>3, <2>3 DEF EventAllowed, StatusesBefore
  <2> QED
    BY <2>4 DEF Unresolved, UnresolvedStatuses
<1> QED
  BY <1>2, <1>3

\* The same event keeps a smaller burden smaller.
LEMMA EventsAreMonotone ==
    ASSUME NEW ev \in CertEvents, NEW env \in Envs, NEW real \in Envs,
           Unresolved(real) \subseteq Unresolved(env)
    PROVE  Unresolved(ApplyEvent(ev, real)) \subseteq Unresolved(ApplyEvent(ev, env))
<1>1. ev.binding \in Bindings
  BY DEF CertEvents
<1> SUFFICES ASSUME NEW x \in Unresolved(ApplyEvent(ev, real))
             PROVE  x \in Unresolved(ApplyEvent(ev, env))
  OBVIOUS
<1>2. x \in Bindings
  BY DEF Unresolved
<1>3. CASE ev.kind \in {"none", "call"} \/ ev.binding # x
  BY <1>1, <1>2, <1>3 DEF Unresolved, ApplyEvent, Envs
<1>4. CASE ev.kind \notin {"none", "call"} /\ ev.binding = x
  BY <1>1, <1>2, <1>4 DEF Unresolved, ApplyEvent, Envs
<1> QED
  BY <1>3, <1>4

\* A creation that the replay allows finds nothing unresolved.
LEMMA CreationFindsNothing ==
    ASSUME NEW ev \in CertEvents, NEW env \in Envs,
           EventAllowed(ev, env), ev.kind = "create"
    PROVE  ev.binding \notin Unresolved(env)
BY DEF EventAllowed, StatusesBefore, Unresolved, UnresolvedStatuses, Absent

-----------------------------------------------------------------------------
(* ReplaySound is preserved.                                               *)

\* Nothing has been replayed at the start.
LEMMA InitReplaySound == Init => ReplaySound
BY DEF Init, ReplayInit, ReplaySound, BlankCertificate

\* Nor when a certificate is received.
LEMMA ReceiveReplaySound ==
    ASSUME ReplayTypeOK, ReplaySound, phase = "waiting", NEW c \in CertificateShape, Receive(c)
    PROVE  ReplaySound'
<1>1. reached = {} /\ queue = {} /\ cert' = c /\ c \in CertificateShape
  BY DEF Receive, ReplaySound, ReplayTypeOK
<1>2. CASE c.nodes = {}
  <2>1. phase' = "loops" /\ queue' = {} /\ reached' = {}
    BY <1>1, <1>2 DEF Receive
  <2> QED
    BY <1>1, <1>2, <2>1 DEF ReplaySound
<1>3. CASE c.nodes # {}
  <2>1. FirstBlock(c) \in Blocks
    BY <1>1, <1>3, FirstBlockIsNode
  <2>2. /\ phase' = "replay" /\ queue' = {FirstBlock(c)} /\ reached' = {FirstBlock(c)}
        /\ entry'[FirstBlock(c)] = c.entryEnv
    BY <1>3, <2>1 DEF Receive, ReplayTypeOK
  <2>3. FirstBlock(cert') = FirstBlock(c)
    BY <1>1
  <2>4. FirstBlock(cert') \in reached' /\ entry'[FirstBlock(cert')] = cert'.entryEnv
    BY <1>1, <2>2, <2>3
  <2> QED
    BY <2>2, <2>4 DEF ReplaySound
<1> QED
  BY <1>2, <1>3

\* A replayed block and its edges fit the environments fixed so far.
LEMMA ReplayBlockReplaySound ==
    ASSUME ReplayTypeOK, ReplaySound, NEW b \in Blocks, ReplayBlock(b)
    PROVE  ReplaySound'
<1> DEFINE out == ApplyEvent(cert.event[b], entry[b])
           new == Successors(b) \ reached
<1>1. /\ phase = "replay" /\ b \in queue /\ b \in reached
      /\ EventMatches(b) /\ EdgesMatch(b, out)
      /\ queue' = (queue \ {b}) \cup new
      /\ reached' = reached \cup new
      /\ entry' = [t \in Blocks |-> IF t \in new THEN out ELSE entry[t]]
      /\ exit' = [exit EXCEPT ![b] = out]
      /\ terminal' = IF b \in cert.exits \/ Successors(b) = {}
                       THEN terminal \cup {out} ELSE terminal
      /\ checked' = checked \cup ({b} \cap EventBlocks)
      /\ cert' = cert /\ phase' = phase
  BY DEF ReplayBlock, QueueWithout, BlockReplays, ReplayTypeOK
<1>2. reached \subseteq Blocks /\ entry \in [Blocks -> Envs] /\ exit \in [Blocks -> Envs]
  BY CertificateFields DEF ReplayTypeOK
<1> HIDE DEF new
<1>3. \A t \in reached : entry'[t] = entry[t]
  BY <1>1, <1>2 DEF new
<1>4. \A t \in new : t \in Blocks /\ entry'[t] = out
  BY <1>1 DEF new, Successors
<1>5. /\ \A d \in Blocks : Successors(d)' = Successors(d)
      /\ EventBlocks' = EventBlocks
      /\ \A d \in Blocks, t \in Blocks : ExcusedBackEdge(d, t)' <=> ExcusedBackEdge(d, t)
  BY <1>1 DEF Successors, EventBlocks, ExcusedBackEdge
<1>6. ASSUME NEW d \in reached' \ queue'
      PROVE  Replayed(d)'
  <2>1. d \in Blocks /\ d \in reached /\ (d = b \/ d \notin queue)
    BY <1>1, <1>2, <1>6
  <2>2. entry'[d] = entry[d] /\ cert'.event[d] = cert.event[d] /\ cert'.exits = cert.exits
    BY <1>1, <1>3, <2>1
  <2> DEFINE od == ApplyEvent(cert.event[d], entry[d])
  <2>3. ApplyEvent(cert.event[d], entry[d])' = od
    BY <2>2 DEF ApplyEvent, StatusAfter
  <2>4. /\ EventMatches(d) /\ exit'[d] = od
        /\ d \in cert.exits => Unresolved(od) = {}
        /\ d \in cert.exits \/ Successors(d) = {} => od \in terminal'
        /\ d \in EventBlocks => d \in checked'
        /\ \A t \in Successors(d) :
              /\ t \in reached'
              /\ entry'[t] = od \/ ExcusedBackEdge(d, t)
    <3>1. CASE d = b
      <4>1. \A t \in Successors(b) : t \in new \/ t \in reached
        BY DEF new
      <4>2. \A t \in Successors(b) : t \in reached' /\ (entry'[t] = out \/ ExcusedBackEdge(b, t))
        BY <1>1, <1>3, <1>4, <4>1 DEF EdgesMatch
      <4> QED
        BY <1>1, <1>2, <3>1, <4>2 DEF EdgesMatch
    <3>2. CASE d # b
      <4>1. Replayed(d)
        BY <2>1, <3>2 DEF ReplaySound
      <4> QED
        BY <1>1, <1>2, <1>3, <2>1, <3>2, <4>1 DEF Replayed
    <3> QED
      BY <3>1, <3>2
  <2>5. EventMatches(d)'
    BY <2>2, <2>3, <2>4 DEF EventMatches, EventAllowed, StatusesBefore
  <2> HIDE DEF od
  <2> QED
    BY <1>1, <1>5, <2>1, <2>2, <2>3, <2>4, <2>5 DEF Replayed, Successors
<1>7. cert.nodes # {} => FirstBlock(cert) \in reached' /\ entry'[FirstBlock(cert)] = cert.entryEnv
  BY <1>1, <1>3 DEF ReplaySound
<1> QED
  BY <1>1, <1>6, <1>7 DEF ReplaySound

\* The steps to a verdict fix no environment.
LEMMA VerdictStepReplaySound ==
    ASSUME ReplayTypeOK, ReplaySound,
           \/ \E b \in Blocks : RejectBlock(b)
           \/ FinishReplay
           \/ CheckLoops
           \/ CheckExits
    PROVE  ReplaySound'
<1>1. /\ UNCHANGED <<cert, queue, reached, entry, exit, terminal, checked>>
      /\ phase # "waiting" /\ phase' # "waiting"
  BY DEF RejectBlock, FinishReplay, CheckLoops, CheckExits
<1>2. \A d \in Blocks : Replayed(d) => Replayed(d)'
  BY <1>1 DEF Replayed, EventMatches, Successors, EventBlocks, ExcusedBackEdge
<1>3. reached \subseteq Blocks
  BY CertificateFields DEF ReplayTypeOK
<1>4. phase' \in {"loops", "exits", "accepted"} => queue = {}
  BY DEF RejectBlock, FinishReplay, CheckLoops, CheckExits, ReplaySound
<1>5. phase' \in {"exits", "accepted"} => \A inv \in cert.invariants : InvariantHolds(inv)
  BY DEF RejectBlock, FinishReplay, CheckLoops, CheckExits, ReplaySound
<1>6. phase' = "accepted" => \A env \in terminal : Unresolved(env) = {}
  BY DEF RejectBlock, FinishReplay, CheckLoops, CheckExits, ReplaySound
<1>7. \A inv \in cert.invariants : InvariantHolds(inv) => InvariantHolds(inv)'
  BY <1>1 DEF InvariantHolds, InvariantShape, CreatedIn, EventBlocks, Agree, Leaks
<1> QED
  BY <1>1, <1>2, <1>3, <1>4, <1>5, <1>6, <1>7 DEF ReplaySound

-----------------------------------------------------------------------------
(* LoopsInherit is preserved.                                              *)

\* The regions of a certificate do not change while it is verified.
LEMMA RegionsFixed ==
    ASSUME cert' = cert
    PROVE  /\ \A inv \in cert.invariants, R \in SUBSET Blocks :
                 /\ NaturalLoop(inv, R)' <=> NaturalLoop(inv, R)
                 /\ TraversedLoop(inv, R)' <=> TraversedLoop(inv, R)
           /\ \A loop \in LoopIds : CreatedIn(loop)' = CreatedIn(loop)
           /\ reached' = reached => (RegionsHonest' <=> RegionsHonest)
<1>1. \A inv \in cert.invariants, R \in SUBSET Blocks :
        /\ NaturalLoop(inv, R)' <=> NaturalLoop(inv, R)
        /\ TraversedLoop(inv, R)' <=> TraversedLoop(inv, R)
  BY DEF NaturalLoop, TraversedLoop, LoopMarked, ClosedInside, ExcusedBackEdge, FirstBlock
<1>2. \A loop \in LoopIds : CreatedIn(loop)' = CreatedIn(loop)
  BY DEF CreatedIn, EventBlocks
<1> QED
  BY <1>1, <1>2 DEF RegionsHonest

\* At the start of a replay no loop has been entered.
LEMMA ReceiveLoopsInherit ==
    ASSUME ReplayTypeOK, ReplaySound, phase = "waiting", NEW c \in CertificateShape, Receive(c)
    PROVE  LoopsInherit'
<1>1. reached = {} /\ cert' = c /\ c \in CertificateShape
  BY DEF Receive, ReplaySound
<1>2. reached' \subseteq {FirstBlock(cert')}
  BY <1>1 DEF Receive
<1>3. \A inv \in cert'.invariants, R \in SUBSET Blocks, b \in Blocks :
        NaturalLoop(inv, R)' /\ b \in R \cap reached' => b = inv.target
  BY <1>2 DEF NaturalLoop
<1> QED
  BY <1>3 DEF LoopsInherit

\* The step that needs the loop's shape: a block of the region that is
\* discovered now was discovered from inside the region, or is its entry.
LEMMA ReplayBlockLoopsInherit ==
    ASSUME ReplayTypeOK, LoopsInherit, NEW b \in Blocks, ReplayBlock(b)
    PROVE  LoopsInherit'
<1> DEFINE out == ApplyEvent(cert.event[b], entry[b])
           new == Successors(b) \ reached
<1>1. /\ b \in reached /\ EventMatches(b)
      /\ reached' = reached \cup new
      /\ entry' = [t \in Blocks |-> IF t \in new THEN out ELSE entry[t]]
      /\ cert' = cert
  BY DEF ReplayBlock, QueueWithout, BlockReplays, ReplayTypeOK
<1>2. reached \subseteq Blocks /\ cert.event[b] \in CertEvents /\ entry[b] \in Envs
  BY CertificateFields DEF ReplayTypeOK
<1>2a. \A inv \in cert.invariants : inv.loop \in LoopIds
  BY CertificateFields DEF ReplayTypeOK, Invariants
<1>3. \A t \in reached : entry'[t] = entry[t]
  BY <1>1, <1>2
<1>4. \A t \in new : t \in Blocks /\ entry'[t] = out /\ <<b, t>> \in cert.edges
  BY <1>1 DEF Successors
<1> SUFFICES ASSUME NEW inv \in cert.invariants, NEW R \in SUBSET Blocks,
                    NEW d \in Blocks, NEW x \in Bindings,
                    NaturalLoop(inv, R), d \in R, d \in reached',
                    x \notin CreatedIn(inv.loop),
                    x \in Unresolved(entry'[d])
             PROVE  inv.target \in reached' /\ x \in Unresolved(entry'[inv.target])
  BY <1>2a, <1>1, RegionsFixed DEF LoopsInherit, Unresolved
<1> HIDE DEF out, new
<1>5. ASSUME NEW e \in R, e \in Blocks, e \in reached, x \in Unresolved(entry[e])
      PROVE  inv.target \in reached' /\ x \in Unresolved(entry'[inv.target])
  <2>1. inv.target \in reached /\ x \in Unresolved(entry[inv.target])
    BY <1>5 DEF LoopsInherit
  <2> QED
    BY <1>1, <1>3, <2>1
<1>6. CASE d \in reached
  BY <1>3, <1>5, <1>6
<1>7. CASE d \notin reached
  <2>1. d \in new /\ entry'[d] = out /\ <<b, d>> \in cert.edges
    BY <1>1, <1>4, <1>7
  <2>2. CASE b \in R
    <3>1. ~(cert.event[b].kind = "create" /\ cert.event[b].binding = x)
      BY <2>2 DEF NaturalLoop, LoopMarked, CreatedIn, EventBlocks
    <3>2. x \in Unresolved(entry[b])
      <4>1. CASE cert.event[b].kind = "none"
        BY <2>1, <4>1 DEF out, ApplyEvent
      <4>2. CASE cert.event[b].kind # "none"
        BY <1>1, <1>2, <2>1, <3>1, <4>2, OnlyCreationBurdens DEF out, EventMatches
      <4> QED
        BY <4>1, <4>2
    <3> QED
      BY <1>1, <1>5, <2>2, <3>2
  <2>3. CASE b \notin R
    BY <2>1, <2>3 DEF NaturalLoop
  <2> QED
    BY <2>2, <2>3
<1> QED
  BY <1>6, <1>7

\* A step that fixes no environment brings nothing into a loop.
LEMMA ReplayUnchangedLoopsInherit ==
    ASSUME ReplayTypeOK, LoopsInherit, UNCHANGED <<cert, reached, entry>>
    PROVE  LoopsInherit'
<1>1. \A inv \in cert.invariants : inv.loop \in LoopIds
  BY CertificateFields DEF ReplayTypeOK, Invariants
<1> QED
  BY <1>1, RegionsFixed DEF LoopsInherit, Unresolved

-----------------------------------------------------------------------------
(* RunTracked is preserved, and the theorem.                               *)

\* What an accepted certificate says of the block a run is in.
LEMMA AcceptedBlock ==
    ASSUME ReplayTypeOK, ReplaySound, phase = "accepted", NEW b \in Blocks, b \in reached
    PROVE  /\ Replayed(b)
           /\ \A inv \in cert.invariants : InvariantHolds(inv)
           /\ cert.event[b] \in CertEvents
           /\ entry[b] \in Envs
<1>1. queue = {}
  BY DEF ReplaySound
<1> QED
  BY <1>1, CertificateFields DEF ReplaySound, ReplayTypeOK

\* In a region whose creations are marked, a block that the loop's entry leads to inside
\* the region without an excused edge holds no obligation that the entry does not hold and
\* the loop does not create.
LEMMA TraversalInherits ==
    ASSUME ReplayTypeOK, ReplaySound, phase = "accepted",
           NEW inv \in cert.invariants, NEW R \in SUBSET Blocks, TraversedLoop(inv, R),
           inv.target \in reached, NEW x \in Bindings, x \notin CreatedIn(inv.loop)
    PROVE  /\ inv.source \in reached
           /\ x \in Unresolved(entry[inv.source]) => x \in Unresolved(entry[inv.target])
<1> DEFINE Inherits(u) == x \in Unresolved(entry[u]) => x \in Unresolved(entry[inv.target])
           S == {u \in R : u \in reached /\ Inherits(u)}
<1>1. S \in SUBSET R /\ inv.target \in S
  BY DEF TraversedLoop, LoopMarked
<1>2. ASSUME NEW u \in S, NEW t \in R, <<u, t>> \in cert.edges, ~ExcusedBackEdge(u, t)
      PROVE  t \in S
  <2>1. /\ Replayed(u) /\ cert.event[u] \in CertEvents /\ entry[u] \in Envs /\ t \in Blocks
        /\ u \in Blocks
    BY AcceptedBlock
  <2>2. t \in reached /\ entry[t] = ApplyEvent(cert.event[u], entry[u])
    BY <1>2, <2>1 DEF Replayed, Successors
  <2>3. ASSUME x \in Unresolved(entry[t])
        PROVE  x \in Unresolved(entry[inv.target])
    <3>1. CASE cert.event[u].kind = "none"
      BY <2>2, <2>3, <3>1 DEF ApplyEvent
    <3>2. CASE cert.event[u].kind # "none"
      <4>1. ~(cert.event[u].kind = "create" /\ cert.event[u].binding = x)
        BY <2>1, <3>2 DEF TraversedLoop, LoopMarked, CreatedIn, EventBlocks
      <4>2. x \in Unresolved(entry[u])
        BY <2>1, <2>2, <2>3, <3>2, <4>1, OnlyCreationBurdens DEF Replayed, EventMatches
      <4> QED
        BY <4>2
    <3> QED
      BY <3>1, <3>2
  <2> QED
    BY <2>2, <2>3
<1> HIDE DEF S
<1>3. inv.source \in S
  BY <1>1, <1>2 DEF TraversedLoop, ClosedInside
<1> QED
  BY <1>3 DEF S

\* A back edge that is not an exact match still brings no obligation into the
\* loop's entry that the entry does not have: the checked ones are not
\* unresolved at the edge, the others are not created by the loop.
LEMMA BackEdgeBringsNothing ==
    ASSUME ReplayTypeOK, ReplaySound, LoopsInherit, RegionsHonest, phase = "accepted",
           NEW b \in Blocks, b \in reached, NEW t \in Blocks, t \in reached,
           ExcusedBackEdge(b, t)
    PROVE  Unresolved(ApplyEvent(cert.event[b], entry[b])) \subseteq Unresolved(entry[t])
<1> DEFINE out == ApplyEvent(cert.event[b], entry[b])
<1>1. /\ Replayed(b) /\ \A i \in cert.invariants : InvariantHolds(i)
      /\ cert.event[b] \in CertEvents /\ entry[b] \in Envs
  BY AcceptedBlock
<1>2. PICK inv \in cert.invariants : inv.source = b /\ inv.target = t
  BY DEF ExcusedBackEdge
<1>3. InvariantHolds(inv) /\ exit[b] = out /\ EventMatches(b)
  BY <1>1 DEF Replayed
<1>4. PICK R \in SUBSET Blocks : NaturalLoop(inv, R) \/ TraversedLoop(inv, R)
  BY <1>2 DEF RegionsHonest
<1> SUFFICES ASSUME NEW x \in Unresolved(out)
             PROVE  x \in Unresolved(entry[t])
  OBVIOUS
<1>5. x \in Bindings /\ out[x] \in UnresolvedStatuses
  BY DEF Unresolved
<1> HIDE DEF out
<1>6. CASE x \in inv.checked
  <2>1. inv.backStates[x] = out[x]
    BY <1>2, <1>3, <1>6 DEF InvariantHolds, InvariantShape, Agree
  <2>2. x \in Leaks(inv.checked, inv.backStates)
    BY <1>5, <1>6, <2>1 DEF Leaks, LeakStatuses, UnresolvedStatuses
  <2> QED
    BY <1>3, <2>2 DEF InvariantHolds, InvariantShape
<1>7. CASE x \notin inv.checked
  <2>1. x \notin CreatedIn(inv.loop) /\ b \in R
    BY <1>2, <1>3, <1>4, <1>7
       DEF InvariantHolds, InvariantShape, NaturalLoop, TraversedLoop, LoopMarked
  <2>2. x \in Unresolved(entry[b])
    <3>1. CASE cert.event[b].kind = "none"
      BY <3>1 DEF out, ApplyEvent
    <3>2. CASE cert.event[b].kind # "none"
      <4>1. ~(cert.event[b].kind = "create" /\ cert.event[b].binding = x)
        BY <1>4, <2>1, <3>2
           DEF NaturalLoop, TraversedLoop, LoopMarked, CreatedIn, EventBlocks
      <4> QED
        BY <1>1, <1>3, <1>5, <3>2, <4>1, OnlyCreationBurdens DEF out, EventMatches
    <3> QED
      BY <3>1, <3>2
  <2>3. CASE NaturalLoop(inv, R)
    BY <1>2, <1>4, <1>5, <2>1, <2>2, <2>3 DEF LoopsInherit
  <2>4. CASE TraversedLoop(inv, R)
    BY <1>2, <1>5, <2>1, <2>2, <2>4, TraversalInherits
  <2> QED
    BY <1>4, <2>3, <2>4
<1> QED
  BY <1>6, <1>7

\* A run starts with the environment of the replay.
LEMMA StartRunTracked ==
    ASSUME TypeOK, ReplaySound, RunTracked, StartRun
    PROVE  RunTracked'
<1>1. /\ cert.nodes # {} /\ walk = "idle" /\ walk' = "in" /\ at' = FirstBlock(cert)
      /\ held' = cert.entryEnv /\ lost' = lost /\ phase = "accepted"
      /\ UNCHANGED replayVars
  BY DEF StartRun
<1>2. FirstBlock(cert) \in reached /\ entry[FirstBlock(cert)] = cert.entryEnv
  BY <1>1 DEF ReplaySound
<1>3. ~lost
  BY <1>1 DEF RunTracked
<1> QED
  BY <1>1, <1>2, <1>3 DEF RunTracked, NoSilentLoss, replayVars

\* A step of the run keeps what is unresolved within what the replay has unresolved.
LEMMA RunBlockTracked ==
    ASSUME TypeOK, ReplaySound, LoopsInherit, RunTracked, RunBlock
    PROVE  RunTracked'
<1> DEFINE ev == cert.event[at]
           out == ApplyEvent(ev, entry[at])
<1>1. /\ walk = "in" /\ phase = "accepted" /\ cert.nodes # {}
      /\ held' = ApplyEvent(ev, held)
      /\ lost' = (lost \/ (ev.kind = "create" /\ held[ev.binding] \in UnresolvedStatuses))
      /\ \/ at' \in Successors(at) /\ walk' = "in"
         \/ (at \in cert.exits \/ Successors(at) = {}) /\ walk' = "out"
      /\ UNCHANGED replayVars
  BY DEF RunBlock, RunTracked
<1>2. at \in Blocks /\ ReplayTypeOK /\ held \in Envs
  BY DEF TypeOK
<1>3. RegionsHonest' <=> RegionsHonest
  BY <1>1, RegionsFixed DEF replayVars
<1>4. ASSUME RegionsHonest
      PROVE  /\ walk' = "in" => at' \in reached /\ Unresolved(held') \subseteq Unresolved(entry[at'])
             /\ ~lost'
             /\ walk' = "out" => Unresolved(held') = {}
  <2>1. at \in reached /\ Unresolved(held) \subseteq Unresolved(entry[at]) /\ ~lost
    BY <1>1, <1>4 DEF RunTracked, NoSilentLoss
  <2>2. Replayed(at) /\ ev \in CertEvents /\ entry[at] \in Envs
    BY <1>1, <1>2, <2>1, AcceptedBlock
  <2>3. Unresolved(held') \subseteq Unresolved(out)
    BY <1>1, <1>2, <2>1, <2>2, EventsAreMonotone
  <2>4. ~lost'
    <3>1. ev.kind = "create" => EventAllowed(ev, entry[at])
      BY <2>2 DEF Replayed, EventMatches
    <3>2. ev.kind = "create" => ev.binding \notin Unresolved(held)
      BY <2>1, <2>2, <3>1, CreationFindsNothing
    <3>3. ev.binding \in Bindings
      BY <2>2 DEF CertEvents
    <3> QED
      BY <1>1, <2>1, <3>2, <3>3 DEF Unresolved
  <2>5. CASE walk' = "in"
    <3>1. at' \in Successors(at) /\ at' \in Blocks
      BY <1>1, <2>5 DEF Successors
    <3>2. at' \in reached /\ (entry[at'] = out \/ ExcusedBackEdge(at, at'))
      BY <2>2, <3>1 DEF Replayed
    <3>3. Unresolved(out) \subseteq Unresolved(entry[at'])
      BY <1>1, <1>2, <1>4, <2>1, <3>1, <3>2, BackEdgeBringsNothing
    <3> QED
      BY <2>3, <2>4, <2>5, <3>2, <3>3
  <2>6. CASE walk' = "out"
    <3>1. at \in cert.exits \/ Successors(at) = {}
      BY <1>1, <2>6
    <3>2. out \in terminal
      BY <2>2, <3>1 DEF Replayed
    <3>3. Unresolved(out) = {}
      BY <1>1, <3>2 DEF ReplaySound
    <3> QED
      BY <2>3, <2>4, <2>6, <3>3
  <2> QED
    BY <1>1, <2>5, <2>6
<1>5. walk' # "idle" /\ phase' = "accepted" /\ cert'.nodes # {}
  BY <1>1 DEF replayVars
<1>6. reached' = reached /\ entry' = entry
  BY <1>1 DEF replayVars
<1> HIDE DEF ev, out
<1> QED
  BY <1>3, <1>4, <1>5, <1>6 DEF RunTracked, NoSilentLoss, Unresolved

\* The verifier works before the run starts.
LEMMA VerifierRunTracked ==
    ASSUME RunTracked, UNCHANGED runVars,
           AnyReceive \/ VerifierStep
    PROVE  RunTracked'
<1>1. phase # "accepted"
  BY DEF AnyReceive, VerifierStep, ReplayBlock, RejectBlock, FinishReplay, CheckLoops,
         CheckExits
<1>2. walk = "idle" /\ walk' = "idle" /\ ~lost'
  BY <1>1 DEF RunTracked, runVars
<1> QED
  BY <1>2 DEF RunTracked, NoSilentLoss

\* The invariant holds at the start.
LEMMA InitSoundInv == Init => SoundInv
<1> SUFFICES ASSUME Init PROVE SoundInv
  OBVIOUS
<1>1. TypeOK /\ ReplaySound
  BY InitTypeOK, InitReplaySound
<1>2. LoopsInherit
  BY DEF Init, ReplayInit, LoopsInherit
<1>3. RunTracked
  BY DEF Init, RunTracked, NoSilentLoss
<1> QED
  BY <1>1, <1>2, <1>3 DEF SoundInv

\* Every step keeps the invariant.
LEMMA NextSoundInv == SoundInv /\ TypeOK' /\ [AnyStep]_vars => SoundInv'
<1> SUFFICES ASSUME TypeOK, ReplaySound, LoopsInherit, RunTracked, TypeOK', [AnyStep]_vars
             PROVE  ReplaySound' /\ LoopsInherit' /\ RunTracked'
  BY DEF SoundInv
<1>1. ReplayTypeOK
  BY DEF TypeOK
<1>2. ASSUME phase = "waiting", NEW c \in CertificateShape, Receive(c), UNCHANGED runVars
      PROVE  ReplaySound' /\ LoopsInherit' /\ RunTracked'
  BY <1>1, <1>2, ReceiveReplaySound, ReceiveLoopsInherit, VerifierRunTracked
     DEF AnyReceive
<1>3. ASSUME NEW b \in Blocks, ReplayBlock(b), UNCHANGED runVars
      PROVE  ReplaySound' /\ LoopsInherit' /\ RunTracked'
  BY <1>1, <1>3, ReplayBlockReplaySound, ReplayBlockLoopsInherit, VerifierRunTracked
     DEF VerifierStep
<1>4. ASSUME \/ \E b \in Blocks : RejectBlock(b)
             \/ FinishReplay
             \/ CheckLoops
             \/ CheckExits,
             UNCHANGED runVars
      PROVE  ReplaySound' /\ LoopsInherit' /\ RunTracked'
  <2>1. UNCHANGED <<cert, reached, entry>>
    BY <1>4 DEF RejectBlock, FinishReplay, CheckLoops, CheckExits
  <2>2. VerifierStep
    BY <1>4 DEF VerifierStep
  <2>3. ReplaySound'
    BY <1>1, <1>4, VerdictStepReplaySound
  <2>4. LoopsInherit' /\ RunTracked'
    BY <1>1, <1>4, <2>1, <2>2, ReplayUnchangedLoopsInherit, VerifierRunTracked
  <2> QED
    BY <2>3, <2>4
<1>5. ASSUME UNCHANGED replayVars
      PROVE  ReplaySound' /\ LoopsInherit'
  <2>1. \A d \in Blocks : Replayed(d) => Replayed(d)'
    BY <1>5 DEF replayVars, Replayed, EventMatches, Successors, EventBlocks, ExcusedBackEdge
  <2>2. \A inv \in cert.invariants : InvariantHolds(inv) => InvariantHolds(inv)'
    BY <1>5 DEF replayVars, InvariantHolds, InvariantShape, CreatedIn, EventBlocks, Agree, Leaks
  <2>3. reached \subseteq Blocks
    BY <1>1, CertificateFields DEF ReplayTypeOK
  <2>4. ReplaySound'
    BY <1>5, <2>1, <2>2, <2>3 DEF replayVars, ReplaySound
  <2> QED
    BY <1>1, <1>5, <2>4, ReplayUnchangedLoopsInherit DEF replayVars
<1>6. CASE RunStep
  BY <1>5, <1>6, StartRunTracked, RunBlockTracked DEF RunStep, StartRun, RunBlock
<1>7. CASE UNCHANGED vars
  <2>1. UNCHANGED replayVars /\ UNCHANGED runVars
    BY <1>7 DEF vars
  <2>2. RegionsHonest' <=> RegionsHonest
    BY <2>1, RegionsFixed DEF replayVars
  <2>3. RunTracked'
    BY <2>1, <2>2 DEF RunTracked, NoSilentLoss, replayVars, runVars
  <2> QED
    BY <1>5, <2>1, <2>3
<1> QED
  BY <1>2, <1>3, <1>4, <1>6, <1>7 DEF AnyStep, AnyReceive, VerifierStep

\* The verifier is sound: when the regions a certificate names are the loops
\* of its graph, no run of the function leaves with an unresolved obligation
\* or overwrites one, on any graph, with any number of loop iterations.
THEOREM Soundness == Spec => []AcceptanceSound
<1>1. SoundInv => AcceptanceSound
  BY DEF SoundInv, RunTracked, AcceptanceSound
<1>2. [Next]_vars => [AnyStep]_vars
  BY NextIsAnyStep
<1> QED
  BY <1>1, <1>2, InitSoundInv, NextSoundInv, TypeCorrect, PTL DEF Spec

-----------------------------------------------------------------------------
(* The statuses of a run, not only its burden.                             *)

\* A run differs from the replay at most in bindings the replay does not know
\* yet and the run has settled.
Shadows(real, env) ==
    \A x \in Bindings : \/ real[x] = env[x]
                        \/ env[x] = Absent /\ real[x] \notin UnresolvedStatuses

RunShadows ==
    /\ walk = "idle" => ~broken
    /\ ExcusesScoped => /\ walk = "in" => at \in reached /\ Shadows(held, entry[at])
                        /\ ~broken

\* A step of the run keeps its statuses those of the replay, up to what excused edges bring back.
LEMMA RunBlockShadows ==
    ASSUME TypeOK, ReplaySound, RunShadows, phase = "accepted", RunBlock
    PROVE  RunShadows'
<1> DEFINE ev == cert.event[at]
           out == ApplyEvent(ev, entry[at])
<1>1. /\ walk = "in" /\ held' = ApplyEvent(ev, held)
      /\ broken' = (broken \/ ~RuleAllows(ev))
      /\ \/ at' \in Successors(at) /\ walk' = "in"
         \/ walk' = "out"
      /\ UNCHANGED replayVars
  BY DEF RunBlock
<1>2. at \in Blocks /\ ReplayTypeOK /\ held \in Envs
  BY DEF TypeOK
<1>3. ExcusesScoped' => ExcusesScoped
  BY <1>1 DEF replayVars, ExcusesScoped, ExcusedBackEdge
<1>4. ASSUME ExcusesScoped
      PROVE  /\ walk' = "in" => at' \in reached /\ Shadows(held', entry[at'])
             /\ ~broken'
  <2>1. at \in reached /\ Shadows(held, entry[at]) /\ ~broken
    BY <1>1, <1>4 DEF RunShadows
  <2>2. Replayed(at) /\ ev \in CertEvents /\ entry[at] \in Envs
    BY <1>2, <2>1, AcceptedBlock
  <2>3. ev.kind \in Kinds /\ ev.binding \in Bindings
    BY <2>2 DEF CertEvents
  <2>4. ev.kind # "none" => EventAllowed(ev, entry[at])
    BY <2>2 DEF Replayed, EventMatches
  <2> HIDE DEF ev
  <2>5. RuleAllows(ev)
    <3>1. CASE ev.kind \in {"none", "call"}
      BY <1>2, <2>3, <3>1 DEF RuleAllows, EventAllowed, StatusesBefore, Envs
    <3>2. CASE held[ev.binding] = entry[at][ev.binding] /\ ev.kind # "none"
      BY <2>4, <3>2 DEF RuleAllows, EventAllowed
    <3>3. CASE /\ ev.kind \notin {"none", "call"}
               /\ entry[at][ev.binding] = Absent
               /\ held[ev.binding] \notin UnresolvedStatuses
      <4>1. ev.kind = "create"
        BY <2>3, <2>4, <3>3 DEF EventAllowed, StatusesBefore, Kinds, Absent
      <4> QED
        BY <3>3, <4>1 DEF RuleAllows
    <3> QED
      BY <2>1, <2>3, <3>1, <3>2, <3>3 DEF Shadows
  <2>6. Shadows(held', out)
    BY <1>1, <1>2, <2>1, <2>2, <2>3 DEF Shadows, ApplyEvent, Envs
  <2>7. CASE walk' = "in"
    <3>1. at' \in Successors(at) /\ at' \in Blocks /\ <<at, at'>> \in cert.edges
      BY <1>1, <2>7 DEF Successors
    <3>2. /\ at' \in reached /\ exit[at] = out
          /\ entry[at'] = out \/ ExcusedBackEdge(at, at')
      BY <2>2, <3>1 DEF Replayed, ev
    <3> HIDE DEF out
    <3>3. ASSUME ExcusedBackEdge(at, at')
          PROVE  Shadows(out, entry[at'])
      <4>1. at \in reached \cap cert.nodes
        BY <1>2, <2>1 DEF ReplayTypeOK
      <4> QED
        BY <1>4, <3>1, <3>2, <3>3, <4>1 DEF ExcusesScoped, Shadows
    <3>4. Shadows(held', entry[at'])
      BY <2>6, <3>2, <3>3 DEF Shadows, Absent, UnresolvedStatuses
    <3> QED
      BY <1>1, <2>1, <2>5, <2>7, <3>2, <3>4
  <2> QED
    BY <1>1, <2>1, <2>5, <2>7
<1>5. reached' = reached /\ entry' = entry
  BY <1>1 DEF replayVars
<1> HIDE DEF ev, out
<1>6. walk' # "idle"
  BY <1>1
<1> QED
  BY <1>3, <1>4, <1>5, <1>6 DEF RunShadows, Shadows

\* So does every step.
LEMMA NextRunShadows ==
    SoundInv /\ RunShadows /\ TypeOK' /\ [AnyStep]_vars => RunShadows'
<1> SUFFICES ASSUME TypeOK, ReplaySound, RunTracked, RunShadows, [AnyStep]_vars
             PROVE  RunShadows'
  BY DEF SoundInv
<1>1. ASSUME UNCHANGED runVars, AnyReceive \/ VerifierStep
      PROVE  RunShadows'
  <2>1. phase # "accepted"
    BY <1>1 DEF AnyReceive, VerifierStep, ReplayBlock, RejectBlock, FinishReplay, CheckLoops,
                CheckExits
  <2>2. walk' = "idle" /\ ~broken'
    BY <1>1, <2>1 DEF RunTracked, RunShadows, runVars
  <2> QED
    BY <2>2 DEF RunShadows
<1>2. CASE StartRun
  <2>1. /\ walk = "idle" /\ walk' = "in" /\ at' = FirstBlock(cert) /\ cert.nodes # {}
        /\ held' = cert.entryEnv /\ broken' = broken /\ phase = "accepted"
        /\ UNCHANGED replayVars
    BY <1>2 DEF StartRun
  <2>2. FirstBlock(cert) \in reached /\ entry[FirstBlock(cert)] = cert.entryEnv
    BY <2>1 DEF ReplaySound
  <2> QED
    BY <2>1, <2>2 DEF RunShadows, Shadows, replayVars
<1>3. CASE RunBlock
  <2>1. phase = "accepted"
    BY <1>3 DEF RunBlock, RunTracked
  <2> QED
    BY <1>3, <2>1, RunBlockShadows
<1>4. CASE UNCHANGED vars
  <2>1. ExcusesScoped' => ExcusesScoped
    BY <1>4 DEF vars, replayVars, ExcusesScoped, ExcusedBackEdge
  <2> QED
    BY <1>4, <2>1 DEF RunShadows, Shadows, vars, replayVars, runVars
<1> QED
  BY <1>1, <1>2, <1>3, <1>4 DEF AnyStep, RunStep

\* Every event of every run of an accepted function happens in a status its
\* rule allows, when the excused back edges bring back only bindings that the
\* loop created and settled.
THEOREM RunsKeepRules == Spec => []RulesKept
<1>1. Init => RunShadows
  BY DEF Init, RunShadows
<1>2. RunShadows => RulesKept
  BY DEF RunShadows, RulesKept
<1>3. [Next]_vars => [AnyStep]_vars
  BY NextIsAnyStep
<1> QED
  BY <1>1, <1>2, <1>3, InitSoundInv, NextSoundInv, NextRunShadows, TypeCorrect, PTL DEF Spec

-----------------------------------------------------------------------------
(* The region of a loop.                                                   *)

\* A bounded traversal of a graph: g[n] is what n rounds reach.
IsTraversal(g, rounds, start, nodes, edges) ==
    g = [n \in 0 .. rounds |->
            IF n = 0 THEN start
            ELSE LET inside == g[n - 1]
                 IN  inside \cup {t \in nodes : \E s \in inside : <<s, t>> \in edges}]

\* What a traversal is, round by round.
LEMMA TraversalRounds ==
    ASSUME NEW g, NEW rounds \in Nat, NEW start, NEW nodes, NEW edges,
           IsTraversal(g, rounds, start, nodes, edges)
    PROVE  /\ g[0] = start
           /\ \A n \in 0 .. rounds : n # 0 =>
                 g[n] = g[n - 1] \cup {t \in nodes : \E s \in g[n - 1] : <<s, t>> \in edges}
<1>1. 0 \in 0 .. rounds
  OBVIOUS
<1>2. \A n \in 0 .. rounds :
        g[n] = IF n = 0 THEN start
               ELSE g[n - 1] \cup {t \in nodes : \E s \in g[n - 1] : <<s, t>> \in edges}
  BY Zenon DEF IsTraversal
<1> QED
  BY <1>1, <1>2

\* There is one for any number of rounds.
LEMMA TraversalExists ==
    ASSUME NEW rounds \in Nat, NEW start, NEW nodes, NEW edges
    PROVE  \E g : IsTraversal(g, rounds, start, nodes, edges)
<1> DEFINE Bad == {k \in Nat : ~\E g : IsTraversal(g, k, start, nodes, edges)}
<1> SUFFICES ASSUME Bad # {} PROVE FALSE
  OBVIOUS
<1>1. PICK m \in Bad : \A k \in Bad : m <= k
  BY LeastNatural
<1>2. m # 0
  <2> DEFINE g == [n \in 0 .. 0 |-> start]
  <2>1. g = [n \in 0 .. 0 |->
                IF n = 0 THEN start
                ELSE LET inside == g[n - 1]
                     IN  inside \cup {t \in nodes : \E s \in inside : <<s, t>> \in edges}]
    OBVIOUS
  <2>2. IsTraversal(g, 0, start, nodes, edges)
    BY <2>1 DEF IsTraversal
  <2> QED
    BY <2>2, <1>1
<1>3. m - 1 \in Nat /\ m - 1 \notin Bad
  BY <1>1, <1>2
<1>4. PICK g : IsTraversal(g, m - 1, start, nodes, edges)
  BY <1>3
<1>5. /\ g[0] = start
      /\ \A n \in 0 .. m - 1 : n # 0 =>
            g[n] = g[n - 1] \cup {t \in nodes : \E s \in g[n - 1] : <<s, t>> \in edges}
  BY <1>3, <1>4, TraversalRounds
<1> DEFINE next == g[m - 1] \cup {t \in nodes : \E s \in g[m - 1] : <<s, t>> \in edges}
           h == [n \in 0 .. m |-> IF n = m THEN next ELSE g[n]]
<1>6. \A n \in 0 .. m :
        h[n] = IF n = 0 THEN start
               ELSE h[n - 1] \cup {t \in nodes : \E s \in h[n - 1] : <<s, t>> \in edges}
  <2> SUFFICES ASSUME NEW n \in 0 .. m
               PROVE h[n] = IF n = 0 THEN start
                     ELSE h[n - 1] \cup {t \in nodes : \E s \in h[n - 1] : <<s, t>> \in edges}
    OBVIOUS
  <2> HIDE DEF next
  <2>1. CASE n = 0
    BY <1>2, <1>3, <1>5, <2>1
  <2>2. CASE n # 0 /\ n # m
    <3>1. n \in 0 .. m - 1 /\ n - 1 \in 0 .. m /\ n - 1 # m
      BY <1>3, <2>2
    <3>2. h[n] = g[n] /\ h[n - 1] = g[n - 1]
      BY <2>2, <3>1
    <3> HIDE DEF h
    <3> QED
      BY <1>5, <2>2, <3>1, <3>2
  <2>3. CASE n = m
    <3>1. h[n] = next /\ n - 1 \in 0 .. m /\ n - 1 # m
      BY <1>3, <2>3
    <3>2. h[n - 1] = g[m - 1]
      BY <2>3, <3>1
    <3> HIDE DEF h
    <3> QED
      BY <1>2, <2>3, <3>1, <3>2 DEF next
  <2> QED
    BY <2>1, <2>2, <2>3
<1>7. h = [n \in 0 .. m |-> h[n]]
  OBVIOUS
<1> HIDE DEF h
<1>8. h = [n \in 0 .. m |->
             IF n = 0 THEN start
             ELSE h[n - 1] \cup {t \in nodes : \E s \in h[n - 1] : <<s, t>> \in edges}]
  BY <1>6, <1>7
<1>9. IsTraversal(h, m, start, nodes, edges)
  BY <1>8, Zenon DEF IsTraversal
<1> QED
  BY <1>1, <1>9

\* A traversal stays in the graph and keeps its start.
LEMMA TraversalBounds ==
    ASSUME NEW g, NEW rounds \in Nat, NEW nodes, NEW start \in SUBSET nodes, NEW edges,
           IsTraversal(g, rounds, start, nodes, edges)
    PROVE  \A n \in 0 .. rounds : start \subseteq g[n] /\ g[n] \subseteq nodes
<1> DEFINE Bad == {n \in 0 .. rounds : ~(start \subseteq g[n] /\ g[n] \subseteq nodes)}
<1> SUFFICES ASSUME Bad # {} PROVE FALSE
  OBVIOUS
<1>1. PICK m \in Bad : \A k \in Bad : m <= k
  <2>1. Bad \in SUBSET Nat
    OBVIOUS
  <2> QED
    BY <2>1, LeastNatural
<1>2. m \in 0 .. rounds /\ g[0] = start
  BY TraversalRounds
<1>3. m # 0
  BY <1>1, <1>2
<1>4. m - 1 \in 0 .. rounds /\ m - 1 \notin Bad
  BY <1>1, <1>2, <1>3
<1>5. g[m] = g[m - 1] \cup {t \in nodes : \E s \in g[m - 1] : <<s, t>> \in edges}
  BY <1>2, <1>3, TraversalRounds
<1> QED
  BY <1>1, <1>4, <1>5

\* After as many rounds as the graph has nodes there is nothing left to reach.
LEMMA TraversalCloses ==
    ASSUME NEW g, NEW rounds \in Nat, NEW nodes, NEW start \in SUBSET nodes, NEW edges,
           IsTraversal(g, rounds, start, nodes, edges),
           IsFiniteSet(nodes), Cardinality(nodes) <= rounds
    PROVE  \A s \in g[rounds], t \in nodes : <<s, t>> \in edges => t \in g[rounds]
<1> DEFINE Closed(n) == \A s \in g[n], t \in nodes : <<s, t>> \in edges => t \in g[n]
           Fine(n) == Closed(n) \/ Cardinality(g[n]) >= n + 1
           Bad == {n \in 0 .. rounds : ~Fine(n)}
<1>1. \A n \in 0 .. rounds : /\ g[n] \subseteq nodes /\ IsFiniteSet(g[n])
                             /\ Cardinality(g[n]) \in Nat
                             /\ Cardinality(g[n]) <= Cardinality(nodes)
  <2> SUFFICES ASSUME NEW n \in 0 .. rounds
               PROVE  /\ g[n] \subseteq nodes /\ IsFiniteSet(g[n])
                      /\ Cardinality(g[n]) \in Nat /\ Cardinality(g[n]) <= Cardinality(nodes)
    OBVIOUS
  <2>1. g[n] \in SUBSET nodes
    BY TraversalBounds
  <2> QED
    BY <2>1, FS_Subset, FS_CardinalityType
<1>2. ASSUME Bad # {} PROVE FALSE
  <2>1. PICK m \in Bad : \A k \in Bad : m <= k
    <3>1. Bad \in SUBSET Nat
      OBVIOUS
    <3> QED
      BY <1>2, <3>1, LeastNatural
  <2>2. m \in 0 .. rounds /\ ~Closed(m) /\ ~(Cardinality(g[m]) >= m + 1)
    BY <2>1
  <2>3. CASE m = 0
    <3>1. PICK s \in g[0] : TRUE
      BY <2>2, <2>3
    <3>2. {s} \in SUBSET g[0] /\ Cardinality({s}) = 1
      BY <3>1, FS_Singleton
    <3>3. Cardinality({s}) <= Cardinality(g[0])
      BY <1>1, <2>2, <2>3, <3>2, FS_Subset
    <3> QED
      BY <1>1, <2>2, <2>3, <3>2, <3>3
  <2>4. CASE m # 0
    <3>1. m - 1 \in 0 .. rounds /\ m - 1 \notin Bad
      BY <2>1, <2>2, <2>4
    <3>2. g[m] = g[m - 1] \cup {t \in nodes : \E s \in g[m - 1] : <<s, t>> \in edges}
      BY <2>2, <2>4, TraversalRounds
    <3>3. CASE Closed(m - 1)
      <4>1. g[m] = g[m - 1]
        BY <3>2, <3>3
      <4> QED
        BY <2>2, <3>3, <4>1
    <3>4. CASE ~Closed(m - 1)
      <4>1. Cardinality(g[m - 1]) >= m
        BY <3>1, <3>4, <2>2
      <4>2. g[m - 1] # g[m] /\ g[m - 1] \in SUBSET g[m]
        BY <3>2, <3>4
      <4>3. /\ Cardinality(g[m - 1]) <= Cardinality(g[m])
            /\ Cardinality(g[m - 1]) # Cardinality(g[m])
        BY <1>1, <2>2, <4>2, FS_Subset
      <4> QED
        BY <1>1, <2>2, <3>1, <4>1, <4>3
    <3> QED
      BY <3>3, <3>4
  <2> QED
    BY <2>3, <2>4
<1>3. Fine(rounds)
  BY <1>2
<1>4. rounds \in 0 .. rounds
  OBVIOUS
<1>5. Cardinality(nodes) \in Nat
  BY FS_CardinalityType
<1> QED
  BY <1>1, <1>3, <1>4, <1>5

\* The region of a loop lies in its function, holds the loop's entry, and is left only by
\* edges that belong to the loop.
LEMMA RegionIsClosed ==
    ASSUME NEW p \in Programs, program = p, NEW fact \in p.facts
    PROVE  /\ LoopRegion(fact) \subseteq p.nodes
           /\ fact.target \in LoopRegion(fact)
           /\ \A s \in LoopRegion(fact), t \in p.nodes :
                 <<s, t>> \in p.edges \ p.loopEdges[fact.loop] => t \in LoopRegion(fact)
<1> DEFINE rounds == Cardinality(Blocks)
           start == {fact.target} \cap p.nodes
           plain == p.edges \ p.loopEdges[fact.loop]
           Walk == CHOOSE g : IsTraversal(g, rounds, start, p.nodes, plain)
<1>1. rounds \in Nat
  BY BlocksFinite, FS_CardinalityType
<1>2. LoopRegion(fact) = Walk[rounds]
  BY DEF LoopRegion, IsTraversal
<1>3. p.nodes \in SUBSET Blocks /\ fact.target \in p.nodes
  BY ProgramsAreLowered DEF CoreFunctions, Lowered
<1>4. IsFiniteSet(p.nodes) /\ Cardinality(p.nodes) <= rounds
  BY <1>3, BlocksFinite, FS_Subset
<1>5. start \in SUBSET p.nodes /\ fact.target \in start
  BY <1>3
<1> HIDE DEF rounds, start, plain
<1>6. \E g : IsTraversal(g, rounds, start, p.nodes, plain)
  BY <1>1, TraversalExists
<1>7. IsTraversal(Walk, rounds, start, p.nodes, plain)
  BY <1>6, Zenon
<1> HIDE DEF Walk
<1>8. start \subseteq Walk[rounds] /\ Walk[rounds] \subseteq p.nodes
  <2>1. rounds \in 0 .. rounds
    BY <1>1
  <2> QED
    BY <1>1, <1>5, <1>7, <2>1, TraversalBounds
<1>9. \A s \in Walk[rounds], t \in p.nodes : <<s, t>> \in plain => t \in Walk[rounds]
  BY <1>1, <1>4, <1>5, <1>7, TraversalCloses
<1> QED
  BY <1>2, <1>5, <1>8, <1>9 DEF plain

-----------------------------------------------------------------------------
(* The emitter's dataflow and the certificate it writes.                   *)

\* What the emitter has found and what the verifier was given, by the stage of the pipeline.
FlowInv ==
    /\ program \in Programs
    /\ stage \in {"start", "flow", "emitted", "file"}
    /\ found \subseteq program.nodes /\ work \subseteq found
    /\ flowIn \in [Blocks -> Envs]
    /\ \A b \in Blocks \ found : flowIn[b] = EmptyEnv
    /\ stage = "start" => found = {}
    /\ stage = "file" => program.nodes = {}
    /\ stage \in {"start", "flow"} => phase = "waiting"
    /\ stage \in {"flow", "emitted"} =>
          /\ region = [fact \in program.facts |-> LoopRegion(fact)]
          /\ \A b \in program.nodes : (\A c \in program.nodes : b <= c) => b \in found
    /\ stage = "emitted" => work = {} /\ cert = EmittedCertificate

\* What the shape of a function says of its fields.
LEMMA ProgramFields ==
    ASSUME NEW p \in Programs
    PROVE  /\ p.nodes \in SUBSET Blocks /\ p.exits \in SUBSET Blocks
           /\ p.edges \in SUBSET (p.nodes \X p.nodes)
           /\ p.edges \in SUBSET (Blocks \X Blocks)
           /\ p.facts \in SUBSET LoopFacts /\ p.bounded \in SUBSET LoopFacts
           /\ p.domain \in SUBSET Bindings /\ p.templated \in SUBSET Bindings
           /\ \A b \in Blocks : p.event[b].kind \in Kinds /\ p.event[b].binding \in Bindings
<1>1. p \in CoreFunctions /\ Lowered(p)
  BY ProgramsAreLowered
<1>2. \A b \in Blocks : p.event[b] \in [kind : Kinds, binding : Bindings]
  BY <1>1 DEF CoreFunctions
<1>3. \A b \in Blocks : p.event[b].kind \in Kinds /\ p.event[b].binding \in Bindings
  BY <1>2
<1> QED
  BY <1>1, <1>3 DEF CoreFunctions, Lowered, LoopFacts, BackEdgeFacts

\* An event of a function turns an environment into an environment.
LEMMA AppliedType ==
    ASSUME NEW ev, ev.kind \in Kinds, ev.binding \in Bindings, NEW env \in Envs
    PROVE  ApplyEvent(ev, env) \in Envs
<1>1. StatusAfter(ev.kind) \in Statuses
  BY DEF StatusAfter, Statuses
<1> QED
  BY <1>1 DEF ApplyEvent, Envs

\* The merge of two environments is an environment.
LEMMA MergeEnvType ==
    ASSUME NEW current \in Envs, NEW incoming \in Envs
    PROVE  MergeEnv(current, incoming) \in Envs
<1> SUFFICES ASSUME NEW x \in Bindings
             PROVE  MergeEnv(current, incoming)[x] \in Statuses \cup {Absent}
  BY DEF MergeEnv, Envs
<1>1. current[x] \in Statuses \cup {Absent} /\ incoming[x] \in Statuses \cup {Absent}
  BY DEF Envs
<1> QED
  BY <1>1 DEF MergeEnv, Statuses

\* So is the merge of any number of them.
LEMMA MergeAllType ==
    ASSUME NEW envs \in SUBSET Envs
    PROVE  MergeAll(envs) \in Envs
<1> SUFFICES ASSUME NEW x \in Bindings
             PROVE  MergeAll(envs)[x] \in Statuses \cup {Absent}
  BY DEF MergeAll, Envs
<1> DEFINE present == {env[x] : env \in envs} \ {Absent}
<1>1. present \subseteq Statuses
  BY DEF Envs
<1>2. MergeAll(envs)[x] = IF present = {} THEN Absent
                          ELSE IF Cardinality(present) = 1 THEN CHOOSE s \in present : TRUE
                          ELSE "branch_unresolved"
  BY DEF MergeAll
<1> HIDE DEF present
<1>3. present # {} => (CHOOSE s \in present : TRUE) \in present
  OBVIOUS
<1> QED
  BY <1>1, <1>2, <1>3 DEF Statuses

\* What the emitter computes of its blocks and loops has the right type.
LEMMA FlowTypes ==
    ASSUME FlowInv, stage \in {"flow", "emitted"}
    PROVE  /\ \A b \in Blocks : FlowOut(b) \in Envs
           /\ \A fact \in program.facts : region[fact] \subseteq program.nodes
           /\ \A fact \in program.facts : Relevant(fact) \subseteq Bindings
           /\ \A fact \in program.facts : CheckedBy(fact) \subseteq Bindings
<1>1. \A b \in Blocks : FlowOut(b) \in Envs
  BY ProgramFields, AppliedType DEF FlowInv, FlowOut
<1> DEFINE p == program
<1>2. \A fact \in program.facts : region[fact] \subseteq program.nodes
  BY RegionIsClosed DEF FlowInv
<1>3. \A fact \in program.facts : Created(fact) \subseteq Bindings
  BY <1>2, ProgramFields DEF FlowInv, Created
<1> QED
  BY <1>1, <1>2, <1>3, ProgramFields DEF FlowInv, Relevant, CheckedBy

\* A certificate of the emitter has the shape of one.
LEMMA EmittedShape ==
    ASSUME FlowInv, stage \in {"flow", "emitted"}
    PROVE  EmittedCertificate \in CertificateShape
<1>1. /\ program.nodes \in SUBSET Blocks /\ program.exits \in SUBSET Blocks
      /\ program.edges \in SUBSET (Blocks \X Blocks)
      /\ program.facts \in SUBSET LoopFacts /\ program.bounded \in SUBSET LoopFacts
      /\ \A b \in Blocks : program.event[b].kind \in Kinds /\ program.event[b].binding \in Bindings
  BY ProgramFields DEF FlowInv
<1>2. \A b \in Blocks : EmittedEvent(b) \in CertEvents
  <2>1. \A b \in Blocks : flowIn[b] \in Envs
    BY DEF FlowInv
  <2>2. \A b \in Blocks :
          {l \in LoopIds : \E fact \in program.facts : fact.loop = l /\ b \in region[fact]}
            \in SUBSET LoopIds
    OBVIOUS
  <2> QED
    BY <1>1, <2>1, <2>2, FlowTypes DEF EmittedEvent, CertEvents
<1>3. [b \in Blocks |-> EmittedEvent(b)] \in [Blocks -> CertEvents]
  BY <1>2
<1>4. MergeAll({FlowOut(b) : b \in TerminalBlocks}) \in Envs
  <2>1. {FlowOut(b) : b \in TerminalBlocks} \in SUBSET Envs
    BY <1>1, FlowTypes DEF TerminalBlocks, FlowInv
  <2> QED
    BY <2>1, MergeAllType
<1>5. \A fact \in program.facts : EmittedInvariant(fact) \in Invariants
  <2> SUFFICES ASSUME NEW fact \in program.facts
               PROVE  EmittedInvariant(fact) \in Invariants
    OBVIOUS
  <2>1. fact.source \in Blocks /\ fact.target \in Blocks /\ fact.loop \in LoopIds
    BY <1>1 DEF LoopFacts
  <2>2. Relevant(fact) \in SUBSET Bindings /\ CheckedBy(fact) \in SUBSET Bindings
    BY FlowTypes
  <2>3. OutIfFound(fact.source) \in Envs /\ flowIn[fact.target] \in Envs
    BY <2>1, FlowTypes, EmptyEnvType DEF OutIfFound, FlowInv
  <2>4. \A env \in Envs : OnlyChecked(fact, env) \in Envs
    BY DEF OnlyChecked, Envs
  <2> DEFINE before == OnlyChecked(fact, flowIn[fact.target])
             after == OnlyChecked(fact, OutIfFound(fact.source))
             kept == /\ Leaks(Bindings, before) = {} /\ Leaks(Bindings, after) = {}
                     /\ fact \in program.directed => UserKind(fact) /\ program.domain # {}
  <2>5. before \in Envs /\ after \in Envs /\ kept \in BOOLEAN
    BY <2>3, <2>4
  <2>6. EmittedInvariant(fact) =
          [source |-> fact.source, target |-> fact.target, loop |-> fact.loop,
           preserved |-> kept, created |-> Relevant(fact), checked |-> CheckedBy(fact),
           entryStates |-> before, backStates |-> after]
    BY DEF EmittedInvariant
  <2> HIDE DEF before, after, kept
  <2> QED
    BY <2>1, <2>2, <2>5, <2>6 DEF Invariants
<1>6. {EmittedInvariant(fact) : fact \in {f \in program.facts :
                                   f \in program.directed \/ Relevant(f) # {}}} \in SUBSET Invariants
  BY <1>5
<1> QED
  BY <1>1, <1>3, <1>4, <1>6, EmptyEnvType DEF EmittedCertificate, CertificateShape

\* The certificate the emitter writes depends on its own state only.
LEMMA EmittedFixed ==
    ASSUME UNCHANGED <<program, region, work, found, flowIn>>
    PROVE  EmittedCertificate' = EmittedCertificate
<1>1. /\ \A b \in Blocks : FlowOut(b)' = FlowOut(b)
      /\ \A b \in Blocks : EmittedEvent(b)' = EmittedEvent(b)
      /\ TerminalBlocks' = TerminalBlocks
  BY DEF FlowOut, ApplyEvent, EmittedEvent, TerminalBlocks, Targets
<1>2. \A fact : /\ Relevant(fact)' = Relevant(fact)
                /\ EmittedInvariant(fact)' = EmittedInvariant(fact)
  BY DEF FlowOut, ApplyEvent, EmittedInvariant, UserKind, Relevant, Created, CheckedBy,
         OnlyChecked, OutIfFound, Leaks
<1>3. {FlowOut(b) : b \in TerminalBlocks}' = {FlowOut(b) : b \in TerminalBlocks}
  BY DEF FlowOut, ApplyEvent, TerminalBlocks, Targets
<1>4. MergeAll({FlowOut(b) : b \in TerminalBlocks})' = MergeAll({FlowOut(b) : b \in TerminalBlocks})
  BY <1>3 DEF MergeAll
<1> QED
  BY <1>1, <1>2, <1>4 DEF EmittedCertificate

\* So does the region of a loop.
LEMMA RegionFixed ==
    ASSUME program' = program
    PROVE  \A fact : LoopRegion(fact)' = LoopRegion(fact)
BY DEF LoopRegion

\* At the start nothing has been found.
LEMMA InitFlowInv == PipelineInit => FlowInv
<1> SUFFICES ASSUME PipelineInit PROVE FlowInv
  OBVIOUS
<1>1. /\ program \in Programs /\ stage = "start" /\ found = {} /\ work = {} /\ phase = "waiting"
      /\ flowIn = [b \in Blocks |-> EmptyEnv]
  BY DEF PipelineInit, FlowInit, Init, ReplayInit
<1> QED
  BY <1>1, EmptyEnvType DEF FlowInv

\* The dataflow keeps its invariant.
LEMMA FlowFlowInv ==
    ASSUME FlowInv, Flow
    PROVE  FlowInv'
<1>1. program \in Programs /\ program.nodes \subseteq Blocks
  BY ProgramFields DEF FlowInv
<1>2. phase' = phase /\ program' = program
  BY DEF Flow, FlowStep, StartFlow, FlowBlock, vars, replayVars
<1>3. \A fact : LoopRegion(fact)' = LoopRegion(fact)
  BY <1>2, RegionFixed
<1>4. CASE StartFlow
  BY <1>1, <1>2, <1>3, <1>4 DEF StartFlow, FlowInv
<1>5. ASSUME NEW b \in Blocks, FlowBlock(b)
      PROVE  FlowInv'
  <2> DEFINE merged == [t \in Blocks |-> IF t \in Forward(b) THEN MergeEnv(flowIn[t], FlowOut(b))
                                                             ELSE flowIn[t]]
  <2>1. /\ stage = "flow" /\ stage' = stage /\ region' = region /\ found' = found \cup Forward(b)
        /\ work' \subseteq work \cup Forward(b)
        /\ flowIn' = merged
    BY <1>5 DEF FlowBlock, FoundFrom
  <2>2. Forward(b) \subseteq program.nodes
    BY DEF Forward
  <2>3. FlowOut(b) \in Envs /\ \A t \in Blocks : flowIn[t] \in Envs
    BY <2>1, FlowTypes DEF FlowInv
  <2>4. merged \in [Blocks -> Envs]
    BY <2>3, MergeEnvType
  <2>5. \A t \in Blocks \ found' : merged[t] = EmptyEnv
    BY <2>1 DEF FlowInv
  <2> HIDE DEF merged
  <2> QED
    BY <1>2, <1>3, <2>1, <2>2, <2>4, <2>5 DEF FlowInv
<1> QED
  BY <1>4, <1>5 DEF Flow, FlowStep

\* The other steps change the stage at most.
LEMMA PipelineFlowInv ==
    ASSUME FlowInv, [PipelineNext]_pipelineVars
    PROVE  FlowInv'
<1> DEFINE kept == <<program, region, work, found, flowIn>>
<1>1. ASSUME UNCHANGED kept
      PROVE  /\ EmittedCertificate' = EmittedCertificate
             /\ \A fact : LoopRegion(fact)' = LoopRegion(fact)
  BY <1>1, EmittedFixed, RegionFixed
<1>2. CASE Flow
  BY <1>2, FlowFlowInv
<1>3. CASE Emit
  <2>1. /\ FlowDone /\ stage' = "emitted" /\ cert' = EmittedCertificate /\ UNCHANGED kept
    BY <1>3 DEF Emit, Receive
  <2> QED
    BY <1>1, <2>1 DEF FlowInv, FlowDone
<1>4. CASE VerifyFile
  BY <1>1, <1>4 DEF VerifyFile, FlowInv
<1>5. CASE Verify
  <2>1. /\ UNCHANGED kept /\ stage' = stage
        /\ cert' = cert /\ phase # "waiting"
    BY <1>5 DEF Verify, flowVars, VerifierStep, ReplayBlock, RejectBlock, FinishReplay, CheckLoops,
                CheckExits
  <2> QED
    BY <1>1, <2>1 DEF FlowInv
<1>6. CASE Run
  <2>1. UNCHANGED kept /\ stage' = stage /\ cert' = cert /\ phase' = phase
    BY <1>6 DEF Run, flowVars, RunStep, StartRun, RunBlock, replayVars
  <2> QED
    BY <1>1, <2>1 DEF FlowInv
<1>7. CASE UNCHANGED pipelineVars
  <2>1. UNCHANGED kept /\ stage' = stage /\ cert' = cert /\ phase' = phase
    BY <1>7 DEF pipelineVars, flowVars, vars, replayVars
  <2> QED
    BY <1>1, <2>1 DEF FlowInv
<1> QED
  BY <1>2, <1>3, <1>4, <1>5, <1>6, <1>7 DEF PipelineNext

\* Whatever the pipeline does, to the verifier and the run it is one of their own steps.
LEMMA PipelineIsAnyStep ==
    ASSUME FlowInv, [PipelineNext]_pipelineVars
    PROVE  [AnyStep]_vars
<1>1. CASE Flow \/ UNCHANGED pipelineVars
  BY <1>1 DEF Flow, pipelineVars
<1>2. CASE Emit
  <2>1. EmittedCertificate \in CertificateShape
    BY <1>2, EmittedShape DEF Emit, FlowDone
  <2> QED
    BY <1>2, <2>1 DEF Emit, AnyStep, AnyReceive, runVars
<1>3. CASE VerifyFile
  BY <1>3, CertificatesHaveShape DEF VerifyFile, Submit, AnyStep, AnyReceive, runVars
<1>4. CASE Verify \/ Run
  BY <1>4 DEF Verify, Run, AnyStep, runVars
<1> QED
  BY <1>1, <1>2, <1>3, <1>4 DEF PipelineNext

\* What is known of every state of the pipeline.
PipelineInv == FlowInv /\ TypeOK /\ Fresh /\ SoundInv /\ RunShadows

\* The pipeline starts in the invariant.
LEMMA InitPipelineInv == PipelineInit => PipelineInv
BY InitFlowInv, InitTypes, InitSoundInv DEF PipelineInit, PipelineInv, RunShadows, Init

\* And keeps it.
LEMMA StepPipelineInv == PipelineInv /\ [PipelineNext]_pipelineVars => PipelineInv'
<1> SUFFICES ASSUME PipelineInv, [PipelineNext]_pipelineVars PROVE PipelineInv'
  OBVIOUS
<1>1. [AnyStep]_vars
  BY PipelineIsAnyStep DEF PipelineInv
<1>2. FlowInv'
  BY PipelineFlowInv DEF PipelineInv
<1>3. TypeOK' /\ Fresh'
  BY <1>1, AnyStepTypes DEF PipelineInv
<1>4. SoundInv' /\ RunShadows'
  BY <1>1, <1>3, NextSoundInv, NextRunShadows DEF PipelineInv
<1> QED
  BY <1>2, <1>3, <1>4 DEF PipelineInv

\* The dataflow stays inside the function, and what it hands over is what the verifier has.
THEOREM PipelineInvariant == PipelineSpec => []PipelineInv
BY InitPipelineInv, StepPipelineInv, PTL DEF PipelineSpec

\* Acceptance is sound in the pipeline too: for the certificates of the emitter, of every
\* function, as for those of a file.
THEOREM PipelineSoundness == PipelineSpec => []AcceptanceSound
<1>1. PipelineInv => AcceptanceSound
  BY DEF PipelineInv, SoundInv, RunTracked, AcceptanceSound
<1> QED
  BY <1>1, PipelineInvariant, PTL

\* Every event of a run happens in a status its rule allows, also behind the emitter.
THEOREM PipelineKeepsRules == PipelineSpec => []RulesKept
<1>1. PipelineInv => RulesKept
  BY DEF PipelineInv, RunShadows, RulesKept
<1> QED
  BY <1>1, PipelineInvariant, PTL

-----------------------------------------------------------------------------
(* The regions the emitter marks.                                          *)

\* Whatever edges a loop's body has: where the function comes to the block that closes the
\* loop, that block is reached from the loop's entry over edges that neither leave nor close
\* a loop.  Lowering closes a loop where its body falls through
\* (finish_loop_flow in kobo-transform/src/scenario/control_flow.rs).
LoopsClose ==
    \A fact \in program.facts : fact.source \in reached =>
        \A S \in SUBSET program.nodes :
            /\ fact.target \in S
            /\ \A u \in S, t \in program.nodes :
                  /\ <<u, t>> \in program.edges \ program.loopEdges[fact.loop]
                  /\ ~\E other \in program.facts : other.source = u /\ other.target = t
                  => t \in S
            => fact.source \in S

\* The emitter's region of a loop that closes is honest.
LEMMA EmittedRegionHonest ==
    ASSUME FlowInv, stage = "emitted", LoopsClose,
           NEW inv \in cert.invariants, inv.source \in reached
    PROVE  \E R \in SUBSET Blocks : TraversedLoop(inv, R)
<1>1. /\ cert = EmittedCertificate /\ program \in Programs /\ program.nodes \in SUBSET Blocks
      /\ cert.edges = program.edges
      /\ cert.edges \in SUBSET (program.nodes \X program.nodes)
      /\ region = [fact \in program.facts |-> LoopRegion(fact)]
      /\ program.facts \subseteq LoopFacts
  BY ProgramFields DEF FlowInv, EmittedCertificate
<1>2. ASSUME NEW i \in cert.invariants
      PROVE  \E fact \in program.facts :
               i.source = fact.source /\ i.target = fact.target /\ i.loop = fact.loop
  BY <1>1, <1>2 DEF EmittedCertificate, EmittedInvariant
<1>3. PICK fact \in program.facts :
        inv.source = fact.source /\ inv.target = fact.target /\ inv.loop = fact.loop
  BY <1>2
<1> DEFINE R == LoopRegion(fact)
<1>4. /\ R \subseteq program.nodes /\ fact.target \in R /\ region[fact] = R
      /\ \A s \in R, t \in program.nodes :
            <<s, t>> \in program.edges \ program.loopEdges[fact.loop] => t \in R
  BY <1>1, RegionIsClosed
<1> HIDE DEF R
<1>5. fact.source \in R
  BY <1>3, <1>4 DEF LoopsClose
<1>6. LoopMarked(inv, R)
  <2>1. \A b \in R : cert.event[b] = EmittedEvent(b)
    BY <1>1, <1>4 DEF EmittedCertificate
  <2>2. \A b \in R : fact.loop \in EmittedEvent(b).regions
    BY <1>1, <1>4 DEF EmittedEvent, LoopFacts
  <2> QED
    BY <1>3, <1>4, <1>5, <2>1, <2>2 DEF LoopMarked
<1>7. ASSUME NEW S \in SUBSET R, inv.target \in S, ClosedInside(R, S)
      PROVE  inv.source \in S
  <2>1. ASSUME NEW u \in S, NEW t \in program.nodes,
               <<u, t>> \in program.edges \ program.loopEdges[fact.loop],
               ~\E other \in program.facts : other.source = u /\ other.target = t
        PROVE  t \in S
    <3>1. t \in R
      BY <1>4, <2>1
    <3>2. ~ExcusedBackEdge(u, t)
      BY <1>2, <2>1 DEF ExcusedBackEdge
    <3> QED
      BY <1>1, <1>7, <2>1, <3>1, <3>2 DEF ClosedInside
  <2>2. S \in SUBSET program.nodes
    BY <1>4
  <2> QED
    BY <1>3, <1>7, <2>1, <2>2 DEF LoopsClose
<1>8. R \in SUBSET Blocks
  BY <1>1, <1>4
<1> QED
  BY <1>6, <1>7, <1>8 DEF TraversedLoop

\* The regions of an emitted certificate are honest, on every graph whose loops close.
THEOREM EmitterIsHonest == PipelineSpec => [](LoopsClose => EmitterMarksRegions)
<1>1. PipelineInv /\ LoopsClose => EmitterMarksRegions
  BY EmittedRegionHonest DEF PipelineInv, EmitterMarksRegions, RegionsHonest
<1> QED
  BY <1>1, PipelineInvariant, PTL

\* End to end: a function whose certificate the emitter wrote and the verifier accepted
\* runs without losing an obligation.
THEOREM CompiledFunctionsAreSound ==
    PipelineSpec => []((stage = "emitted" /\ LoopsClose) => NoSilentLoss)
<1>1. EmitterMarksRegions /\ AcceptanceSound => (stage = "emitted" => NoSilentLoss)
  BY DEF EmitterMarksRegions, AcceptanceSound
<1> QED
  BY <1>1, EmitterIsHonest, PipelineSoundness, PTL

-----------------------------------------------------------------------------
(* The environments of the forward paths.                                  *)

\* The blocks of a function have a largest index.
LEMMA FiniteIsBounded ==
    ASSUME NEW S \in SUBSET Nat, IsFiniteSet(S)
    PROVE  \E m \in Nat : \A b \in S : b < m
<1> DEFINE Bounded(T) == \E m \in Nat : \A b \in T : b < m
           Bad == {k \in Nat : \E T \in SUBSET Nat :
                                 IsFiniteSet(T) /\ Cardinality(T) = k /\ ~Bounded(T)}
<1>1. SUFFICES Bad = {}
  BY FS_CardinalityType
<1>2. SUFFICES ASSUME Bad # {} PROVE FALSE
  OBVIOUS
<1>3. PICK k \in Bad : \A j \in Bad : k <= j
  BY <1>2, LeastNatural
<1>4. PICK T \in SUBSET Nat : IsFiniteSet(T) /\ Cardinality(T) = k /\ ~Bounded(T)
  BY <1>3
<1>5. PICK x \in T : TRUE
  <2>1. T # {}
    BY <1>4
  <2> QED
    BY <2>1
<1>6. IsFiniteSet(T \ {x}) /\ Cardinality(T \ {x}) = k - 1 /\ k - 1 \in Nat
  <2>1. IsFiniteSet(T \ {x}) /\ Cardinality(T \ {x}) = k - 1
    BY <1>4, <1>5, FS_RemoveElement
  <2> QED
    BY <2>1, FS_CardinalityType
<1>7. Bounded(T \ {x})
  <2>1. k - 1 \notin Bad
    BY <1>3, <1>6
  <2> QED
    BY <1>6, <2>1
<1>8. PICK m \in Nat : \A b \in T \ {x} : b < m
  BY <1>7
<1>9. m + x + 1 \in Nat /\ \A b \in T : b < m + x + 1
  BY <1>5, <1>8
<1> QED
  BY <1>4, <1>9

\* The first block of a function, where its paths start.
FirstOf(p) == CHOOSE b \in p.nodes : \A c \in p.nodes : b <= c

\* The environments block b is entered with, given those of earlier blocks.
PathsInto(p, first, into, b) ==
    (IF b = first THEN {EmptyEnv} ELSE {}) \cup
    UNION {{ApplyEvent(p.event[q], env) : env \in into[q]} :
             q \in {c \in p.nodes : c < b /\ <<c, b>> \in p.edges}}

\* Which depend on earlier blocks only.
LEMMA PathsAreForward ==
    ASSUME NEW p, p.nodes \subseteq Blocks, NEW first, NEW f, NEW g, NEW b \in Blocks,
           \A c \in Blocks : c < b => f[c] = g[c]
    PROVE  PathsInto(p, first, f, b) = PathsInto(p, first, g, b)
<1> DEFINE Before == {c \in p.nodes : c < b /\ <<c, b>> \in p.edges}
<1>1. \A q \in Before : f[q] = g[q]
  OBVIOUS
<1>2. {{ApplyEvent(p.event[q], env) : env \in f[q]} : q \in Before}
        = {{ApplyEvent(p.event[q], env) : env \in g[q]} : q \in Before}
  BY <1>1
<1> QED
  BY <1>2, Zenon DEF PathsInto

\* So there is a function with the environments of all blocks.
LEMMA PathsExist ==
    ASSUME NEW p, p.nodes \subseteq Blocks, NEW first
    PROVE  \E into : into = [b \in Blocks |-> PathsInto(p, first, into, b)]
<1> DEFINE Upto(f, n) == /\ f = [b \in Blocks |-> f[b]]
                         /\ \A b \in Blocks : b < n => f[b] = PathsInto(p, first, f, b)
           Bad == {n \in Nat : ~\E f : Upto(f, n)}
<1>1. ASSUME Bad # {} PROVE FALSE
  <2>1. PICK n \in Bad : \A k \in Bad : n <= k
    BY <1>1, LeastNatural
  <2>2. n # 0
    <3> DEFINE f == [b \in Blocks |-> {}]
    <3>1. Upto(f, 0)
      BY BlocksAreIndices
    <3> QED
      BY <2>1, <3>1
  <2>3. n - 1 \in Nat /\ n - 1 \notin Bad
    BY <2>1, <2>2
  <2>4. PICK f : Upto(f, n - 1)
    BY <2>3
  <2> DEFINE g == [b \in Blocks |-> IF b = n - 1 THEN PathsInto(p, first, f, b) ELSE f[b]]
  <2>5. ASSUME NEW b \in Blocks, b < n
        PROVE  g[b] = PathsInto(p, first, g, b)
    <3>1. \A c \in Blocks : c < b => f[c] = g[c]
      BY <2>3, <2>5, BlocksAreIndices
    <3>2. PathsInto(p, first, f, b) = PathsInto(p, first, g, b)
      BY <3>1, PathsAreForward
    <3>3. b \in Nat /\ (b = n - 1 \/ b < n - 1)
      BY <2>3, <2>5, BlocksAreIndices
    <3>4. g[b] = PathsInto(p, first, f, b)
      BY <2>4, <3>3
    <3> QED
      BY <3>2, <3>4
  <2>6. g = [b \in Blocks |-> g[b]]
    OBVIOUS
  <2> HIDE DEF g
  <2>7. Upto(g, n)
    BY <2>5, <2>6
  <2> QED
    BY <2>1, <2>7
<1>2. PICK m \in Nat : \A b \in Blocks : b < m
  BY FiniteIsBounded, BlocksAreIndices, BlocksFinite
<1>3. m \notin Bad
  BY <1>1
<1>4. PICK f : Upto(f, m)
  BY <1>3
<1>5. \A b \in Blocks : f[b] = PathsInto(p, first, f, b)
  BY <1>2, <1>4
<1>6. f = [b \in Blocks |-> PathsInto(p, first, f, b)]
  BY <1>4, <1>5
<1> QED
  BY <1>6

\* What PathEnvs is, block by block.
LEMMA PathsRule ==
    ASSUME program \in Programs
    PROVE  \A b \in Blocks : \A env :
             env \in PathEnvs[b] <=>
               \/ b = FirstOf(program) /\ env = EmptyEnv
               \/ \E q, before :
                     /\ q \in program.nodes
                     /\ q < b /\ <<q, b>> \in program.edges
                     /\ before \in PathEnvs[q]
                     /\ env = ApplyEvent(program.event[q], before)
<1> DEFINE first == FirstOf(program)
           all == CHOOSE into : into = [b \in Blocks |-> PathsInto(program, first, into, b)]
<1>1. PathEnvs = all
  BY DEF PathEnvs, PathsInto, FirstOf
<1>2. \E into : into = [b \in Blocks |-> PathsInto(program, first, into, b)]
  <2>1. program.nodes \subseteq Blocks
    BY ProgramFields
  <2> HIDE DEF first
  <2> QED
    BY <2>1, PathsExist
<1>3. all = [b \in Blocks |-> PathsInto(program, first, all, b)]
  BY <1>2, Zenon
<1> HIDE DEF all, first
<1>4. \A b \in Blocks : PathEnvs[b] = PathsInto(program, first, PathEnvs, b)
  BY <1>1, <1>3
<1>5. ASSUME NEW b \in Blocks, NEW env
      PROVE  env \in PathsInto(program, first, PathEnvs, b) <=>
               \/ b = first /\ env = EmptyEnv
               \/ \E q, before :
                     /\ q \in program.nodes
                     /\ q < b /\ <<q, b>> \in program.edges
                     /\ before \in PathEnvs[q]
                     /\ env = ApplyEvent(program.event[q], before)
  <2> DEFINE Before == {c \in program.nodes : c < b /\ <<c, b>> \in program.edges}
             From(q) == {ApplyEvent(program.event[q], before) : before \in PathEnvs[q]}
  <2>1. \A q : q \in Before <=> q \in program.nodes /\ q < b /\ <<q, b>> \in program.edges
    OBVIOUS
  <2>2. \A q : env \in From(q) <=> \E before \in PathEnvs[q] :
                                    env = ApplyEvent(program.event[q], before)
    OBVIOUS
  <2>3. PathsInto(program, first, PathEnvs, b) =
          (IF b = first THEN {EmptyEnv} ELSE {}) \cup UNION {From(q) : q \in Before}
    BY Zenon DEF PathsInto
  <2> HIDE DEF Before, From
  <2>4. env \in UNION {From(q) : q \in Before} <=> \E q \in Before : env \in From(q)
    OBVIOUS
  <2>5. env \in (IF b = first THEN {EmptyEnv} ELSE {}) <=> b = first /\ env = EmptyEnv
    OBVIOUS
  <2> QED
    BY <2>1, <2>2, <2>3, <2>4, <2>5
<1>6. first = FirstOf(program)
  BY DEF first
<1> SUFFICES ASSUME NEW b \in Blocks, NEW env
             PROVE  env \in PathEnvs[b] <=>
                      \/ b = first /\ env = EmptyEnv
                      \/ \E q, before :
                            /\ q \in program.nodes
                            /\ q < b /\ <<q, b>> \in program.edges
                            /\ before \in PathEnvs[q]
                            /\ env = ApplyEvent(program.event[q], before)
  BY <1>6
<1>7. PathEnvs[b] = PathsInto(program, first, PathEnvs, b)
  BY <1>4
<1> QED
  BY <1>5, <1>7

\* A path into a block is empty, or comes from an earlier block.
LEMMA PathsBack ==
    ASSUME program \in Programs, NEW b \in Blocks, NEW env \in PathEnvs[b],
           ~(b = FirstOf(program) /\ env = EmptyEnv)
    PROVE  \E q, before :
             /\ q \in program.nodes
             /\ q < b /\ q \in Blocks /\ <<q, b>> \in program.edges
             /\ before \in PathEnvs[q]
             /\ env = ApplyEvent(program.event[q], before)
<1>1. \/ b = FirstOf(program) /\ env = EmptyEnv
      \/ \E q, before :
            /\ q \in program.nodes
            /\ q < b /\ <<q, b>> \in program.edges
            /\ before \in PathEnvs[q]
            /\ env = ApplyEvent(program.event[q], before)
  BY PathsRule, SMT
<1>2. program.nodes \subseteq Blocks
  BY ProgramFields
<1> QED
  BY <1>1, <1>2

\* A path leads on over every forward edge.
LEMMA PathsNext ==
    ASSUME program \in Programs, NEW q \in program.nodes, NEW b \in Blocks,
           q < b, <<q, b>> \in program.edges, NEW before \in PathEnvs[q]
    PROVE  ApplyEvent(program.event[q], before) \in PathEnvs[b]
<1>1. \E r, e :
            /\ r \in program.nodes
            /\ r < b /\ <<r, b>> \in program.edges
            /\ e \in PathEnvs[r]
            /\ ApplyEvent(program.event[q], before) = ApplyEvent(program.event[r], e)
  OBVIOUS
<1> QED
  BY <1>1, PathsRule

\* The first block is entered with the empty environment.
LEMMA PathsStart ==
    ASSUME program \in Programs, NEW b \in program.nodes, \A c \in program.nodes : b <= c
    PROVE  b = FirstOf(program) /\ EmptyEnv \in PathEnvs[b]
<1>1. program.nodes \subseteq Blocks /\ b \in Blocks
  BY ProgramFields
<1>2. \A c \in program.nodes : c \in Nat
  BY <1>1, BlocksAreIndices
<1>3. b = FirstOf(program)
  BY <1>2 DEF FirstOf
<1>4. EmptyEnv \in PathEnvs[b] <=>
        \/ b = FirstOf(program) /\ EmptyEnv = EmptyEnv
        \/ \E q, before :
              /\ q \in program.nodes
              /\ q < b /\ <<q, b>> \in program.edges
              /\ before \in PathEnvs[q]
              /\ EmptyEnv = ApplyEvent(program.event[q], before)
  BY <1>1, PathsRule, SMT
<1> QED
  BY <1>3, <1>4

\* Every one of them is an environment.
LEMMA PathsTyped ==
    ASSUME program \in Programs
    PROVE  \A b \in Blocks : PathEnvs[b] \subseteq Envs
<1> DEFINE Bad == {b \in Blocks : ~(PathEnvs[b] \subseteq Envs)}
<1> SUFFICES ASSUME Bad # {} PROVE FALSE
  OBVIOUS
<1>1. PICK b \in Bad : \A c \in Bad : b <= c
  <2>1. Bad \in SUBSET Nat
    BY BlocksAreIndices
  <2> QED
    BY <2>1, LeastNatural
<1>2. PICK env \in PathEnvs[b] : env \notin Envs
  BY <1>1
<1>3. PICK q, before :
        /\ q \in program.nodes
        /\ q < b /\ q \in Blocks /\ <<q, b>> \in program.edges
        /\ before \in PathEnvs[q]
        /\ env = ApplyEvent(program.event[q], before)
  <2>1. b \in Blocks /\ env # EmptyEnv
    BY <1>1, <1>2, EmptyEnvType
  <2> HIDE DEF Bad
  <2> QED
    BY <1>2, <2>1, PathsBack
<1>4. q \in Blocks /\ q \notin Bad
  <2>1. b \in Nat /\ q \in Nat
    BY <1>1, <1>3, BlocksAreIndices
  <2> HIDE DEF Bad
  <2> QED
    BY <1>1, <1>3, <2>1
<1>5. before \in Envs
  BY <1>3, <1>4
<1> QED
  BY <1>2, <1>3, <1>4, <1>5, ProgramFields, AppliedType

\* The image of a finite set is finite.
LEMMA ImageFinite ==
    ASSUME NEW S, IsFiniteSet(S), NEW f
    PROVE  IsFiniteSet({f[x] : x \in S})
<1> DEFINE T == {f[x] : x \in S}
           g == [x \in S |-> f[x]]
<1>1. g \in Surjection(S, T)
  BY DEF Surjection
<1> QED
  BY <1>1, FS_Surjection

\* There are finitely many environments on the way into a block.
LEMMA PathsFinite ==
    ASSUME program \in Programs
    PROVE  \A b \in Blocks : IsFiniteSet(PathEnvs[b])
<1> DEFINE Bad == {b \in Blocks : ~IsFiniteSet(PathEnvs[b])}
<1> SUFFICES ASSUME Bad # {} PROVE FALSE
  OBVIOUS
<1>1. PICK b \in Bad : \A c \in Bad : b <= c
  <2>1. Bad \in SUBSET Nat
    BY BlocksAreIndices
  <2> QED
    BY <2>1, LeastNatural
<1> DEFINE Before == {q \in program.nodes : q < b}
           after == [q \in Before |-> [env \in PathEnvs[q] |-> ApplyEvent(program.event[q], env)]]
           into == [q \in Before |-> {after[q][env] : env \in PathEnvs[q]}]
           Into == {into[q] : q \in Before}
<1>2. program.nodes \in SUBSET Blocks /\ b \in Blocks
  BY <1>1, ProgramFields
<1>2a. \A q \in Before : q \in Blocks /\ q \notin Bad
  <2>1. \A q \in Before : q \in Blocks /\ q < b
    BY <1>2
  <2>2. \A c \in Blocks : c \in Nat
    BY BlocksAreIndices
  <2> HIDE DEF Bad, Before
  <2> QED
    BY <1>1, <1>2, <2>1, <2>2
<1>3. IsFiniteSet(Before)
  <2>1. Before \in SUBSET Blocks
    BY <1>2
  <2> QED
    BY <2>1, BlocksFinite, FS_Subset
<1> HIDE DEF after
<1>4. \A q \in Before : IsFiniteSet(into[q])
  <2> SUFFICES ASSUME NEW q \in Before PROVE IsFiniteSet(into[q])
    OBVIOUS
  <2>1. q \in Blocks /\ q \notin Bad
    BY <1>2a
  <2>2. IsFiniteSet(PathEnvs[q])
    BY <2>1
  <2> DEFINE f == after[q]
  <2> HIDE DEF f
  <2>3. IsFiniteSet({f[env] : env \in PathEnvs[q]})
    BY <2>2, ImageFinite
  <2> QED
    BY <2>3 DEF f
<1> HIDE DEF into
<1>5. IsFiniteSet(Into)
  BY <1>3, ImageFinite
<1>6. \A T \in Into : IsFiniteSet(T)
  BY <1>4
<1>7. IsFiniteSet(UNION Into)
  BY <1>5, <1>6, FS_UNION
<1>8. IsFiniteSet({EmptyEnv} \cup UNION Into)
  BY <1>7, FS_Union, FS_Singleton
<1>9. PathEnvs[b] \subseteq {EmptyEnv} \cup UNION Into
  <2> SUFFICES ASSUME NEW env \in PathEnvs[b], env # EmptyEnv
               PROVE  env \in UNION Into
    OBVIOUS
  <2>1. PICK q, before :
          /\ q \in program.nodes
          /\ q < b /\ q \in Blocks /\ <<q, b>> \in program.edges
          /\ before \in PathEnvs[q]
          /\ env = ApplyEvent(program.event[q], before)
    <3> HIDE DEF Bad, Before, Into
    <3> QED
      BY <1>2, PathsBack
  <2>2. q \in Before /\ after[q][before] = env
    BY <2>1 DEF after
  <2>3. env \in into[q]
    BY <2>1, <2>2 DEF into
  <2> QED
    BY <2>2, <2>3
<1>10. IsFiniteSet(PathEnvs[b])
  BY <1>8, <1>9, FS_Subset
<1> QED
  BY <1>1, <1>10

-----------------------------------------------------------------------------
(* The order of the merge: Absent below every status, branch_unresolved    *)
(* above.                                                                  *)

\* upper holds everything env knows.
Covers(upper, env) ==
    \A x \in Bindings : \/ env[x] \in {Absent, upper[x]}
                        \/ upper[x] = "branch_unresolved"

\* env knows nothing that the merge of envs does not know.
WithinMerge(env, envs) ==
    \A x \in Bindings :
        \/ env[x] = Absent
        \/ \E one \in envs : one[x] = env[x]
        \/ \E one, other \in envs : one[x] # other[x] /\ one[x] # Absent /\ other[x] # Absent

\* The merge of two environments covers both.
LEMMA MergeCovers ==
    ASSUME NEW one \in Envs, NEW other \in Envs
    PROVE  Covers(MergeEnv(one, other), one) /\ Covers(MergeEnv(one, other), other)
BY DEF Covers, MergeEnv, Absent

\* What covers a cover covers what is below.
LEMMA CoversTransitive ==
    ASSUME NEW one, NEW two, NEW three, Covers(one, two), Covers(two, three)
    PROVE  Covers(one, three)
BY DEF Covers, Absent

\* An event keeps the order.
LEMMA AppliedCovers ==
    ASSUME NEW ev, ev.binding \in Bindings, NEW upper \in Envs, NEW env \in Envs,
           Covers(upper, env)
    PROVE  Covers(ApplyEvent(ev, upper), ApplyEvent(ev, env))
BY DEF Covers, ApplyEvent, Envs

\* The merge of two environments stays within a merge they are both within.
LEMMA MergeWithin ==
    ASSUME NEW envs, NEW one \in Envs, NEW other \in Envs,
           WithinMerge(one, envs), WithinMerge(other, envs)
    PROVE  WithinMerge(MergeEnv(one, other), envs)
<1> SUFFICES ASSUME NEW x \in Bindings
             PROVE  LET s == MergeEnv(one, other)[x]
                    IN  \/ s = Absent
                        \/ \E e \in envs : e[x] = s
                        \/ \E e, f \in envs : e[x] # f[x] /\ e[x] # Absent /\ f[x] # Absent
  BY DEF WithinMerge
<1>1. \/ MergeEnv(one, other)[x] \in {one[x], other[x]}
      \/ one[x] # other[x] /\ one[x] # Absent /\ other[x] # Absent
  BY DEF MergeEnv
<1> QED
  BY <1>1 DEF WithinMerge

\* An event takes an environment within a merge to one within the merge of what it takes
\* the others to.
LEMMA AppliedWithin ==
    ASSUME NEW ev, ev.binding \in Bindings, NEW env \in Envs, NEW envs \in SUBSET Envs,
           envs # {}, WithinMerge(env, envs),
           NEW after, \A e \in envs : ApplyEvent(ev, e) \in after
    PROVE  WithinMerge(ApplyEvent(ev, env), after)
<1> SUFFICES ASSUME NEW x \in Bindings
             PROVE  LET s == ApplyEvent(ev, env)[x]
                    IN  \/ s = Absent
                        \/ \E e \in after : e[x] = s
                        \/ \E e, f \in after : e[x] # f[x] /\ e[x] # Absent /\ f[x] # Absent
  BY DEF WithinMerge
<1>1. CASE ev.kind \in {"none", "call"} \/ ev.binding # x
  <2>1. \A e \in Envs : ApplyEvent(ev, e)[x] = e[x]
    BY <1>1 DEF ApplyEvent, Envs
  <2>2. \A e \in envs : ApplyEvent(ev, e) \in after /\ ApplyEvent(ev, e)[x] = e[x]
    BY <2>1
  <2>3. ApplyEvent(ev, env)[x] = env[x]
    BY <2>1
  <2>4. CASE env[x] = Absent
    BY <2>3, <2>4
  <2>5. CASE \E e \in envs : e[x] = env[x]
    BY <2>2, <2>3, <2>5
  <2>6. CASE \E e, f \in envs : e[x] # f[x] /\ e[x] # Absent /\ f[x] # Absent
    BY <2>2, <2>6
  <2> QED
    BY <2>4, <2>5, <2>6 DEF WithinMerge
<1>2. CASE ev.kind \notin {"none", "call"} /\ ev.binding = x
  <2>1. \A e \in Envs : ApplyEvent(ev, e)[x] = StatusAfter(ev.kind)
    BY <1>2 DEF ApplyEvent, Envs
  <2>2. PICK e \in envs : TRUE
    OBVIOUS
  <2> QED
    BY <2>1, <2>2
<1> QED
  BY <1>1, <1>2

\* There are finitely many statuses.
LEMMA StatusesFinite == IsFiniteSet(Statuses)
<1>1. /\ IsFiniteSet({"owned"} \cup {"resolved"})
      /\ IsFiniteSet({"transferred"} \cup {"moved"})
      /\ IsFiniteSet({"branch_unresolved"} \cup {"escaped"})
  BY FS_Singleton, FS_Union
<1>2. IsFiniteSet(({"owned"} \cup {"resolved"}) \cup ({"transferred"} \cup {"moved"}))
  BY <1>1, FS_Union
<1>3. IsFiniteSet((({"owned"} \cup {"resolved"}) \cup ({"transferred"} \cup {"moved"}))
                    \cup ({"branch_unresolved"} \cup {"escaped"}))
  BY <1>1, <1>2, FS_Union
<1>4. Statuses = ((({"owned"} \cup {"resolved"}) \cup ({"transferred"} \cup {"moved"}))
                    \cup ({"branch_unresolved"} \cup {"escaped"}))
  BY DEF Statuses
<1> QED
  BY <1>3, <1>4

\* An environment within the merge that covers everything merged is the merge.
LEMMA MergeIsExact ==
    ASSUME NEW env \in Envs, NEW envs \in SUBSET Envs,
           WithinMerge(env, envs), \A e \in envs : Covers(env, e)
    PROVE  env = MergeAll(envs)
<1> SUFFICES ASSUME NEW x \in Bindings
             PROVE  env[x] = MergeAll(envs)[x]
  BY DEF MergeAll, Envs
<1> DEFINE present == {e[x] : e \in envs} \ {Absent}
<1>1. MergeAll(envs)[x] = IF present = {} THEN Absent
                          ELSE IF Cardinality(present) = 1 THEN CHOOSE s \in present : TRUE
                          ELSE "branch_unresolved"
  BY DEF MergeAll
<1>2. \A s : s \in present <=> s # Absent /\ \E e \in envs : e[x] = s
  OBVIOUS
<1>3. \A s \in present : env[x] \in {s, "branch_unresolved"}
  BY <1>2 DEF Covers, Absent
<1>4. \/ env[x] = Absent
      \/ env[x] \in present
      \/ \E s, r \in present : s # r
  BY <1>2 DEF WithinMerge
<1>4a. IsFiniteSet(present)
  <2>1. present \in SUBSET Statuses
    BY DEF Envs
  <2> QED
    BY <2>1, StatusesFinite, FS_Subset
<1> HIDE DEF present
<1>5. CASE present = {}
  BY <1>1, <1>4, <1>5
<1>6. CASE present # {} /\ \A s, r \in present : s = r
  <2>1. PICK s \in present : present = {s}
    BY <1>6
  <2>2. Cardinality(present) = 1 /\ (CHOOSE r \in present : TRUE) = s
    BY <2>1, FS_Singleton
  <2>3. env[x] # Absent
    BY <1>2, <1>3, <2>1 DEF Absent
  <2> QED
    BY <1>1, <1>4, <1>6, <2>1, <2>2, <2>3
<1>7. CASE \E s, r \in present : s # r
  <2>1. PICK s \in present, r \in present : s # r
    BY <1>7
  <2>2. Cardinality(present) # 1
    <3>1. ~\E t : present = {t}
      BY <2>1
    <3> QED
      BY <1>4a, <3>1, FS_Singleton
  <2>3. env[x] = "branch_unresolved"
    BY <1>3, <2>1
  <2> QED
    BY <1>1, <2>1, <2>2, <2>3
<1> QED
  BY <1>5, <1>6, <1>7

-----------------------------------------------------------------------------
(* The worklist ends with the merge over the forward paths.                *)

\* Nothing is found that no path brings, and a block that waits no longer has handed on
\* everything it knows.
PathInv ==
    stage \in {"flow", "emitted"} =>
        /\ \A b \in Blocks : WithinMerge(flowIn[b], PathEnvs[b])
        /\ \A b \in found : PathEnvs[b] # {}
        /\ \A b \in found \ work : \A t \in Forward(b) :
              t \in found /\ Covers(flowIn[t], FlowOut(b))

\* The dataflow keeps that.
LEMMA FlowPathInv ==
    ASSUME FlowInv, PathInv, Flow
    PROVE  PathInv'
<1>1. /\ program \in Programs /\ program' = program /\ program.nodes \subseteq Blocks
      /\ PathEnvs' = PathEnvs /\ \A b : Forward(b)' = Forward(b)
  <2>1. program' = program
    BY DEF Flow, FlowStep, StartFlow, FlowBlock
  <2> QED
    BY <2>1, ProgramFields DEF FlowInv, PathEnvs, Forward, Targets
<1>2. CASE StartFlow
  <2>1. /\ stage = "start" /\ flowIn' = flowIn /\ work' = found'
        /\ found' = {b \in program.nodes : \A c \in program.nodes : b <= c}
    BY <1>2 DEF StartFlow
  <2>2. \A b \in Blocks : flowIn'[b] = EmptyEnv
    BY <2>1 DEF FlowInv
  <2>3. \A b \in Blocks : WithinMerge(flowIn'[b], PathEnvs[b])
    BY <2>2 DEF WithinMerge, EmptyEnv
  <2>4. \A b \in found' : PathEnvs[b] # {}
    BY <1>1, <2>1, PathsStart
  <2> QED
    BY <1>1, <2>1, <2>3, <2>4 DEF PathInv, WithinMerge
<1>3. ASSUME NEW b \in Blocks, FlowBlock(b)
      PROVE  PathInv'
  <2> DEFINE merged(t) == MergeEnv(flowIn[t], FlowOut(b))
  <2>1. /\ stage = "flow" /\ b \in work /\ b \in found
        /\ found' = found \cup Forward(b)
        /\ flowIn' = [t \in Blocks |-> IF t \in Forward(b) THEN merged(t) ELSE flowIn[t]]
        /\ work' = (work \ {b}) \cup {t \in Forward(b) : t \notin found \/ merged(t) # flowIn[t]}
    BY <1>3 DEF FlowBlock, FoundFrom, FlowInv
  <2>2. \A t \in Forward(b) : t \in Blocks /\ t \in program.nodes /\ b < t /\ <<b, t>> \in program.edges
    BY <1>1, BlocksAreIndices DEF Forward, Targets
  <2>3. /\ FlowOut(b) \in Envs
        /\ \A t \in Blocks : flowIn[t] \in Envs /\ flowIn'[t] \in Envs /\ FlowOut(t) \in Envs
    <3>1. FlowInv'
      BY FlowFlowInv
    <3> QED
      BY <2>1, <3>1, FlowTypes DEF FlowInv
  <2>4. \A t \in Blocks : flowIn'[t] = IF t \in Forward(b) THEN merged(t) ELSE flowIn[t]
    BY <2>1
  <2>5. b \in program.nodes /\ program.event[b].binding \in Bindings
    BY <1>1, <2>1, ProgramFields DEF FlowInv
  <2> HIDE DEF merged
  <2>6. \A t \in Forward(b) : /\ Covers(merged(t), flowIn[t]) /\ Covers(merged(t), FlowOut(b))
    BY <2>2, <2>3, MergeCovers DEF merged
  <2>7. ASSUME NEW t \in Forward(b)
        PROVE  WithinMerge(merged(t), PathEnvs[t]) /\ PathEnvs[t] # {}
    <3>1. WithinMerge(flowIn[b], PathEnvs[b]) /\ PathEnvs[b] # {} /\ PathEnvs[b] \in SUBSET Envs
      BY <1>1, <2>1, PathsTyped DEF PathInv
    <3>2. \A e \in PathEnvs[b] : ApplyEvent(program.event[b], e) \in PathEnvs[t]
      BY <1>1, <2>2, <2>5, PathsNext
    <3>3. WithinMerge(FlowOut(b), PathEnvs[t])
      BY <2>3, <2>5, <3>1, <3>2, AppliedWithin DEF FlowOut
    <3>4. WithinMerge(flowIn[t], PathEnvs[t])
      BY <2>1, <2>2 DEF PathInv
    <3>5. WithinMerge(merged(t), PathEnvs[t])
      BY <2>2, <2>3, <3>3, <3>4, MergeWithin DEF merged
    <3> QED
      BY <3>1, <3>2, <3>5
  <2>8. \A t \in Blocks : WithinMerge(flowIn'[t], PathEnvs[t])
    BY <2>1, <2>4, <2>7 DEF PathInv
  <2>9. \A t \in found' : PathEnvs[t] # {}
    BY <2>1, <2>7 DEF PathInv
  <2>10. \A t \in Blocks : Covers(flowIn'[t], flowIn[t])
    BY <2>4, <2>6 DEF Covers
  <2>11. ASSUME NEW d \in found' \ work', NEW t \in Forward(d)
         PROVE  t \in found' /\ Covers(flowIn'[t], FlowOut(d)')
    <3>1. d \in Blocks /\ t \in Blocks
      <4>1. found' \subseteq program.nodes
        BY <2>1, <2>2 DEF FlowInv
      <4> QED
        BY <1>1, <4>1 DEF Forward
    <3>2. ASSUME flowIn'[d] = flowIn[d]
          PROVE  FlowOut(d)' = FlowOut(d)
      BY <1>1, <3>2 DEF FlowOut, ApplyEvent
    <3>3. CASE d = b
      <4>1. b \notin Forward(b)
        <5>1. b \in Nat /\ ~(b < b)
          BY BlocksAreIndices
        <5> QED
          BY <2>2, <5>1
      <4>2. FlowOut(b)' = FlowOut(b)
        BY <2>4, <3>2, <3>3, <4>1
      <4> QED
        BY <2>1, <2>4, <2>6, <3>1, <3>3, <4>2
    <3>4. CASE d # b
      <4>1. d \in found /\ d \notin work /\ (d \in Forward(b) => merged(d) = flowIn[d])
        BY <2>1, <3>4
      <4>2. FlowOut(d)' = FlowOut(d)
        BY <2>4, <3>1, <3>2, <4>1
      <4>3. t \in found /\ Covers(flowIn[t], FlowOut(d))
        BY <2>1, <4>1 DEF PathInv
      <4> QED
        BY <2>1, <2>10, <3>1, <4>2, <4>3, CoversTransitive
    <3> QED
      BY <3>3, <3>4
  <2> QED
    BY <1>1, <2>8, <2>9, <2>11 DEF PathInv
<1> QED
  BY <1>2, <1>3 DEF Flow, FlowStep

\* Every other step leaves the dataflow alone.
LEMMA StepPathInv == FlowInv /\ PathInv /\ [PipelineNext]_pipelineVars => PathInv'
<1> SUFFICES ASSUME FlowInv, PathInv, [PipelineNext]_pipelineVars PROVE PathInv'
  OBVIOUS
<1>1. CASE Flow
  BY <1>1, FlowPathInv
<1>2. ASSUME UNCHANGED <<program, work, found, flowIn>>,
             stage' \in {"flow", "emitted"} => stage \in {"flow", "emitted"}
      PROVE  PathInv'
  <2>1. /\ PathEnvs' = PathEnvs /\ \A b : Forward(b)' = Forward(b)
        /\ \A b : FlowOut(b)' = FlowOut(b)
    BY <1>2 DEF PathEnvs, Forward, Targets, FlowOut, ApplyEvent
  <2> QED
    BY <1>2, <2>1 DEF PathInv, WithinMerge, Covers
<1>3. CASE Emit
  BY <1>2, <1>3 DEF Emit, FlowDone
<1>4. CASE VerifyFile
  BY <1>2, <1>4 DEF VerifyFile
<1>5. CASE Verify \/ Run \/ UNCHANGED pipelineVars
  BY <1>2, <1>5 DEF Verify, Run, flowVars, pipelineVars
<1> QED
  BY <1>1, <1>3, <1>4, <1>5 DEF PipelineNext

\* Once no block waits, every path into a block has been merged there.
LEMMA NoPathIsMissed ==
    ASSUME FlowInv, PathInv, stage \in {"flow", "emitted"}, work = {}
    PROVE  \A b \in Blocks : \A env \in PathEnvs[b] : b \in program.nodes =>
               b \in found /\ Covers(flowIn[b], env)
<1> DEFINE Merged(b) == \A env \in PathEnvs[b] : b \in found /\ Covers(flowIn[b], env)
           Bad == {b \in Blocks : b \in program.nodes /\ ~Merged(b)}
<1> SUFFICES ASSUME Bad # {} PROVE FALSE
  OBVIOUS
<1>1. PICK b \in Bad : \A c \in Bad : b <= c
  <2>1. Bad \in SUBSET Nat
    BY BlocksAreIndices
  <2> QED
    BY <2>1, LeastNatural
<1>2. program \in Programs /\ program.nodes \subseteq Blocks /\ b \in Blocks /\ b \in program.nodes
  BY <1>1, ProgramFields DEF FlowInv
<1>3. PICK env \in PathEnvs[b] : ~(b \in found /\ Covers(flowIn[b], env))
  BY <1>1
<1>4. \A c \in program.nodes : c \in Nat
  BY <1>2, BlocksAreIndices
<1>5. ~(b = FirstOf(program) /\ env = EmptyEnv)
  <2> SUFFICES ASSUME b = FirstOf(program), env = EmptyEnv
               PROVE  FALSE
    OBVIOUS
  <2>1. \E c \in program.nodes : \A d \in program.nodes : c <= d
    <3>1. program.nodes \in SUBSET Nat /\ program.nodes # {}
      BY <1>2, <1>4
    <3> QED
      BY <3>1, LeastNatural
  <2>2. \A c \in program.nodes : b <= c
    BY <2>1 DEF FirstOf
  <2>3. b \in found
    BY <1>2, <2>2 DEF FlowInv
  <2>4. Covers(flowIn[b], EmptyEnv)
    BY DEF Covers, EmptyEnv
  <2> QED
    BY <1>3, <2>3, <2>4
<1> HIDE DEF Bad
<1>6. PICK q, before :
        /\ q \in program.nodes
        /\ q < b /\ q \in Blocks /\ <<q, b>> \in program.edges
        /\ before \in PathEnvs[q]
        /\ env = ApplyEvent(program.event[q], before)
  BY <1>2, <1>3, <1>5, PathsBack
<1>7. q \in found /\ Covers(flowIn[q], before)
  <2>1. q \notin Bad
    BY <1>1, <1>2, <1>4, <1>6
  <2> QED
    BY <1>6, <2>1 DEF Bad
<1>8. b \in Forward(q)
  BY <1>2, <1>4, <1>6 DEF Forward, Targets
<1>9. b \in found /\ Covers(flowIn[b], FlowOut(q))
  BY <1>7, <1>8 DEF PathInv
<1>10. Covers(FlowOut(q), env)
  <2>1. before \in Envs /\ flowIn[q] \in Envs /\ program.event[q].binding \in Bindings
    BY <1>2, <1>6, PathsTyped, ProgramFields DEF FlowInv
  <2> QED
    BY <1>6, <1>7, <2>1, AppliedCovers DEF FlowOut
<1> QED
  BY <1>3, <1>9, <1>10, CoversTransitive

\* So the dataflow has computed the merge over the paths, and it still has when the
\* certificate is written.
LEMMA FlowIsExact ==
    ASSUME FlowInv, PathInv, stage \in {"flow", "emitted"}, work = {}
    PROVE  /\ \A b \in found : flowIn[b] = MergeAll(PathEnvs[b])
           /\ found = {b \in program.nodes : PathEnvs[b] # {}}
<1>1. program \in Programs /\ program.nodes \subseteq Blocks /\ found \subseteq program.nodes
  BY ProgramFields DEF FlowInv
<1>2. \A b \in found : flowIn[b] = MergeAll(PathEnvs[b])
  <2> SUFFICES ASSUME NEW b \in found PROVE flowIn[b] = MergeAll(PathEnvs[b])
    OBVIOUS
  <2>1. b \in Blocks /\ flowIn[b] \in Envs /\ PathEnvs[b] \in SUBSET Envs
    BY <1>1, PathsTyped DEF FlowInv
  <2>2. WithinMerge(flowIn[b], PathEnvs[b]) /\ \A e \in PathEnvs[b] : Covers(flowIn[b], e)
    BY <1>1, <2>1, NoPathIsMissed DEF PathInv
  <2> QED
    BY <2>1, <2>2, MergeIsExact
<1>3. ASSUME NEW b \in program.nodes, PathEnvs[b] # {}
      PROVE  b \in found
  BY <1>1, <1>3, NoPathIsMissed
<1>4. \A b \in found : PathEnvs[b] # {}
  BY DEF PathInv
<1> QED
  BY <1>1, <1>2, <1>3, <1>4

\* The dataflow of the emitter computes the merge over the forward paths of every function,
\* in every order of its worklist.
THEOREM DataflowIsExact == PipelineSpec => []DataflowMatchesPaths
<1>1. PipelineInit => PathInv
  BY DEF PipelineInit, FlowInit, PathInv
<1>2. PipelineInv /\ PathInv /\ [PipelineNext]_pipelineVars => PathInv'
  BY StepPathInv DEF PipelineInv
<1>3. PipelineInv /\ PathInv => DataflowMatchesPaths
  BY FlowIsExact DEF PipelineInv, DataflowMatchesPaths, FlowDone
<1> QED
  BY <1>1, <1>2, <1>3, PipelineInvariant, PTL DEF PipelineSpec

-----------------------------------------------------------------------------
(* The verdict on a function without loops.                                *)

\* What the verifier reads in a certificate the emitter wrote for a function without loops:
\* the function, with the environments of the dataflow, and no edge is excused.
LEMMA EmittedFields ==
    ASSUME FlowInv, stage = "emitted", program.facts = {}
    PROVE  /\ program \in Programs /\ program.nodes \in SUBSET Blocks
           /\ cert.nodes = program.nodes /\ cert.edges = program.edges
           /\ cert.exits = program.exits /\ cert.facts = {} /\ cert.invariants = {}
           /\ cert.entryEnv = EmptyEnv
           /\ cert.exitEnv = MergeAll({FlowOut(b) : b \in TerminalBlocks})
           /\ \A b \in Blocks : /\ cert.event[b].kind = program.event[b].kind
                                /\ cert.event[b].binding = program.event[b].binding
                                /\ cert.event[b].before = flowIn[b]
                                /\ cert.event[b].after = FlowOut(b)
           /\ \A b \in Blocks : \A env :
                 /\ ApplyEvent(cert.event[b], env) = ApplyEvent(program.event[b], env)
                 /\ EventAllowed(cert.event[b], env) <=> EventAllowed(program.event[b], env)
           /\ \A b, t : ~ExcusedBackEdge(b, t)
           /\ \A b, t \in Blocks : <<b, t>> \in program.edges =>
                 b \in program.nodes /\ t \in program.nodes /\ b < t
<1>1. cert = EmittedCertificate /\ program \in Programs
  BY DEF FlowInv
<1>2. /\ cert.nodes = program.nodes /\ cert.edges = program.edges /\ cert.exits = program.exits
      /\ cert.facts = {} /\ cert.invariants = {} /\ cert.entryEnv = EmptyEnv
      /\ cert.exitEnv = MergeAll({FlowOut(b) : b \in TerminalBlocks})
      /\ \A b \in Blocks : cert.event[b] = EmittedEvent(b)
  BY <1>1 DEF EmittedCertificate
<1>3. \A b \in Blocks : /\ cert.event[b].kind = program.event[b].kind
                        /\ cert.event[b].binding = program.event[b].binding
                        /\ cert.event[b].before = flowIn[b]
                        /\ cert.event[b].after = FlowOut(b)
  <2>1. \A b : /\ EmittedEvent(b).kind = program.event[b].kind
               /\ EmittedEvent(b).binding = program.event[b].binding
               /\ EmittedEvent(b).before = flowIn[b]
               /\ EmittedEvent(b).after = FlowOut(b)
    BY DEF EmittedEvent
  <2> QED
    BY <1>2, <2>1
<1>4. \A b \in Blocks : \A env :
        /\ ApplyEvent(cert.event[b], env) = ApplyEvent(program.event[b], env)
        /\ EventAllowed(cert.event[b], env) <=> EventAllowed(program.event[b], env)
  BY <1>3 DEF ApplyEvent, EventAllowed
<1>5. \A b, t : ~ExcusedBackEdge(b, t)
  BY <1>2 DEF ExcusedBackEdge
<1>6. \A b, t \in Blocks : <<b, t>> \in program.edges =>
        b \in program.nodes /\ t \in program.nodes /\ b < t
  <2> SUFFICES ASSUME NEW b \in Blocks, NEW t \in Blocks, <<b, t>> \in program.edges
               PROVE  b \in program.nodes /\ t \in program.nodes /\ b < t
    OBVIOUS
  <2>1. program.edges \subseteq program.nodes \X program.nodes
    BY <1>1, ProgramFields
  <2>2. ~(t <= b)
    BY <1>1, ProgramsAreLowered DEF Lowered
  <2> QED
    BY <2>1, <2>2, BlocksAreIndices
<1>7. program.nodes \in SUBSET Blocks
  BY <1>1, ProgramFields
<1> QED
  BY <1>1, <1>2, <1>3, <1>4, <1>5, <1>6, <1>7

\* The blocks a function is left from, and the environments it is left with.
Ways == {b \in program.nodes : b \in program.exits \/ Targets(b) = {}}

Left == UNION {{ApplyEvent(program.event[b], env) : env \in PathEnvs[b]} : b \in Ways}

\* What can be left with, block by block.
LEMMA LeftRule ==
    \A env : env \in Left <=>
        \E b \in Ways : \E before \in PathEnvs[b] : env = ApplyEvent(program.event[b], before)
BY DEF Left

\* LeavesSettled in these terms.
LEMMA SettledRule ==
    LeavesSettled <=> Cardinality(Left) <= 1 /\ \A env \in Left : Unresolved(env) = {}
BY DEF LeavesSettled, Left, Ways

\* There are finitely many environments to leave with.
LEMMA LeftFinite ==
    ASSUME program \in Programs
    PROVE  IsFiniteSet(Left)
<1> DEFINE after == [b \in Ways |-> [env \in PathEnvs[b] |-> ApplyEvent(program.event[b], env)]]
           from == [b \in Ways |-> {after[b][env] : env \in PathEnvs[b]}]
<1>1. Ways \in SUBSET Blocks
  BY ProgramFields DEF Ways
<1>2. IsFiniteSet(Ways)
  BY <1>1, BlocksFinite, FS_Subset
<1>3. ASSUME NEW b \in Ways PROVE IsFiniteSet(from[b])
  <2> DEFINE f == after[b]
  <2> HIDE DEF f
  <2>1. IsFiniteSet({f[env] : env \in PathEnvs[b]})
    BY <1>1, PathsFinite, ImageFinite
  <2> HIDE DEF after
  <2> QED
    BY <2>1 DEF f
<1>4. \A b \in Ways : from[b] = {ApplyEvent(program.event[b], env) : env \in PathEnvs[b]}
  OBVIOUS
<1> HIDE DEF from
<1>5. IsFiniteSet({from[b] : b \in Ways})
  BY <1>2, ImageFinite
<1>6. IsFiniteSet(UNION {from[b] : b \in Ways})
  BY <1>3, <1>5, FS_UNION
<1>7. Left = UNION {from[b] : b \in Ways}
  BY <1>4 DEF Left
<1> QED
  BY <1>6, <1>7

\* A finite set of at most one element does not have two.
LEMMA AtMostOne ==
    ASSUME NEW S, IsFiniteSet(S), Cardinality(S) <= 1, NEW x \in S
    PROVE  S = {x}
<1>1. Cardinality(S) \in Nat /\ Cardinality(S) # 0
  BY FS_CardinalityType, FS_EmptySet
<1>2. Cardinality(S) = 1
  BY <1>1
<1>3. \E y : S = {y}
  BY <1>2, FS_Singleton
<1> QED
  BY <1>3

\* A set without two different elements has at most one.
LEMMA OneAtMost ==
    ASSUME NEW S, NEW x, S \subseteq {x}
    PROVE  Cardinality(S) <= 1
<1>1. S = {} \/ S = {x}
  OBVIOUS
<1>2. Cardinality({}) = 0 /\ Cardinality({x}) = 1
  BY FS_EmptySet, FS_Singleton
<1> QED
  BY <1>1, <1>2

\* The merge of a single environment.
LEMMA SingleMerge ==
    ASSUME NEW env \in Envs
    PROVE  MergeAll({env}) = env
<1>1. WithinMerge(env, {env}) /\ \A e \in {env} : Covers(env, e)
  BY DEF WithinMerge, Covers
<1>2. {env} \in SUBSET Envs
  OBVIOUS
<1> QED
  BY <1>1, <1>2, MergeIsExact

\* The three conditions of VerdictExact.
Clean == PathsAgree /\ LeavesSettled /\ EventsFit

\* Where the paths agree, the dataflow has the one environment they agree on.
LEMMA OnePath ==
    ASSUME FlowInv, PathInv, stage = "emitted", PathsAgree,
           NEW b \in program.nodes, NEW env \in PathEnvs[b]
    PROVE  PathEnvs[b] = {env} /\ b \in found /\ flowIn[b] = env
<1>1. program \in Programs /\ b \in Blocks /\ work = {}
  BY ProgramFields DEF FlowInv
<1>2. PathEnvs[b] = {env}
  BY <1>1, PathsFinite, AtMostOne DEF PathsAgree
<1>3. b \in found /\ flowIn[b] = MergeAll(PathEnvs[b])
  BY <1>1, FlowIsExact
<1>4. env \in Envs
  BY <1>1, PathsTyped
<1> QED
  BY <1>2, <1>3, <1>4, SingleMerge

\* What the replay has fixed of such a function, and why it may have stopped.
VerdictInv ==
    /\ phase = "waiting" => terminal = {}
    /\ stage = "emitted" /\ program.facts = {} /\ program.nodes # {} =>
          /\ \A b \in reached : entry[b] \in PathEnvs[b]
          /\ \A env \in terminal : \E b \in reached \cap Ways :
                env = ApplyEvent(program.event[b], entry[b])
          /\ phase \in {"loops", "exits", "accepted"} => EventBlocks \subseteq checked
          /\ phase = "accepted" => \A env \in terminal : env = cert.exitEnv
          /\ phase = "rejected" => ~Clean

\* Once no block waits for its replay, every path has been replayed.
LEMMA PathsAreReplayed ==
    ASSUME FlowInv, ReplayTypeOK, ReplaySound, stage = "emitted", program.facts = {},
           program.nodes # {}, queue = {}, phase # "waiting"
    PROVE  \A b \in Blocks : \A env \in PathEnvs[b] :
               b \in reached /\ env = entry[b] /\ Replayed(b)
<1> DEFINE Bad == {b \in Blocks : ~\A env \in PathEnvs[b] : b \in reached /\ env = entry[b]}
<1>1. /\ program \in Programs /\ program.nodes \in SUBSET Blocks
      /\ cert.nodes = program.nodes /\ cert.edges = program.edges /\ cert.entryEnv = EmptyEnv
      /\ \A b \in Blocks : \A env :
            ApplyEvent(cert.event[b], env) = ApplyEvent(program.event[b], env)
      /\ \A b, t : ~ExcusedBackEdge(b, t)
  BY EmittedFields
<1>2. ASSUME Bad # {} PROVE FALSE
  <2>1. PICK b \in Bad : \A c \in Bad : b <= c
    <3>1. Bad \in SUBSET Nat
      BY BlocksAreIndices
    <3> QED
      BY <1>2, <3>1, LeastNatural
  <2>2. PICK env \in PathEnvs[b] : ~(b \in reached /\ env = entry[b])
    BY <2>1
  <2>3. b \in Blocks
    BY <2>1
  <2>4. ~(b = FirstOf(program) /\ env = EmptyEnv)
    <3>1. FirstBlock(cert) = FirstOf(program)
      BY <1>1 DEF FirstBlock, FirstOf
    <3>2. FirstBlock(cert) \in reached /\ entry[FirstBlock(cert)] = EmptyEnv
      BY <1>1 DEF ReplaySound
    <3> QED
      BY <2>2, <3>1, <3>2
  <2> HIDE DEF Bad
  <2>5. PICK q, before :
          /\ q \in program.nodes
          /\ q < b /\ q \in Blocks /\ <<q, b>> \in program.edges
          /\ before \in PathEnvs[q]
          /\ env = ApplyEvent(program.event[q], before)
    BY <1>1, <2>2, <2>3, <2>4, PathsBack
  <2>6. q \in reached /\ before = entry[q]
    <3>1. q \in Nat /\ b \in Nat
      BY <2>3, <2>5, BlocksAreIndices
    <3>2. q \notin Bad
      BY <2>1, <2>5, <3>1
    <3> QED
      BY <2>5, <3>2 DEF Bad
  <2>7. Replayed(q)
    BY <2>6 DEF ReplaySound
  <2>8. b \in Successors(q)
    BY <1>1, <2>3, <2>5 DEF Successors
  <2>9. b \in reached /\ entry[b] = ApplyEvent(cert.event[q], entry[q])
    BY <1>1, <2>7, <2>8 DEF Replayed
  <2> QED
    BY <1>1, <2>2, <2>5, <2>6, <2>9
<1>3. \A b \in reached : Replayed(b)
  BY DEF ReplaySound
<1> QED
  BY <1>2, <1>3

\* A block of a clean function replays: its claims are those of the dataflow, which are the
\* environment the replay is in.
LEMMA CleanBlockReplays ==
    ASSUME FlowInv, PathInv, ReplayTypeOK, VerdictInv, stage = "emitted", program.facts = {},
           program.nodes # {}, Clean, NEW b \in Blocks, b \in reached
    PROVE  BlockReplays(b)
<1> DEFINE out == ApplyEvent(program.event[b], entry[b])
<1>1. /\ program \in Programs /\ program.nodes \in SUBSET Blocks
      /\ cert.nodes = program.nodes /\ cert.edges = program.edges /\ cert.exits = program.exits
      /\ cert.event[b].kind = program.event[b].kind
      /\ cert.event[b].before = flowIn[b] /\ cert.event[b].after = FlowOut(b)
      /\ \A env :
           /\ ApplyEvent(cert.event[b], env) = ApplyEvent(program.event[b], env)
           /\ EventAllowed(cert.event[b], env) <=> EventAllowed(program.event[b], env)
      /\ \A d, t \in Blocks : <<d, t>> \in program.edges =>
            d \in program.nodes /\ t \in program.nodes /\ d < t
  BY EmittedFields
<1>2. reached \subseteq program.nodes /\ \A d \in reached : entry[d] \in PathEnvs[d]
  BY <1>1 DEF ReplayTypeOK, VerdictInv
<1>3. flowIn[b] = entry[b]
  BY <1>2, OnePath DEF Clean
<1>4. EventMatches(b)
  <2>1. program.event[b].kind # "none" => EventAllowed(program.event[b], entry[b])
    BY <1>2 DEF Clean, EventsFit
  <2> QED
    BY <1>1, <1>3, <2>1 DEF EventMatches, FlowOut
<1>5. b \in cert.exits => Unresolved(out) = {}
  <2> SUFFICES ASSUME b \in program.exits PROVE Unresolved(out) = {}
    BY <1>1
  <2>1. b \in Ways
    BY <1>2 DEF Ways
  <2>2. out \in Left
    BY <1>2, <2>1, LeftRule
  <2> QED
    BY <2>2, SettledRule DEF Clean
<1>6. ASSUME NEW t \in Successors(b)
      PROVE  t \in cert.nodes /\ (t \in reached => entry[t] = out)
  <2>1. t \in program.nodes /\ t \in Blocks /\ b \in program.nodes /\ b < t /\ <<b, t>> \in program.edges
    BY <1>1 DEF Successors
  <2>2. out \in PathEnvs[t]
    BY <1>1, <1>2, <2>1, PathsNext
  <2>3. t \in reached => entry[t] = out
    BY <1>2, <2>1, <2>2, OnePath DEF Clean
  <2> QED
    BY <1>1, <2>1, <2>3
<1> QED
  BY <1>1, <1>4, <1>5, <1>6 DEF BlockReplays, EdgesMatch

\* And it is left with the exit environment of the certificate.
LEMMA CleanExits ==
    ASSUME FlowInv, PathInv, ReplayTypeOK, VerdictInv, stage = "emitted", program.facts = {},
           program.nodes # {}, Clean, NEW env \in terminal
    PROVE  env = cert.exitEnv /\ Unresolved(env) = {}
<1>1. /\ program \in Programs /\ program.nodes \in SUBSET Blocks
      /\ cert.nodes = program.nodes
      /\ cert.exitEnv = MergeAll({FlowOut(b) : b \in TerminalBlocks})
  BY EmittedFields
<1>2. PICK b \in reached \cap Ways : env = ApplyEvent(program.event[b], entry[b])
  BY DEF VerdictInv
<1>3. b \in program.nodes /\ b \in Blocks /\ entry[b] \in PathEnvs[b]
  BY <1>1, <1>2 DEF Ways, VerdictInv
<1>4. env \in Left
  BY <1>2, <1>3, LeftRule
<1>5. Left = {env}
  BY <1>1, <1>4, LeftFinite, AtMostOne, SettledRule DEF Clean
<1>6. \A d \in TerminalBlocks : FlowOut(d) \in Left
  <2> SUFFICES ASSUME NEW d \in TerminalBlocks PROVE FlowOut(d) \in Left
    OBVIOUS
  <2>1. d \in Ways /\ d \in program.nodes /\ d \in found
    BY DEF TerminalBlocks, Ways, FlowInv
  <2>2. PICK e \in PathEnvs[d] : TRUE
    BY <2>1 DEF PathInv
  <2>3. flowIn[d] = e
    BY <2>1, OnePath DEF Clean
  <2> QED
    BY <2>1, <2>3, LeftRule DEF FlowOut
<1>7. b \in TerminalBlocks /\ FlowOut(b) = env
  <2>1. b \in found /\ flowIn[b] = entry[b]
    BY <1>3, OnePath DEF Clean
  <2> QED
    BY <1>2, <2>1 DEF TerminalBlocks, Ways, FlowOut
<1>8. {FlowOut(d) : d \in TerminalBlocks} = {env}
  BY <1>5, <1>6, <1>7
<1>9. env \in Envs
  BY DEF ReplayTypeOK
<1> QED
  BY <1>1, <1>4, <1>8, <1>9, SingleMerge, SettledRule DEF Clean

\* The verdict's invariant depends on the certificate's way into the verifier and on its
\* replay only.
LEMMA VerdictFixed ==
    ASSUME program' = program
    PROVE  /\ PathEnvs' = PathEnvs /\ Ways' = Ways /\ (Clean' <=> Clean)
           /\ \A b : Targets(b)' = Targets(b)
<1>1. PathEnvs' = PathEnvs
  BY DEF PathEnvs
<1>2. \A b : Targets(b)' = Targets(b)
  BY DEF Targets
<1>3. Ways' = Ways
  BY <1>2 DEF Ways
<1>4. PathsAgree' <=> PathsAgree
  BY <1>1 DEF PathsAgree
<1>5. LeavesSettled' <=> LeavesSettled
  <2>1. Left' = Left
    BY <1>1, <1>3 DEF Left, ApplyEvent
  <2>2. LeavesSettled' <=> (Cardinality(Left) <= 1 /\ \A env \in Left : Unresolved(env) = {})'
    BY SettledRule, PTL
  <2> QED
    BY <2>1, <2>2, SettledRule DEF Unresolved
<1>6. EventsFit' <=> EventsFit
  BY <1>1 DEF EventsFit, EventAllowed
<1> QED
  BY <1>1, <1>2, <1>3, <1>4, <1>5, <1>6 DEF Clean

\* A replayed block hands on an environment of a path.
LEMMA ReplayKeepsPaths ==
    ASSUME FlowInv, ReplayTypeOK, VerdictInv, stage = "emitted", program.facts = {},
           program.nodes # {}, UNCHANGED flowVars, NEW b \in Blocks, ReplayBlock(b)
    PROVE  VerdictInv'
<1> DEFINE out == ApplyEvent(program.event[b], entry[b])
           new == Successors(b) \ reached
<1>1. /\ program \in Programs /\ program.nodes \in SUBSET Blocks
      /\ cert.nodes = program.nodes /\ cert.edges = program.edges /\ cert.exits = program.exits
      /\ ApplyEvent(cert.event[b], entry[b]) = out
      /\ \A d, t \in Blocks : <<d, t>> \in program.edges =>
            d \in program.nodes /\ t \in program.nodes /\ d < t
  BY EmittedFields
<1>2. /\ program' = program /\ PathEnvs' = PathEnvs /\ Ways' = Ways
  BY VerdictFixed DEF flowVars
<1>3. /\ b \in queue /\ phase = "replay" /\ phase' = phase /\ cert' = cert
      /\ reached' = reached \cup new
      /\ entry' = [t \in Blocks |-> IF t \in new THEN out ELSE entry[t]]
      /\ terminal' = IF b \in cert.exits \/ Successors(b) = {}
                       THEN terminal \cup {out} ELSE terminal
  BY <1>1 DEF ReplayBlock
<1>4. b \in reached /\ b \in program.nodes /\ reached \subseteq Blocks /\ b \notin new
  BY <1>1, <1>3 DEF ReplayTypeOK
<1>5. \A t \in new : out \in PathEnvs[t] /\ t \in Blocks
  <2> SUFFICES ASSUME NEW t \in new PROVE out \in PathEnvs[t] /\ t \in Blocks
    OBVIOUS
  <2>1. t \in Blocks /\ <<b, t>> \in program.edges /\ b < t
    BY <1>1 DEF Successors
  <2>2. entry[b] \in PathEnvs[b]
    BY <1>4 DEF VerdictInv
  <2> QED
    BY <1>1, <1>4, <2>1, <2>2, PathsNext
<1> HIDE DEF new, out
<1>6. \A t \in reached : entry'[t] = entry[t]
  <2>1. \A t \in reached : t \notin new
    BY DEF new
  <2> QED
    BY <1>3, <1>4, <2>1
<1>7. \A t \in reached' : entry'[t] \in PathEnvs[t]
  BY <1>3, <1>5, <1>6 DEF VerdictInv
<1>8. Targets(b) = Successors(b)
  BY <1>1 DEF Targets, Successors
<1>9. ASSUME NEW env \in terminal'
      PROVE  \E d \in reached' \cap Ways : env = ApplyEvent(program.event[d], entry'[d])
  <2>1. CASE env \in terminal
    BY <1>3, <1>6, <2>1 DEF VerdictInv
  <2>2. CASE env \notin terminal
    <3>1. env = out /\ b \in Ways
      BY <1>1, <1>3, <1>4, <1>8, <1>9, <2>2 DEF Ways
    <3> QED
      BY <1>3, <1>4, <1>6, <3>1 DEF out
  <2> QED
    BY <2>1, <2>2
<1>10. \A env \in terminal' :
         \E d \in (reached \cap Ways)' : env = ApplyEvent(program.event[d], entry[d])'
  BY <1>2, <1>9 DEF ApplyEvent
<1> HIDE DEF Clean, Ways, PathEnvs, EventBlocks
<1> QED
  BY <1>2, <1>3, <1>7, <1>10 DEF VerdictInv

\* The verifier's own steps keep the invariant.
LEMMA VerifyVerdictInv ==
    ASSUME FlowInv, PathInv, ReplayTypeOK, ReplaySound, VerdictInv, stage = "emitted",
           program.facts = {}, program.nodes # {}, UNCHANGED flowVars, VerifierStep
    PROVE  VerdictInv'
<1>1. /\ program' = program /\ PathEnvs' = PathEnvs /\ Ways' = Ways /\ (Clean' <=> Clean)
  BY VerdictFixed DEF flowVars
<1> DEFINE kept == UNCHANGED <<cert, queue, reached, entry, exit, terminal, checked>>
<1>2. ASSUME kept, phase' # "waiting",
             phase' \in {"loops", "exits", "accepted"} => EventBlocks \subseteq checked,
             phase' = "accepted" => \A env \in terminal : env = cert.exitEnv,
             phase' = "rejected" => ~Clean
      PROVE  VerdictInv'
  <2>1. EventBlocks' = EventBlocks
    BY <1>2 DEF EventBlocks
  <2>2. \A env \in terminal : \E d \in reached \cap Ways : env = ApplyEvent(program.event[d], entry[d])
    BY DEF VerdictInv
  <2>3. \A d \in reached : entry[d] \in PathEnvs[d]
    BY DEF VerdictInv
  <2> HIDE DEF Clean, Ways, PathEnvs, EventBlocks
  <2> QED
    BY <1>1, <1>2, <2>1, <2>2, <2>3 DEF VerdictInv, ApplyEvent
<1>3. CASE \E b \in Blocks : ReplayBlock(b)
  BY <1>3, ReplayKeepsPaths
<1>4. CASE \E b \in Blocks : RejectBlock(b)
  <2>1. PICK b \in Blocks : RejectBlock(b)
    BY <1>4
  <2>2. b \in reached /\ ~BlockReplays(b) /\ phase' = "rejected" /\ kept
    BY <2>1 DEF RejectBlock, ReplayTypeOK
  <2>3. ~Clean
    BY <2>2, CleanBlockReplays
  <2> QED
    BY <1>2, <2>2, <2>3
<1>5. CASE FinishReplay
  <2> DEFINE complete == /\ \A e \in cert.edges : e[1] \in cert.nodes
                         /\ EventBlocks \subseteq checked
  <2>1. /\ kept /\ phase = "replay" /\ queue = {}
        /\ phase' = IF complete THEN "loops" ELSE "rejected"
    BY <1>5 DEF FinishReplay
  <2>2. ASSUME Clean PROVE complete
    <3>1. /\ cert.nodes = program.nodes /\ cert.edges = program.edges /\ program \in Programs
          /\ \A b \in Blocks : cert.event[b].kind = program.event[b].kind
      BY EmittedFields
    <3>2. \A e \in cert.edges : e[1] \in cert.nodes
      BY <3>1, ProgramFields
    <3>3. ASSUME NEW b \in EventBlocks PROVE b \in checked
      <4>1. b \in Blocks /\ program.event[b].kind # "none"
        BY <3>1 DEF EventBlocks
      <4>2. PICK env \in PathEnvs[b] : TRUE
        BY <2>2, <4>1 DEF Clean, EventsFit
      <4>3. Replayed(b)
        BY <2>1, <4>1, PathsAreReplayed
      <4> QED
        BY <4>3 DEF Replayed
    <3> QED
      BY <3>2, <3>3
  <2> HIDE DEF Clean, complete
  <2>3. phase' = "rejected" => ~Clean
    BY <2>1, <2>2
  <2>4. phase' = "loops" => EventBlocks \subseteq checked
    BY <2>1 DEF complete
  <2> QED
    BY <1>2, <2>1, <2>3, <2>4
<1>6. CASE CheckLoops
  <2>1. cert.facts = {} /\ cert.invariants = {}
    BY EmittedFields
  <2>2. kept /\ phase = "loops" /\ phase' = "exits"
    BY <1>6, <2>1 DEF CheckLoops
  <2>3. EventBlocks \subseteq checked
    BY <2>2 DEF VerdictInv
  <2> QED
    BY <1>2, <2>2, <2>3
<1>7. CASE CheckExits
  <2>1. /\ kept /\ phase = "exits"
        /\ phase' = IF \A env \in terminal : env = cert.exitEnv /\ Unresolved(env) = {}
                      THEN "accepted" ELSE "rejected"
    BY <1>7 DEF CheckExits
  <2>2. EventBlocks \subseteq checked
    BY <2>1 DEF VerdictInv
  <2>3. phase' = "rejected" => ~Clean
    BY <2>1, CleanExits
  <2>4. phase' = "accepted" => \A env \in terminal : env = cert.exitEnv
    BY <2>1
  <2>5. phase' \in {"accepted", "rejected"}
    BY <2>1
  <2> QED
    BY <1>2, <2>1, <2>2, <2>3, <2>4, <2>5
<1> QED
  BY <1>3, <1>4, <1>5, <1>6, <1>7 DEF VerifierStep

\* The certificate of the emitter enters the verifier with the environment of the start.
LEMMA EmitVerdictInv ==
    ASSUME PipelineInv, VerdictInv, Emit
    PROVE  VerdictInv'
<1>1. /\ program' = program /\ PathEnvs' = PathEnvs /\ program \in Programs
      /\ phase = "waiting" /\ terminal' = terminal /\ terminal = {} /\ reached = {}
      /\ Receive(EmittedCertificate)
  BY VerdictFixed DEF Emit, Receive, PipelineInv, FlowInv, Fresh, VerdictInv
<1> DEFINE first == FirstBlock(EmittedCertificate)
<1>2. EmittedCertificate.nodes = program.nodes /\ EmittedCertificate.entryEnv = EmptyEnv
  BY DEF EmittedCertificate
<1>3. CASE program.nodes = {}
  <2>1. phase' = "loops"
    BY <1>1, <1>2, <1>3 DEF Receive
  <2> QED
    BY <1>1, <1>3, <2>1 DEF VerdictInv
<1>4. CASE program.nodes # {}
  <2>1. /\ phase' = "replay" /\ reached' = {first}
        /\ entry' = [entry EXCEPT ![first] = EmptyEnv]
    BY <1>1, <1>2, <1>4 DEF Receive
  <2>2. first \in program.nodes /\ \A c \in program.nodes : first <= c
    <3>1. program.nodes \in SUBSET Nat
      BY <1>1, ProgramFields, BlocksAreIndices
    <3>2. \E b \in program.nodes : \A c \in program.nodes : b <= c
      BY <1>4, <3>1, LeastNatural
    <3>3. first = CHOOSE b \in program.nodes : \A c \in program.nodes : b <= c
      BY <1>2 DEF FirstBlock
    <3> HIDE DEF first
    <3> QED
      BY <3>2, <3>3
  <2> HIDE DEF first
  <2>3. first \in Blocks /\ EmptyEnv \in PathEnvs[first]
    BY <1>1, <2>2, PathsStart, ProgramFields
  <2>4. entry'[first] = EmptyEnv
    BY <2>1, <2>3 DEF PipelineInv, TypeOK, ReplayTypeOK
  <2> QED
    BY <1>1, <2>1, <2>3, <2>4 DEF VerdictInv
<1> QED
  BY <1>3, <1>4

\* The pipeline keeps the invariant of the verdict.
LEMMA StepVerdictInv ==
    PipelineInv /\ PathInv /\ VerdictInv /\ [PipelineNext]_pipelineVars => VerdictInv'
<1> SUFFICES ASSUME PipelineInv, PathInv, VerdictInv, [PipelineNext]_pipelineVars
             PROVE  VerdictInv'
  OBVIOUS
<1>1. FlowInv /\ ReplayTypeOK /\ ReplaySound
  BY DEF PipelineInv, SoundInv, TypeOK
<1>2. CASE Flow
  <2>1. /\ phase' = phase /\ terminal' = terminal /\ stage' # "emitted"
    BY <1>2 DEF Flow, FlowStep, StartFlow, FlowBlock, vars, replayVars
  <2> QED
    BY <2>1 DEF VerdictInv
<1>3. CASE Emit
  BY <1>3, EmitVerdictInv
<1>4. CASE VerifyFile
  <2>1. /\ stage' # "emitted" /\ phase' # "waiting"
    BY <1>4 DEF VerifyFile, Submit, Receive
  <2> QED
    BY <2>1 DEF VerdictInv
<1>5. CASE Verify
  <2>1. UNCHANGED flowVars /\ VerifierStep
    BY <1>5 DEF Verify
  <2>2. CASE stage = "emitted" /\ program.facts = {} /\ program.nodes # {}
    BY <1>1, <2>1, <2>2, VerifyVerdictInv
  <2>3. CASE ~(stage = "emitted" /\ program.facts = {} /\ program.nodes # {})
    <3>1. stage' = stage /\ program' = program
      BY <2>1 DEF flowVars
    <3>2. phase' # "waiting"
      BY <2>1 DEF VerifierStep, ReplayBlock, RejectBlock, FinishReplay, CheckLoops, CheckExits
    <3> QED
      BY <2>3, <3>1, <3>2 DEF VerdictInv
  <2> QED
    BY <2>2, <2>3
<1>6. CASE Run \/ UNCHANGED pipelineVars
  <2>1. UNCHANGED flowVars /\ UNCHANGED replayVars
    BY <1>6 DEF Run, RunStep, StartRun, RunBlock, pipelineVars, vars
  <2>2. /\ program' = program /\ PathEnvs' = PathEnvs /\ Ways' = Ways /\ (Clean' <=> Clean)
    BY <2>1, VerdictFixed DEF flowVars
  <2>3. EventBlocks' = EventBlocks
    BY <2>1 DEF EventBlocks, replayVars
  <2> HIDE DEF Clean, Ways, PathEnvs, EventBlocks
  <2> QED
    BY <2>1, <2>2, <2>3 DEF VerdictInv, ApplyEvent, flowVars, replayVars
<1> QED
  BY <1>2, <1>3, <1>4, <1>5, <1>6 DEF PipelineNext

\* An accepted function without loops is clean.
LEMMA AcceptedIsClean ==
    ASSUME FlowInv, PathInv, ReplayTypeOK, ReplaySound, VerdictInv, stage = "emitted",
           program.facts = {}, program.nodes # {}, phase = "accepted"
    PROVE  Clean
<1>1. /\ program \in Programs /\ program.nodes \in SUBSET Blocks
      /\ cert.edges = program.edges /\ cert.exits = program.exits
      /\ cert.nodes = program.nodes
      /\ \A b \in Blocks : /\ cert.event[b].kind = program.event[b].kind
      /\ \A b \in Blocks : \A env :
            /\ ApplyEvent(cert.event[b], env) = ApplyEvent(program.event[b], env)
            /\ EventAllowed(cert.event[b], env) <=> EventAllowed(program.event[b], env)
  BY EmittedFields
<1>2. queue = {}
  BY DEF ReplaySound
<1>3. \A b \in Blocks : \A env \in PathEnvs[b] : b \in reached /\ env = entry[b] /\ Replayed(b)
  BY <1>2, PathsAreReplayed
<1>4. PathsAgree
  <2> SUFFICES ASSUME NEW b \in program.nodes PROVE Cardinality(PathEnvs[b]) <= 1
    BY DEF PathsAgree
  <2>1. PathEnvs[b] \subseteq {entry[b]}
    BY <1>1, <1>3
  <2> QED
    BY <2>1, OneAtMost
<1>5. LeavesSettled
  <2>1. ASSUME NEW env \in Left PROVE env = cert.exitEnv /\ Unresolved(env) = {}
    <3>1. PICK b \in Ways : \E before \in PathEnvs[b] : env = ApplyEvent(program.event[b], before)
      BY LeftRule
    <3>2. PICK before \in PathEnvs[b] : env = ApplyEvent(program.event[b], before)
      BY <3>1
    <3>3. b \in Blocks /\ (b \in program.exits \/ Targets(b) = {})
      BY <1>1 DEF Ways
    <3>4. Replayed(b) /\ env = ApplyEvent(cert.event[b], entry[b])
      BY <1>1, <1>3, <3>2, <3>3
    <3>5. b \in cert.exits \/ Successors(b) = {}
      BY <1>1, <3>3 DEF Targets, Successors
    <3>6. env \in terminal
      BY <3>4, <3>5 DEF Replayed
    <3> QED
      BY <3>6 DEF VerdictInv, ReplaySound
  <2>2. Left \subseteq {cert.exitEnv}
    BY <2>1
  <2>3. Cardinality(Left) <= 1
    BY <2>2, OneAtMost
  <2> QED
    BY <2>1, <2>3, SettledRule
<1>6. EventsFit
  <2> SUFFICES ASSUME NEW b \in Blocks, program.event[b].kind # "none"
               PROVE  /\ b \in program.nodes /\ PathEnvs[b] # {}
                      /\ \A env \in PathEnvs[b] : EventAllowed(program.event[b], env)
    BY DEF EventsFit
  <2>1. b \in reached
    <3>1. b \in EventBlocks
      BY <1>1 DEF EventBlocks
    <3> QED
      BY <3>1 DEF VerdictInv, ReplayTypeOK
  <2>2. b \in program.nodes /\ entry[b] \in PathEnvs[b]
    BY <1>1, <2>1 DEF VerdictInv, ReplayTypeOK
  <2>3. EventAllowed(cert.event[b], entry[b])
    <3>1. EventMatches(b)
      BY <1>3, <2>2 DEF Replayed
    <3> QED
      BY <1>1, <3>1 DEF EventMatches
  <2> QED
    BY <1>1, <1>3, <2>2, <2>3
<1> QED
  BY <1>4, <1>5, <1>6 DEF Clean

\* Of the functions without loops the verifier accepts exactly those whose paths agree, whose
\* ways out are settled and whose events fit: for every function, whatever its size.
THEOREM VerdictIsExact == PipelineSpec => []VerdictExact
<1>1. PipelineInit => PathInv /\ VerdictInv
  BY DEF PipelineInit, FlowInit, Init, ReplayInit, PathInv, VerdictInv
<1>2. PipelineInv /\ PathInv /\ [PipelineNext]_pipelineVars => PathInv'
  BY StepPathInv DEF PipelineInv
<1>3. PipelineInv /\ PathInv /\ VerdictInv => VerdictExact
  <2> SUFFICES ASSUME PipelineInv, PathInv, VerdictInv,
                      phase \in Verdicts, program.facts = {}, program.nodes # {}
               PROVE  phase = "accepted" <=> Clean
    BY DEF VerdictExact, Clean
  <2>1. FlowInv /\ ReplayTypeOK /\ ReplaySound
    BY DEF PipelineInv, SoundInv, TypeOK
  <2>2. stage = "emitted"
    BY <2>1 DEF FlowInv, Verdicts
  <2>3. phase = "accepted" => Clean
    BY <2>1, <2>2, AcceptedIsClean
  <2>4. phase = "rejected" => ~Clean
    BY <2>2 DEF VerdictInv
  <2> QED
    BY <2>3, <2>4 DEF Verdicts
<1> QED
  BY <1>1, <1>2, <1>3, StepVerdictInv, PipelineInvariant, PTL DEF PipelineSpec
=============================================================================
