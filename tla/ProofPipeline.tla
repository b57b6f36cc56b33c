---------------------------- MODULE ProofPipeline ----------------------------
(***************************************************************************)
(* A function's way from Core to a proof artifact: the emitter's dataflow, *)
(* the certificate it writes, verify_before_write on that certificate, and *)
(* the runs of the function a written artifact speaks for.  The same       *)
(* verifier also decides on a certificate read from a file.                *)
(***************************************************************************)
EXTENDS ObligationDataflow, CertifiedRun

pipelineVars == <<flowVars, vars>>

PipelineInit == FlowInit /\ Init

Flow == FlowStep /\ UNCHANGED vars

\* emit_proof_certificate, then verify_certificate on the result.
Emit ==
    /\ FlowDone /\ phase = "waiting"
    /\ stage' = "emitted"
    /\ \E c \in {EmittedCertificate} : Receive(c)
    /\ UNCHANGED <<program, region, work, found, flowIn, runVars>>

\* kobo proof verify: no program is compiled, and the certificate is whatever
\* the file says.
VerifyFile ==
    /\ stage = "start" /\ program.nodes = {}
    /\ stage' = "file"
    /\ Submit
    /\ UNCHANGED <<program, region, work, found, flowIn, runVars>>

Verify == VerifierStep /\ UNCHANGED <<flowVars, runVars>>

Run == RunStep /\ UNCHANGED flowVars

PipelineNext == Flow \/ Emit \/ VerifyFile \/ Verify \/ Run

PipelineSpec ==
    PipelineInit /\ [][PipelineNext]_pipelineVars /\ WF_pipelineVars(Flow \/ Emit \/ Verify)

-----------------------------------------------------------------------------

\* In every order of the worklist the dataflow ends with the merge over the
\* forward paths: nothing of a path is lost and nothing stale stays behind.
DataflowMatchesPaths ==
    FlowDone => /\ \A b \in found : flowIn[b] = MergeAll(PathEnvs[b])
                /\ found = {b \in program.nodes : PathEnvs[b] # {}}

\* What a function must be for its artifact to be written: every forward path
\* reaches a block with the same environment, every event is reachable and
\* allowed there, and every way out leaves nothing unresolved and the same
\* statuses.
PathsAgree == \A b \in program.nodes : Cardinality(PathEnvs[b]) <= 1

LeavesSettled ==
    LET ways == {b \in program.nodes : b \in program.exits \/ Targets(b) = {}}
        left == UNION {{ApplyEvent(program.event[b], env) : env \in PathEnvs[b]} : b \in ways}
    IN  Cardinality(left) <= 1 /\ \A env \in left : Unresolved(env) = {}

EventsFit ==
    \A b \in Blocks : program.event[b].kind # "none" =>
        /\ b \in program.nodes /\ PathEnvs[b] # {}
        /\ \A env \in PathEnvs[b] : EventAllowed(program.event[b], env)

\* Without loops that is exactly what the verifier accepts of the emitter's
\* output: it neither lets a bad function through nor stops a good one.
VerdictExact ==
    (phase \in Verdicts /\ program.facts = {} /\ program.nodes # {}) =>
        (phase = "accepted" <=> PathsAgree /\ LeavesSettled /\ EventsFit)

\* The verifier believes the loop_regions the emitter writes: the region the
\* emitter computes is one the soundness argument can use.
EmitterMarksRegions == stage = "emitted" => RegionsHonest

\* The dataflow and the replay both terminate, on every graph.
ArtifactDecided == <>(phase \in Verdicts)
=============================================================================
