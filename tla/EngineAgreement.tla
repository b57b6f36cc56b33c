-------------------------- MODULE EngineAgreement --------------------------
(***************************************************************************)
(* A full-depth run of kobo-sim-core: the semantic engine executes the     *)
(* scenario, then check_harness_agreement (harness/agreement.rs) decides   *)
(* whether a generated harness is run at all, compares the two traces and  *)
(* settles agreement, replay guarantee and failure of the run.             *)
(***************************************************************************)
EXTENDS SemanticEngine, GeneratedHarness

VARIABLE harness   \* the trace the generated harness printed

vars == <<semanticVars, harness>>

Init == SemanticInit /\ harness = << >>

Execute == ExecuteOperation /\ UNCHANGED harness

FinishExecution == Finish /\ UNCHANGED harness

-----------------------------------------------------------------------------
Settled == /\ stage' = "done"
           /\ UNCHANGED <<shape, options, program, obligations, storage, network,
                          injected, opaque>>

\* run_full_depth_from_program without a harness.
SemanticOnly ==
  /\ stage = "check"
  /\ options.engine = "semantic"
  /\ guarantee' = "partial"
  /\ Settled
  /\ UNCHANGED <<agreement, failure, events, harness>>

WithHarness == stage = "check" /\ options.engine = "both"

Unexecutable == failure.code \in {"K0102", "K0103", "K0105", "K0107"}

\* The run is returned as the semantic engine left it.
SkipHarness ==
  /\ WithHarness
  /\ Unexecutable
  /\ Settled
  /\ UNCHANGED <<agreement, guarantee, failure, events, harness>>

\* A construct that blocks replay replaces the failure that was found.
CoverageIncomplete ==
  /\ WithHarness
  /\ ~Unexecutable
  /\ options.coverage = "blocking"
  /\ agreement' = "coverage-incomplete"
  /\ guarantee' = "partial"
  /\ failure' = [code |-> "K0116", events |-> << >>]
  /\ Settled
  /\ UNCHANGED <<events, harness>>

\* The one construct that does not block replay still prevents the harness.
LifecycleOnly ==
  /\ WithHarness
  /\ ~Unexecutable
  /\ options.coverage = "lifecycle"
  /\ agreement' = "semantic-only"
  /\ Settled
  /\ UNCHANGED <<guarantee, failure, events, harness>>

BoundaryPartial ==
  /\ WithHarness
  /\ ~Unexecutable
  /\ options.coverage = "full"
  /\ opaque
  /\ agreement' = "partial-boundary"
  /\ guarantee' = "partial"
  /\ Settled
  /\ UNCHANGED <<failure, events, harness>>

RunHarness ==
  /\ WithHarness
  /\ ~Unexecutable
  /\ options.coverage = "full"
  /\ ~opaque
  /\ harness' = HarnessEvents(program, options)
  /\ stage' = "compare"
  /\ UNCHANGED <<shape, options, program, engine, agreement, guarantee>>

\* Mutant: the kinds of the events are compared, and not the labels.
MatchedByKind ==
  /\ stage = "compare"
  /\ Len(events) = Len(harness)
  /\ \A i \in DOMAIN events : events[i][1] = harness[i][1]
  /\ agreement' = "matched"
  /\ guarantee' = IF guarantee = "not_replayable" THEN guarantee ELSE "exact"
  /\ Settled
  /\ UNCHANGED <<failure, events, harness>>

Matched ==
  /\ stage = "compare"
  /\ events = harness
  /\ agreement' = "matched"
  /\ guarantee' = IF guarantee = "not_replayable" THEN guarantee ELSE "exact"
  /\ Settled
  /\ UNCHANGED <<failure, events, harness>>

\* Both traces are kept, and a run that had passed now fails.
Diverged ==
  /\ stage = "compare"
  /\ events # harness
  /\ agreement' = "diverged"
  /\ guarantee' = "not_replayable"
  /\ events' = events \o harness
  /\ failure' = FirstFailure(failure, [code |-> "K0117", events |-> harness])
  /\ Settled
  /\ UNCHANGED harness

CheckAgreement ==
  \/ SemanticOnly
  \/ SkipHarness
  \/ CoverageIncomplete
  \/ LifecycleOnly
  \/ BoundaryPartial
  \/ RunHarness
  \/ Matched
  \/ Diverged

Next == Execute \/ FinishExecution \/ CheckAgreement

Spec == Init /\ [][Next]_vars

-----------------------------------------------------------------------------
EventKinds ==
  {"deterministic", "task", "choice", "portfolio", "storage", "network", "network-state",
   "boundary", "obligation-transfer", "obligation-left-open", "unresolved", "lost-message",
   "network-delivery-failed", "scheduler-interleaving-leak", "policy-required", "stop",
   "injected-cancel", "injected-preempt", "injected-time-jump", "injected-crash"}

IsTrace(t)   == \A i \in DOMAIN t : Len(t[i]) = 2 /\ t[i][1] \in EventKinds
IsFailure(f) == /\ DOMAIN f = {"code", "events"}
                /\ f.code \in StopCodes \cup {"none", "K0100", "K0107", "K0116", "K0117"}
                /\ IsTrace(f.events)

\* The types of the state, and what ties it to the stage of the run.
TypeOK ==
  /\ shape \in Shapes /\ options \in shape.options
  /\ Len(program) <= shape.length /\ \A i \in DOMAIN program : program[i] \in shape.ops
  /\ IsTrace(events) /\ IsTrace(harness) /\ IsFailure(failure)
  /\ \A i \in DOMAIN obligations : obligations[i] \in [binding : Bindings, closed : BOOLEAN]
  /\ storage \in [acked : BOOLEAN, pending : BOOLEAN, durable : BOOLEAN]
  /\ network \in [inFlight : BOOLEAN, dropped : BOOLEAN]
  /\ injected \in BOOLEAN /\ opaque \in BOOLEAN
  /\ stage \in {"execute", "check", "compare", "done"}
  /\ agreement \in {"none", "semantic-only", "coverage-incomplete", "partial-boundary",
                    "matched", "diverged"}
  /\ guarantee \in {"none", "exact", "partial", "not_replayable"}
  /\ (stage = "execute") <=> (agreement = "none")
  /\ harness # << >> => stage \in {"compare", "done"}

\* A message is lost at the k-th operation: a crash, with a write before it
\* that no commit has followed, after an acknowledgement.
LostBy(k, w) ==
  /\ w < k
  /\ program[k] = Storage("crash")
  /\ program[w] = Storage("write")
  /\ \A c \in w .. k : program[c] # Storage("commit")
  /\ \E a \in 1 .. k : program[a].op = "discharge" /\ program[a].by = "ack"

LostMessage == Failure("K0100", "lost-message", "storage-crash")

(***************************************************************************)
(* A lost message that is reported was lost.  One that was lost is missed  *)
(* only behind an earlier failure, or when something had been committed    *)
(* before it was written: the commit flag of the storage facade is never   *)
(* reset.                                                                  *)
(***************************************************************************)
LossVerdict ==
  /\ failure = LostMessage => \E k, w \in DOMAIN program : LostBy(k, w)
  /\ failure = NoFailure =>
       \A k, w \in DOMAIN program :
         LostBy(k, w) => \E c \in 1 .. w : program[c] = Storage("commit")

\* Every obligation of the binding is closed by a declared action: as many
\* of them as creations follow any point of the program.
ClosedByDeclared(b) ==
  \A i \in DOMAIN program :
    Cardinality({j \in i .. Len(program) : program[j] = Create(b)})
      <= Cardinality({j \in i .. Len(program) :
                        program[j] \in {Discharge(b, a) : a \in Declared}})

(***************************************************************************)
(* A run that passes on the evidence of both engines leaves no obligation  *)
(* open: the semantic engine alone also accepts a return, an escape or a   *)
(* suppression, which the harness does not.                                *)
(***************************************************************************)
MatchedPassClosesAll ==
  agreement = "matched" /\ failure = NoFailure => \A b \in Bindings : ClosedByDeclared(b)

\* What the operations print: the i-th one prints something when it runs.
Prints(i) == program[i].op \in {"effect", "storage", "network", "external"}

\* The message is in flight when the i-th operation needs it: a send comes
\* before with no receive since, and no drop either unless it is dropped again.
InFlight(i) ==
  \E s \in 1 .. i - 1 :
    /\ program[s] = Network("send")
    /\ \A j \in s + 1 .. i - 1 :
         program[j] \notin {Network("receive")} \cup ({Network("drop")} \ {program[i]})

(***************************************************************************)
(* The scenarios on which the traces of the two engines can be compared at *)
(* all: transfers come after everything that prints, nothing else prints   *)
(* between two effects on one boundary, and network actions meet the       *)
(* message they are about.                                                 *)
(***************************************************************************)
Orderly ==
  /\ \A i, j \in DOMAIN program : i < j /\ program[i].op = "transfer" => ~Prints(j)
  /\ \A i, j, k \in DOMAIN program :
       (i < j /\ j < k /\ Prints(j) /\ program[i].op = "effect" /\ program[i] = program[k])
         => program[j] = program[i]
  /\ \A i \in DOMAIN program :
       program[i].op = "network" /\ program[i].of # "send" => InFlight(i)

(***************************************************************************)
(* Without injected failures, and when obligations are closed by declared  *)
(* actions only, the traces agree on the orderly scenarios and on no       *)
(* other: a disagreement is never evidence against the program.            *)
(***************************************************************************)
AgreementIsOrder ==
  ( /\ agreement \in {"matched", "diverged"}
    /\ options.inject = << >>
    /\ \A i \in DOMAIN program : program[i].op = "discharge" => program[i].by \in Declared )
  => (agreement = "matched" <=> Orderly)

(***************************************************************************)
(* When the traces agree the two engines have found the same failure.  One *)
(* exception: a cancellation that hits a boundary with no obligation open  *)
(* is an event to the semantic engine and a failure to the harness, and    *)
(* both tell it in the same words.                                         *)
(***************************************************************************)
VerdictConfirmed ==
  agreement = "matched" =>
    \/ failure.events = TerminalFailure(program, options).events
    \/ /\ failure = NoFailure
       /\ \E boundary \in Boundaries :
            TerminalFailure(program, options).events = << <<"injected-cancel", boundary>> >>

(***************************************************************************)
(* An exact guarantee rests on two traces that agree, except for two kinds *)
(* of run that no harness has seen: a scenario that stops at a loop, and   *)
(* one with the lifecycle construct that does not block replay.            *)
(***************************************************************************)
ExactHasEvidence ==
  stage = "done" /\ guarantee = "exact" =>
    \/ agreement = "matched"
    \/ agreement = "semantic-only"
         /\ (failure.code = "K0105" \/ options.coverage = "lifecycle")

\* A failure that was found is never replaced by a later one, nor dropped,
\* except by the one that says that the coverage is incomplete.
FailureKept ==
  [][failure # NoFailure /\ failure' # failure =>
       options.coverage = "blocking" /\ failure'.code = "K0116"]_vars
=============================================================================
