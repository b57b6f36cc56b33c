--------------------------- MODULE SemanticEngine ---------------------------
(***************************************************************************)
(* The semantic engine of kobo-sim-core (core.rs): it executes the         *)
(* operations of a scenario one after the other over the models of         *)
(* ScenarioModels, injects failures at the first modeled effect, keeps the *)
(* first failure, and grades the replay guarantee of the run.              *)
(*                                                                         *)
(* The scenario is not chosen in advance: each step draws the operation it *)
(* executes and appends it to "program", so the behaviours of this module  *)
(* are the executions of all straight-line scenarios of a shape.  A shape  *)
(* bounds what is drawn: its operations, their number, and the options.    *)
(***************************************************************************)
EXTENDS ScenarioModels

CONSTANTS
  Bindings,  \* the names that hold obligations
  Shapes     \* the shapes of scenarios, see Shape

OpKinds ==
  {"create", "discharge", "transfer", "unresolved", "effect", "storage",
   "network", "external", "stop"}

Subjects ==
  [kind \in OpKinds |->
     CASE kind = "effect"   -> Boundaries
       [] kind = "storage"  -> StorageActions
       [] kind = "network"  -> NetworkActions
       [] kind = "external" -> Policies
       [] kind = "stop"     -> StopCodes
       [] OTHER             -> Bindings]

WellFormed(o) ==
  \E kind \in OpKinds :
    \E subject \in Subjects[kind],
       action \in IF kind = "discharge" THEN Declared \cup Exits ELSE {"-"} :
      o = Op(kind, subject, action)

Hooks      == {"cancel", "preempt", "time-jump", "crash"}
Schedulers == {"round-robin", "pct"}
Coverages  == {"full", "lifecycle", "blocking"}
Engines    == {"both", "semantic"}

Options ==
  [inject : Seq(Hooks), scheduler : Schedulers, coverage : Coverages, engine : Engines]

Shape(s) ==
  /\ DOMAIN s = {"ops", "length", "options"}
  /\ \A o \in s.ops : WellFormed(o)
  /\ s.length \in Nat
  /\ s.options \subseteq Options

ASSUME ShapesAssumption == \A s \in Shapes : Shape(s)

\* Bindings are identifiers (pat_ident); the name of a boundary has a dot in it.
ASSUME BindingsAssumption == Bindings \cap Boundaries = {}

VARIABLES
  shape,        \* the shape of the scenario
  options,      \* ScenarioOptions, and the coverage facts of the program
  program,      \* the operations executed so far
  events,       \* the trace
  obligations,  \* in order of creation
  storage,
  network,
  failure,      \* the first failure
  injected,     \* the first modeled effect has been met
  opaque,       \* some boundary is not owned by the replay
  stage,        \* "execute", "check", "compare" or "done"
  agreement,    \* what the digest says of the two traces
  guarantee     \* the replay guarantee

engine == <<events, obligations, storage, network, failure, injected, opaque>>
result == <<stage, agreement, guarantee>>
semanticVars == <<shape, options, program, engine, result>>

SemanticInit ==
  /\ shape \in Shapes
  /\ options \in shape.options
  /\ program = << >>
  /\ events = << >>
  /\ obligations = << >>
  /\ storage = NewStorage
  /\ network = NewNetwork
  /\ failure = NoFailure
  /\ injected = FALSE
  /\ opaque = FALSE
  /\ stage = "execute"
  /\ agreement = "none"
  /\ guarantee = "none"

-----------------------------------------------------------------------------
\* The next operation of the scenario is o.
Draw(o) ==
  /\ stage = "execute"
  /\ Len(program) < shape.length
  /\ o \in shape.ops
  /\ program' = Append(program, o)
  /\ UNCHANGED <<shape, options, result>>

ExecuteCreate(b) ==
  /\ Draw(Create(b))
  /\ obligations' = Append(obligations, [binding |-> b, closed |-> FALSE])
  /\ UNCHANGED <<events, storage, network, failure, injected, opaque>>

\* The storage is told of the action before it is known whether the
\* obligation accepts it, or whether there is one.
ExecuteDischarge(b, a) ==
  /\ Draw(Discharge(b, a))
  /\ storage' = NoteAction(storage, a)
  /\ obligations' = Close(obligations, b, a, Declared \cup Exits)
  /\ UNCHANGED <<events, network, failure, injected, opaque>>

ExecuteTransfer(b) ==
  /\ Draw(Transfer(b))
  /\ events' = Append(events, <<"obligation-transfer", b>>)
  /\ UNCHANGED <<obligations, storage, network, failure, injected, opaque>>

\* A branch that leaves the obligation open, or a container that hides it.
ExecuteUnresolved(b) ==
  /\ Draw(Unresolved(b))
  /\ failure' = FirstFailure(failure, Failure("K0100", "unresolved", b))
  /\ UNCHANGED <<events, obligations, storage, network, injected, opaque>>

\* A hook that is injected at the first modeled effect fails it: the
\* cancellation hits the latest open obligation, the crash the effect itself ...
FailureOf(hook, boundary) ==
  CASE hook = "cancel" /\ OpenAt(obligations) # {} ->
         Failure("K0100", "injected-cancel", LatestOpen(obligations))
    [] hook = "crash" -> Failure("K0103", "injected-crash", boundary)
    [] OTHER          -> NoFailure

\* ... or is told in the trace.
EventsOf(hook, boundary) ==
  CASE hook = "cancel" /\ OpenAt(obligations) = {} -> << <<"injected-cancel", boundary>> >>
    [] hook = "preempt"   -> << <<"injected-preempt", boundary>> >>
    [] hook = "time-jump" -> << <<"injected-time-jump", boundary>> >>
    [] OTHER              -> << >>

\* All hooks, in the order of the option.
HookEvents(boundary) ==
  FlattenSeq([i \in DOMAIN options.inject |-> EventsOf(options.inject[i], boundary)])

HookFailure(boundary) ==
  LET failing == {i \in DOMAIN options.inject :
                    FailureOf(options.inject[i], boundary) # NoFailure}
  IN  IF failing = {} THEN NoFailure
      ELSE FailureOf(options.inject[LeastOf(failing)], boundary)

ExecuteEffect(boundary) ==
  /\ Draw(Effect(boundary))
  /\ events' = events \o BoundaryEvents(boundary, options)
                      \o (IF injected THEN << >> ELSE HookEvents(boundary))
  /\ failure' =
       FirstFailure(FirstFailure(failure, ScheduleFailure(boundary, options, obligations)),
                    IF injected THEN NoFailure ELSE HookFailure(boundary))
  /\ injected' = TRUE
  /\ UNCHANGED <<obligations, storage, network, opaque>>

ExecuteStorage(action) ==
  /\ Draw(Storage(action))
  /\ storage' = StorageAfter(storage, action)
  /\ events' = events \o StorageEvents(action)
  /\ failure' = FirstFailure(failure, StorageFailure(StorageAfter(storage, action), action))
  /\ UNCHANGED <<obligations, network, injected, opaque>>

ExecuteNetwork(action) ==
  /\ Draw(Network(action))
  /\ network' = NetworkAfter(network, action)
  /\ events' = events \o NetworkEvents(network, action)
  /\ failure' = FirstFailure(failure, NetworkFailure(network, action))
  /\ UNCHANGED <<obligations, storage, injected, opaque>>

ExecuteExternal(policy) ==
  /\ Draw(External(policy))
  /\ opaque' = (opaque \/ policy \notin OwnedPolicies)
  /\ IF policy = "unselected"
       THEN /\ failure' = FirstFailure(failure, Failure("K0107", "policy-required", policy))
            /\ UNCHANGED events
       ELSE /\ events' = Append(events, <<"boundary", policy>>)
            /\ UNCHANGED failure
  /\ UNCHANGED <<obligations, storage, network, injected>>

\* Raw nondeterminism, an uncontrolled effect or a loop.
ExecuteStop(code) ==
  /\ Draw(Stop(code))
  /\ failure' = FirstFailure(failure, Failure(code, "stop", code))
  /\ UNCHANGED <<events, obligations, storage, network, injected, opaque>>

ExecuteOperation ==
  \/ \E b \in Bindings : \/ ExecuteCreate(b)
                         \/ ExecuteTransfer(b)
                         \/ ExecuteUnresolved(b)
                         \/ \E a \in Declared \cup Exits : ExecuteDischarge(b, a)
  \/ \E boundary \in Boundaries : ExecuteEffect(boundary)
  \/ \E action \in StorageActions : ExecuteStorage(action)
  \/ \E action \in NetworkActions : ExecuteNetwork(action)
  \/ \E policy \in Policies : ExecuteExternal(policy)
  \/ \E code \in StopCodes : ExecuteStop(code)

-----------------------------------------------------------------------------
\* Mutant: an uncontrolled effect does not spoil the replay.
GuaranteeOfEffects(coverage, code) ==
  IF code = "K0102" THEN "not_replayable"
  ELSE IF coverage = "blocking" THEN "partial" ELSE "exact"

\* replay_guarantee_for, asked before any harness has run.
GuaranteeOf(coverage, code) ==
  IF code \in {"K0102", "K0103"} THEN "not_replayable"
  ELSE IF coverage = "blocking" THEN "partial" ELSE "exact"

\* The end of the scenario: an obligation that is still open is a failure,
\* the events of the failure and of the scheduler end the trace.
FinishAs(evidence) ==
  /\ stage = "execute"
  /\ LET verdict == FirstFailure(failure, LeftOpen(obligations))
         grade   == GuaranteeOf(options.coverage, verdict.code)
     IN  /\ failure' = verdict
         /\ events' = events \o verdict.events \o PortfolioEvents(options)
         /\ guarantee' = IF opaque /\ grade # "not_replayable" THEN "partial" ELSE grade
  /\ stage' = "check"
  /\ agreement' = evidence
  /\ UNCHANGED <<shape, options, program, obligations, storage, network, injected, opaque>>

\* Mutant: the digest does not say what the result rests on.
FinishUnlabelled == FinishAs("none")

\* The result rests on the semantic engine until a harness has run.
Finish == FinishAs("semantic-only")
=============================================================================
