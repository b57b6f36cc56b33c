-------------------------- MODULE GeneratedHarness --------------------------
(***************************************************************************)
(* The second engine of kobo-sim-core (harness/*.rs): the generated Rust   *)
(* is instrumented, compiled and run, and its trace is what it prints.     *)
(* These operators say what the harness of a straight-line scenario        *)
(* prints; they share the facades of ScenarioModels with the semantic      *)
(* engine, and nothing else.                                               *)
(***************************************************************************)
EXTENDS ScenarioModels

EffectsOn(program, boundary) ==
  {i \in DOMAIN program : program[i] = Effect(boundary)}

\* Mutant: only the first operation on the boundary is printed.
InstrumentedOnce(program, i, options) ==
  IF i # LeastOf(EffectsOn(program, program[i].of)) THEN << >>
  ELSE BoundaryEvents(program[i].of, options)

(***************************************************************************)
(* inject_modeled_boundary_event replaces the FIRST occurrence of the call *)
(* in the source, once for each operation on the boundary: the calls are   *)
(* all alike, and the replacement still contains the call, so that all of  *)
(* the prints end up at the first one.                                     *)
(***************************************************************************)
InstrumentedCall(program, i, options) ==
  LET boundary == program[i].of
      calls    == EffectsOn(program, boundary)
  IN  IF i # LeastOf(calls) THEN << >>
      ELSE FlattenSeq([n \in 1 .. Cardinality(calls) |-> BoundaryEvents(boundary, options)])

\* What the i-th operation prints when the target function runs.
Printed(program, i, options) ==
  LET o == program[i]
  IN  CASE o.op = "effect"                               -> InstrumentedCall(program, i, options)
        [] o.op = "storage"                              -> StorageEvents(o.of)
        [] o.op = "network"                              -> FacadeNetworkEvents(o.of)
        [] o.op = "external" /\ o.of \in OwnedPolicies   -> << <<"boundary", o.of>> >>
        [] OTHER                                         -> << >>

TargetEvents(program, options) ==
  FlattenSeq([i \in DOMAIN program |-> Printed(program, i, options)])

-----------------------------------------------------------------------------
(***************************************************************************)
(* terminal_failure_events: what is computed when the harness is generated *)
(* and printed after the target has returned.  The state of the fold.      *)
(***************************************************************************)
NewTerminal ==
  [obligations |-> << >>, storage |-> NewStorage, network |-> NewNetwork,
   transfers |-> << >>, failure |-> NoFailure]

FailWith(h, failure) == [h EXCEPT !.failure = FirstFailure(@, failure)]

\* apply_operation_effects.
Applied(h, o, options) ==
  CASE o.op = "create" ->
         [h EXCEPT !.obligations = Append(@, [binding |-> o.of, closed |-> FALSE])]
    [] o.op = "discharge" ->
         [h EXCEPT !.storage = NoteAction(@, o.by),
                   !.obligations = Close(@, o.of, o.by, Declared)]
    [] o.op = "transfer" ->
         [h EXCEPT !.transfers = Append(@, <<"obligation-transfer", o.of>>)]
    [] o.op = "unresolved" ->
         FailWith(h, Failure("K0100", "unresolved", o.of))
    [] o.op = "effect" ->
         FailWith(h, ScheduleFailure(o.of, options, h.obligations))
    [] o.op = "storage" ->
         FailWith([h EXCEPT !.storage = StorageAfter(@, o.of)],
                  StorageFailure(StorageAfter(h.storage, o.of), o.of))
    [] o.op = "network" ->
         FailWith([h EXCEPT !.network = NetworkAfter(@, o.of)], NetworkFailure(h.network, o.of))
    [] OTHER -> h

Terminal(program, options) ==
  FoldLeft(LAMBDA h, o : Applied(h, o, options), NewTerminal, program)

\* A cancellation is looked for after all operations, and hits the first
\* obligation that is open then, or the first modeled effect.
CancelAtEnd(h, program, options) ==
  LET effects == {i \in DOMAIN program : program[i].op = "effect"}
      cancels == Injects("cancel", options)
  IN  CASE cancels /\ OpenAt(h.obligations) # {} ->
             Failure("K0100", "injected-cancel", FirstOpen(h.obligations))
        [] cancels /\ OpenAt(h.obligations) = {} /\ effects # {} ->
             Failure("K0100", "injected-cancel", program[LeastOf(effects)].of)
        [] OTHER -> NoFailure

TerminalFailure(program, options) ==
  LET h == Terminal(program, options)
  IN  FirstFailure(FirstFailure(h.failure, CancelAtEnd(h, program, options)),
                   LeftOpen(h.obligations))

\* The whole trace of the harness.
HarnessEvents(program, options) ==
  TargetEvents(program, options)
    \o Terminal(program, options).transfers
    \o TerminalFailure(program, options).events
    \o PortfolioEvents(options)
=============================================================================
