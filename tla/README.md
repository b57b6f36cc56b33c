# Verification of kobo

Kobo is a superset of Rust with a gradual guarantee policy: a compiler
(`src/crates/compiler`), a small diagnostic runtime (`src/crates/runtime`), a
command line (`src/bin/kobo-cli`) and a Lean core (`src/proof/lean`). Its
distinctive promise is *strict liveness*: a value that carries an obligation (a
message to acknowledge, a lease to release) may not be lost on any path. The
compiler certifies that promise, a simulator tests it, witnesses record what the
simulator found, and a watcher keeps all of it current while files are edited.

This directory holds TLA+ modules of the parts of kobo whose correctness depends
on order, state and failure, TLC configurations that check them on small
instances, and theorems about them checked by TLAPS. `PROJECT.json` maps each
definition to the source lines it stands for and lists runs, mutants, hazards,
findings and theorems.

## 1. The system and its components

| Component | State | Operations | What is hard | What makes it correct | Module |
|---|---|---|---|---|---|
| Certificate verifier (`kobo-proof`: `verify.rs`, `obligation.rs`, `invariant.rs`) | worklist, entry and exit environment of each block, terminal environments | replay of the obligation events over the CFG, loop-invariant checks, exit check | certificates are data from outside; back edges are excused from the join; each block is replayed once | an accepted function loses no obligation in any run | `ObligationReplay`, `CertifiedRun` |
| Certificate emission (`kobo-driver/src/proof`) | dataflow environments, loop regions, worklist | dataflow over Core, loop invariants, assembly | merge order, loops, regions | the dataflow is the meet over all paths; the verifier accepts what is clean | `ObligationDataflow`, `ProofPipeline` |
| Proof command (`commands/proof.rs`) | none | emit, `verify_before_write`, verify a file | source read twice | what is written was verified | `ProofPipeline` |
| Diagnostic runtime (`kobo-diag`) | shared `Rc` counters, live guards | clone, borrow, borrow_mut, guard drop, owner drop and report | panicking borrows, saturation, drop order | no real contention missed, one report | `DiagOwner` |
| Query session (`kobo-driver/src/query.rs`) | five caches, configuration | parse, kir, diagnostics, solver, codegen, set_config | the file is read several times in a query; nested queries form keys of their own | an answer belongs to the text and the options of the query | `QueryCache` |
| Ownership solver (`kobo-migrate`) | tiers, ceilings, two worklists, pieces, the map so far | extract constraints, cut clusters, propagate up and down, search, merge | worklist order, iteration budgets, clusters cut in pieces | the least solution within the bounds, or an honest conflict | `OwnershipCluster`, `LeastSolution`, `OwnershipSolve` |
| File watcher (`watch.rs`, `watch/evidence.rs`) | snapshots, pending errors, debounce window, evidence, state file | poll, extend and close the window, detect renames, rerun, save, restart | saves, unreadable files and kills between any two system calls | no change is missed; the release gate reads this run only | `ChangeFeed`, `SourceWatch` |
| Watch trace import (`watch/trace.rs`) | windows, active children, lifecycle | watcher events, timers, starts, resolutions, shutdowns | replacement and shutdown of children | every start is answered, exclusive children do not overlap, the grade is what was seen | `WatchTrace` |
| Scenario simulator (`kobo-sim-core`) | obligations, storage and network flags, failure, events | execute operations, inject failures, run and compare the harness | sticky flags, first failure, harness against engine | a lost message is reported; an exact guarantee has evidence | `ScenarioModels`, `SemanticEngine`, `GeneratedHarness`, `EngineAgreement` |
| Witnesses (`commands/test/run.rs`, `commands/replay.rs`) | the source file, a witness | run a portfolio, write a witness, verify, replay, compare | edits between reads, seeds, shrinks, checks after the run | an exact replay repeats what was recorded | `WitnessReplay` |
| Boundary, adapter, candidate, trace and async evidence of the verifier | none | per-field checks | — | — | not modelled |
| Compile session and pipelines, multi-file build, solver cache on disk | files | phases in a fixed order, writes | — | — | not modelled, see section 6 |
| Language server | text of open documents | didOpen, hover, actions | — | — | not modelled |
| Parser, IR, transform, analysis, codegen, errors, debt, other commands, examples, editor extension, Lean core | data | pure passes and output | — | — | not modelled |

How they interact: `kobo check --emit-proof` runs the pipeline, lowers scenarios to
Core, *emits* a certificate, *verifies* it and writes it only if it is accepted.
`kobo proof verify` runs the same verifier on a file. Generated code links
`kobo-diag`, whose reports feed the debt commands. The watcher calls the pipelines
on every window; the LSP and tests go through the query session, whose solver
query calls `kobo-migrate`. `kobo test` runs a scenario in the semantic engine and
as a generated harness, compares the two and writes a witness that `kobo replay`
re-executes. The release gate reads the state files of the watcher and of imported
traces.

Concurrency is modest and lies at the edges: the compiler is single-threaded but
shares files with editors and other processes; `DiagOwner` is single-threaded
(`Rc<RefCell<_>>`) but panics may be caught in the middle of an operation; the
solver's threads share nothing and are joined in order; the verifier is sequential,
but what it certifies is *every* run.

The hazards, each at its line and with the properties that cover it, are in
`PROJECT.json`.

## 2. Modules

    ObligationCfg ─┬─ ObligationReplay ── CertifiedRun ─┬─ ProofPipeline ── MCProofPipeline
                   └─ ObligationDataflow ───────────────┘        └── CertifiedRunSoundness (proofs)
    DiagOwner ── DiagOwnerProofs, MCDiagOwner
    QueryCache ── QueryCacheProofs, MCQueryCache
    OwnershipCluster ── LeastSolution <== OwnershipSolve ── OwnershipSolveProofs, MCOwnershipSolve
    ChangeFeed <== SourceWatch ── SourceWatchProofs, MCSourceWatch
    WatchTrace ── WatchTraceProofs, MCWatchTrace
    ScenarioModels ─┬─ SemanticEngine ──┬─ EngineAgreement ── EngineAgreementProofs, MCEngineAgreement
                    └─ GeneratedHarness ┘
    WitnessReplay ── WitnessReplayProofs, MCWitnessReplay

`──` is EXTENDS, `<==` says that the module on the left is an abstract specification
which the one on the right is shown to implement.

### ObligationCfg, ObligationReplay, CertifiedRun
`ObligationCfg` is the calculus shared by emitter and verifier: statuses, events,
`ApplyEvent`, `EventAllowed`, what counts as unresolved at an exit and as a leak
over a back edge. A `BTreeMap` is a total function whose missing keys are `Absent`.
`ObligationReplay` is the verifier: `Receive` takes a certificate, `ReplayBlock` and
`RejectBlock` are one turn of the loop in `replay_cfg_obligations`, `FinishReplay`
its final checks, `CheckLoops` and `CheckExits` the rest. A certificate is a record of
claims and nothing but its shape is assumed. `CertifiedRun` is the meaning of
acceptance: after `accepted` a run walks the certified CFG with the environment it
*really* holds, through loops as often as it likes.
Abstractions: the queue is a set, so every order is covered; template hashes and the
syntax of user invariants are left out; a back-edge fact has one target where the
code has `entry_block` and `back_edge_target` (the emitter derives both from one
edge); a certificate describes one function.

### ObligationDataflow, ProofPipeline
The emitter's forward dataflow (`FlowBlock`, `MergeEnv`), the loop regions and loop
invariants it derives, and the certificate it assembles. `ProofPipeline` composes
program, emitter, verifier and run: what `proof emit` writes is exactly what the
verifier then decides on (`Submit`), and `VerifyFile` hands it a certificate that
no emitter wrote. The directive of a user invariant is about the loops it is `directed`
at (by label, or the only loop fact); malformed, or of a kind no binding has, it leaves
an invariant that is not preserved. How it is parsed is left out.

Lowering to Core is not modelled; `Lowered` says what the emitter is given: an edge joins
two blocks of the function, and one to the same or an earlier block closes a loop
(`is_loop_back_edge`). How the blocks of a loop body hang together it does not say: the
edge of a `break` goes to the next block in line, a `continue` block has no successor but
the loop's entry, and a body may be entered from beside. `RegionsHonest` therefore asks
less than a natural loop: a region is also good if the block that closes the loop is
reached from the loop's entry inside it, over edges the replay follows.

### DiagOwner
`Borrow`, `BorrowPanics`, `BorrowMut`, `BorrowMutPanics`, `DropReader`, `DropWriter`,
`CloneOwner`, `DropOwner`; counters saturate at `MaxCount` / `MaxActive`, which stand
for `u64::MAX` / `u32::MAX`; history variables record what really happened. Access
through `Deref` and guards leaked with `mem::forget` are left out; `Busy`, the flag
of `RefCell`, is external.

### QueryCache
One file, five queries. Every read of the file is a step, nested queries are frames
on a stack (`Descend`, `Return`), and an editor may save or remove the file between
any two steps. What a phase computes is represented by its inputs, so an answer names
the texts and options it came from: `KirOf`, `DiagnosticsFor` (the policy and whether the
dependencies name an executor), `GeneratedFor` (diagnostics mode, executor, output and
runtime options, ecosystem policy). The keys have every option the code hashes, those
that no phase reads among them (channel buffer size, hot borrow threshold, solver
budgets); `built` and `again` record what `parse()` has parsed, `held` the
configurations so far. The configuration changes only between queries
(`set_config` takes `&mut self`). Left out: hash collisions, metrics, legacy mode
directives, the files codegen writes.

### OwnershipCluster, LeastSolution, OwnershipSolve
`OwnershipCluster` holds the data of `kobo-migrate`: tiers by rank, the sharing, send
and exclusion edges extracted between bindings, what satisfies them, components,
articulation points and sub-clusters (by what the searches compute). `LeastSolution`
is the promise of `lattice_solve`: asked about a cluster it answers with the least
assignment the edges allow or with a conflict where there is none. `OwnershipSolve`
is `solve_modular`: `TakeCluster` cuts a cluster above `TargetSize`
(`DECOMPOSE_TARGET_SIZE`, 64 in the code); `StartUnit`, `Preflight`, `Raise`,
`LowerCeilings` and the four conflicts are `lattice_solve`, its worklists taken in any
order; `AbsorbMap` and `AbsorbConflict` are what happens to an answer. The threads share
nothing and are joined in order, so pieces are solved one after the other;
`OutOfTime` is the clock read before each cluster. `IterationBudgetExceeded` and the
branch in which the backtracking search succeeds are not actions: `BudgetIsEnough` and
`SearchIsVain` show that nothing reaches them. Left out: the greedy pass (it is the
input), ranking, combination and cap of candidates, risk scores. In this build
`choose_tiers` decides every tier before the solver runs, so the command line gives it
nothing to solve; the solver is reached through its library API and tests.

### ChangeFeed, SourceWatch
`ChangeFeed` is what a watcher promises: a world that changes, what is known of it, and
reports that leave no known change out. `SourceWatch` is the polling loop: each stat of a
file is a step (`StatOk`, `StatNotFound`, `StatError`, `StatNew`), then the listing
(`Refresh`), the quiet poll that closes a window (`Close`: coalescing, rename
candidates, the batch), the rerun and the state file (`Save`), while an editor writes,
removes and renames files, files become unreadable and come back, and the process
is killed (`Crash`) and started: the listing (`Start`), the empty state file
(`ResetState`), a stat of each file (`StatStart`), the loop (`Enter`). The order of events of different files carries
nothing, so a window is one sequence of events for each file. The gate here is the
lifecycle part of the release gate. What the model made plain about the code: a start
runs no check; the gate looks neither at the outcome of the rerun nor at the root the
state file names; a rename candidate is graded `modelled_from_metadata` and keeps
the gate shut; create, remove, create in one window is reported as a create followed
by a remove (the feed's promise, that the file is in the report, still holds);
a write of the same length within one tick of the clock is not seen (a version here is a
time and a permission bit).

### WatchTrace
The import of a recorded trace: windows, timers, children, shutdowns, refusals, grade.
A trace is a file that another tool wrote, so nothing is assumed of its events. What
the model made plain: a replacement resolves the child it names, whatever its policy, so
that two exclusive children may be active after it although the diagnostic at
`trace.rs:1739` says they cannot; an event that arrives after its timer counts as
covered; an explicit list of pending windows is believed.

### ScenarioModels, SemanticEngine, GeneratedHarness, EngineAgreement
`SemanticEngine` executes a straight-line scenario: obligations, the storage, network,
boundary and scheduler models of `ScenarioModels`, failure injection and stops.
`GeneratedHarness` is the trace the generated program prints for the same operations.
`EngineAgreement` is the full run: whether a harness is run at all, the comparison,
guarantee and failure. What the model made plain: injected preemptions and time jumps
always diverge (K0117); a failing network receive is never confirmed by the harness;
runs that stop at a loop (K0105) and lifecycle coverage keep an exact guarantee
without a harness; K0116 replaces an earlier K0100. Left out: select and branches,
move bindings, task-local wards, exit codes of the harness, IO captures, backend
tokens, the bounded search, compiling the harness.

### WitnessReplay
A test run over a portfolio of seeds, the witness it writes, and the replay of that
witness, with the source file edited between any two steps; a text determines what
one run of it shows. Left out: fuzz portfolios, checkpoints, backend validation,
schema-0 and watch witnesses, shrink metadata made by hand. What the model made
plain: a portfolio of several seeds that passes never replays exactly (K0104, or K0106
blamed on a shrink), because its witness holds the seed of the last run and the events
of all; a failure set by a check after the run leaves the guarantee exact, but the
replay does not repeat the check.

## 3. Runs

| Run | What it shows | Bounds and why they are enough |
|---|---|---|
| `proof_small` | The emitter's dataflow ends with the merge over all paths in every worklist order (`DataflowMatchesPaths`); the verifier accepts its certificate exactly when an acyclic function is clean (`VerdictExact`); an accepted function loses nothing in any number of iterations (`AcceptanceSound`) and keeps the rules (`RulesKept`); emitted regions are honest (`EmitterMarksRegions`); a verdict is always reached (`ArtifactDecided`) | Five acyclic graphs of up to four blocks (fork without a join, early exit, diamond, skip, nested branches) with every event in every block and one binding, as bindings do not interact there; loops with two bindings, so that a loop handles one of its own and one from before; certificates with wrong statuses and missing, unmarked or misdirected invariants; directives for the only loop, for one of two, malformed, or of a kind no binding has. 521,205 states |
| `proof_loop_rules` (violated) | Without the proviso of `RulesKept` a run may discharge or hand over an already settled obligation | Five blocks: two events in the body are the least that do it |
| `diag_owner` | No live guard is missed (`ActiveCovers`), no contention (`ContentionSeen`), counts are exact or flagged (`CountsHonest`), one report by the last clone (`ReportedOnce`) | Two clones, three guards, six calls; maxima 4 and 3 so that saturation happens within the run. 4,956 states |
| `diag_contention` (violated) | A caught panic in `borrow()` leaves `active_borrows` raised: contention is then reported that never was | as above |
| `query_cache` | `AnswerIsCurrent`, `AnswerKeepsConfig`, `ParsedOnce` | Two outermost queries, two saves, one change of configuration: poisoning an entry and using it takes two of each; six configurations that differ in recovery, in what transforms and output read, in policy and executor, in the buffer size alone, or in the dependencies alone of what a key holds. 4,873,471 states |
| `query_codegen` (violated) | `codegen()` answers from the cache after the dependencies, the policy or the ecosystem policy changed | as above |
| `source_watch` | The reports implement `ChangeFeed` (`FeedSpec`); when the editor is done the last report becomes the disk (`SettlesOnDisk`); a rename candidate is true of what was seen; the gate stays shut from the rerun after the window in which a stat failed to the end of that run, also once the file is back and reported, and reads only this run | Two files, one of which may become unreadable; two edits (a rename counts as one), two losses of readability, one kill: enough for a remove and a create in one window, an error that repeats, and a restart over a torn state file. 509,173 states |
| `engine_agreement` | When a lost message is reported and when it is missed (`LossVerdict`); on exactly which scenarios the engines can agree (`AgreementIsOrder`); what a pass, a matched failure and an exact guarantee rest on | All straight-line scenarios of five shapes (storage 6 operations, network 5, effects 5, boundaries 3, mixed 5): a commit, a second write, an acknowledgement and a crash take five. About 633,000 states |
| `watch_trace` | Every start of an accepted trace is answered once (`StartsAnswered`); exclusive children overlap only through a misdirected replacement; the grade is what the trace shows (`GradeIsHistory`) | All traces of five events over three children or two windows, and of three over both; the children are interchangeable. About 962,000 states |
| `witness_replay` | Exactly which witnesses replay (`WhatReplays`), and what an exact replay has shown whatever is edited (`ExactSameProgram`, `ExactVouchesText`) | Scenarios of up to three events that pass, fail or diverge in every way, up to three seeds, two edits (an edit and its undoing). 851,544 states |
| `ownership_solve` | `lattice_solve` implements `LeastSolution` (`SolvesLeast`); neither worklist meets its budget (`BudgetIsEnough`); the search after a conflict is vain (`SearchIsVain`); a map is verified unless the pieces of a cut cluster disagree or miss something (`VerifiedUnlessCut`); NoSolution is honest | Up to five bindings in scopes that are one, nested at a binding, chained or apart; all floors and resource ceilings for three; clusters over the target of 2, over the limit of 5, and escaping. 27,936 states |
| `ownership_unique` (violated) | A cut cluster gives a Unique map that breaks a constraint | as above |

Deadlock checking is off throughout because each of these systems really stops: after
a verdict, an outcome or a finished run, after the last clone is dropped, or when the
bounded environment is used up.

Some properties are stated with their exact exception, because the plain one is false:
`AnswerIsCurrent` excepts a file that is saved *while* a query runs and *later
returns* to the older text (the output of the newer one is then served from the
cache); `AnswerKeepsConfig` whether diagnostics knew of an executor, which the analysis
key does not hold; `ParsedOnce` counts for each recovery mode and channel buffer size, as
the parse key does; `LossVerdict` excepts losses after an earlier commit; `OverlapIsMisdirected`
excepts a replacement that names a concurrent child; `VerdictConfirmed` a cancellation
with no obligation open; `ExactVouchesText` an edit between the two reads of one
command; `NoSolutionIsHonest` is about assignments without Scoped bindings.

### Fairness
`ProofPipeline` assumes weak fairness of `Flow \/ Emit \/ Verify` for
`ArtifactDecided`: these are loops of one function call that runs to completion.
Nothing is assumed of `Run`, a program that may stop anywhere. `SourceWatch`
assumes weak fairness of `Watcher` for `SettlesOnDisk`: the loop waits for
nothing but its timer, and whoever kills it starts it again. Nothing is assumed
of the editor, the faults and the kills except that each is bounded. The other
modules state no liveness.

## 4. Findings

- `proof_loop_rules`: `rules/obligation_rules.toml:67` gives discharge the input states
  `owned, transferred`. The replay checks that once per block; a loop that creates
  and settles one obligation gets an excused back edge, and then a second obligation,
  created before the loop and discharged or transferred in it, is settled again in the
  next iteration. No obligation is lost (that is proved), but the rule does not hold of every
  run.
- `diag_contention`: `diag_owner.rs:185` counts before `RefCell::borrow` can panic; the
  comment at line 196 defines contention as a live immutable borrow.
- `query_codegen`: `query.rs:338` leaves the policy and the ecosystem policy out of the
  codegen key and `query.rs:409` fingerprints the dependency table by its length, while the
  session is documented as keyed by source and configuration fingerprints (`query.rs:26`).
  The analysis key has the same gap: `query.rs:391` hashes no dependencies, while K0062
  depends on whether they name an executor (`pipeline/analysis.rs:455`), so
  `diagnostics()` may report or withhold it by an earlier dependency table. That is the
  exception of `AnswerKeepsConfig`.
- `ownership_unique`: `modular_pipeline.rs:126` solves the pieces of a cut cluster
  apart and inserts their maps one after the other; the last piece wins about a shared
  node and nothing is checked again, while `cache.rs:79` says of Unique outcomes that
  they contain a complete verified map. In this build the command line gives the solver
  nothing to solve, so it takes a caller of the library to see it.

## 5. Proofs

Everything below is checked by TLAPS for every value of the constants, under the named
assumptions about them. Each module follows one line: an inductive invariant, a
lemma for each action that keeps it, and the theorems from the invariant.

| Module | Assumptions | Inductive invariant | Theorems |
|---|---|---|---|
| `CertifiedRunSoundness`, the verifier | `BlocksAreIndices`, `SomeBinding`, `CertificatesHaveShape` | `TypeOK`, `SoundInv`, `RunShadows` | `TypeCorrect`, `Soundness`, `RunsKeepRules` |
| the same, the emitter and the pipeline | also `BlocksFinite`, `ProgramsAreLowered` | `PipelineInv`, with `FlowInv`; `PathInv`; `VerdictInv` | `PipelineInvariant`, `PipelineSoundness`, `PipelineKeepsRules`, `EmitterIsHonest`, `CompiledFunctionsAreSound`, `DataflowIsExact`, `VerdictIsExact` |
| `DiagOwnerProofs` | `OwnerIsReal`, `GuardsAreFinite`, `CountersHaveRoom` | counters against sets of live guards and clones; a counter at its maximum has raised the flag | `OwnerTypeCorrect`, `LiveGuardsAreCounted`, `ContentionIsSeen`, `CountsAreHonest`, `LastOwnerReports` |
| `QueryCacheProofs` | `ConfigShape`, `MissingIsNoText` | `Inv`: `FileKept`, `CacheKept`, `StackKept`, `AnswerKept`; `ParseKept` | `QueryTypeCorrect`, `AnswersAreCurrent`, `AnswersKeepConfig`, `ParsesOnce` |
| `SourceWatchProofs` | `RootIsAFile`, `ErrorsDiffer`, `BoundsAreNumbers`, `AbsentIsNoVersion`, `FilesFinite` | `WatchInv`: `TypeOK`, `Phases`, `Snapshots`, `Untold`; `EventInv` | `WatchTypeCorrect`, `ReportsEveryChange`, `GateIsOfThisRun`, `CandidatesAreTrue`, `GateStaysShut` |
| `WatchTraceProofs` | `TracesAssumption` | `ChildInv`; flags of the windows against the trace | `TraceTypeCorrect`, `EveryStartIsAnswered`, `ExclusiveUnlessMisdirected`, `GradeTellsHistory` |
| `EngineAgreementProofs` | `ShapesAssumption`, `BindingsAssumption` | `LossInv`, `EvidenceInv`; `AgreeInv`, `ClosedInv`, `OrderInv` | `AgreementTypeCorrect`, `FailureIsKept`, `LossIsExact`, `ExactRestsOnEvidence`, `MatchedVerdictIsConfirmed`, `MatchedPassIsClosed`, `AgreementHasOrder` |
| `WitnessReplayProofs` | `ReplayAssumption` | `Origin`, `Vouched`: what hash, text, run and witness have in common in each phase; `TypedInv`; `Calm` | `ReplayTypeCorrect`, `ExactRepeatsProgram`, `ExactVouches`, `ReplayAnswers` |
| `OwnershipSolveProofs` | `NodesAreIds`, `ProblemsAreExtracted`, `NoNodeIsNone` | `SolveInv` | `SolverInvariant`, `SolverImplementsPromise`, `WithinBudget`, `SearchFindsNothing`, `NoSolutionHolds`, `UncutMapsAreVerified` |

Of the assumptions, `BlocksFinite` and `FilesFinite` say that a function and a source tree
are finite, `ProgramsAreLowered` what `core_cfg.rs` makes of every edge.
`BindingsAssumption` says that no binding has the name of a boundary: a binding is an
identifier (`pat_ident`), the name of a boundary has a dot in it. Without it a cancellation
that hits an obligation and one that hits a boundary could not be told apart. The others
give parameters their shape.

The arguments that carry the weight:

- **Soundness.** `AcceptanceSound` is not inductive: it speaks of a run that replay
  never followed. `SoundInv` adds `ReplaySound` (every replayed block's event and
  edges fit the environments fixed so far), `LoopsInherit` (inside a loop an obligation
  it does not create is unresolved only if it was when the loop was entered) and
  `RunTracked` (what is unresolved in the run is unresolved in the replay's
  environment of the same block). A join keeps this because events are monotone, an
  excused back edge because `BackEdgeBringsNothing`.
- **Dataflow.** Absent below every status and `branch_unresolved` above them order the
  environments; `MergeEnv` is the least upper bound and events keep the order. `PathInv`:
  what a block is entered with stays within the merge over its paths, and a block that
  no longer waits has handed on all it knows. With an empty worklist an induction over
  the blocks, in the order of their indices, gives the other half. The paths themselves
  are a recursive function; that one exists, and is what its equation says, is proved
  from the same order (`PathsExist`, `PathsRule`).
- **Verdict.** Without loops no edge is excused, so the replay follows paths only: every
  environment it fixes is one of a path, and once its queue is empty every path has been
  replayed. Where paths agree, the emitter's claims are the environments of the replay,
  hence nothing is rejected; where one does not, some block or the exit is.
- **Honest regions.** `LoopRegion` iterates as often as there are blocks; a counting
  argument shows that it is closed by then. Every creation in it is marked. What remains
  is the hypothesis `LoopsClose` of `EmitterIsHonest` and `CompiledFunctionsAreSound`:
  where the replay comes to the block that closes a loop, that block hangs together with
  the loop's entry along the body. It is about lowering, which closes a loop where its
  body falls through (`finish_loop_flow`, `kobo-transform/src/scenario/control_flow.rs:47`). On the graphs of `proof_small`
  `EmitterMarksRegions` is checked without it.
- **Rename candidates and the gate.** `EventInv` reads the events of a window backwards: a
  remove without a create says the file is gone, a create without a remove that it is
  there, and an error that stands has left an unknown event behind until the run has
  counted it. `failed` keeps the files that a stat of the run could not read,
  `spoiled` those of them from before the last window closed; an evidence that counted an
  error stays unclear (`Unclean`) until the run ends.
- **Change feed** (a refinement). `Untold` says that a file whose known state is not
  what was told of it has news, in the window or still to be merged, or came back as it
  was; coalescing, rename candidates and restarts keep it, so a batch leaves out
  nothing that the feed wants told.
- **Query cache.** Every cached output and every frame was read from texts the file
  held, and differs from its key only if the file was saved under a query. What an
  output reads of the options is in its key, but for the executor of diagnostics, which is
  that of a configuration in `held` with the same analysis key. `ParseKept`: unless the
  file was saved under a query, whatever `parse()` has parsed is in its cache.
- **Lost messages.** The flags of the storage facade are determined by the operations
  so far, as a statement about positions of the program; the verdict follows at a crash.
- **Two engines, one verdict.** Both traces end with the event of the scheduler, so when
  they are equal the events before it are too. `AgreeInv` says of every event how it came
  to be told: those of a failure have a kind that nothing else has, except for the
  cancellation of a boundary. The harness folds over the whole program at once;
  `TerminalRule` relates that fold to the next operation. `Accounted`, for a run that
  passes: every creation after a point has a declared discharge after it, or its
  obligation is still open.
- **Order of the two traces.** The semantic engine tells an operation when it executes it;
  the harness puts every effect on a boundary where the first one stands and the transfers
  behind everything, and tells a change of state with every network action. Hence
  `Aligned`, kept by every operation: the trace tells the operations in their order
  (`Traced`), a network action without its message has an event and no change of state
  after it (`LostSeen`), and as long as the scenario is in order the harness prints the
  same. In the other direction, a
  body of the harness that tells the operations in their order proves that the scenario
  is (`BodyIsNotLate`, `BodyIsNotDivided`, `BodyTellsStates`). `Recorded`: with declared
  discharges only, the semantic state is the harness's fold, so both traces end alike.
- **Replay of an untouched file.** `Calm`: as long as the file is not edited, run,
  witness and verdict are functions of its program, the settings and the number of
  seeds that ran. The rest compares event lists (`EventsReplayed`). The replay of a failing
  portfolio has the one marker of the recorded run; in one that passed, every marker of
  the replay names a later seed than the first recorded one, or the recorded list has a
  cap, which a replay never has.
- **Least solutions** (a refinement). `Bounded`: tiers stay below every
  solution and ceilings above; `Agreeing`: an edge whose end waits in no worklist has
  what that end asks for. With empty worklists the two say that the tiers are the
  least solution. `OverflowHonest` keeps a conflict true while propagation goes on.
  `Turns` counts: every turn but the first follows a change of the tier or the ceiling
  of its node, which gives `BudgetIsEnough`. `SearchIsVain` rests on a fact of the
  extraction: bindings that exclude each other share a scope, so an edge makes them
  equal, and both could only be `Scoped`; the search moves one.
  `Composed` and `Accounted` carry the answers to the merged map: components are
  disjoint and cover the graph, a component has one least solution.

Only model-checked:

- liveness: `ArtifactDecided`, `SettlesOnDisk` (temporal reasoning under fairness is
  out of the prover's reach);
- that loops close (`LoopsClose`), as far as the graphs of `proof_small` show it.

Every other invariant and action property of a passing run is stated by a theorem.

## 6. Not modelled

- *Parser, IR, transform, analysis, code generation, errors, debt, most commands*: pure
  passes over large data and report formatting, with no protocol of their own. They are
  most of the 109,000 lines, which is why the definitions map to a small share of them.
- *Boundary, adapter, candidate, trace and async evidence of the verifier*: checks field
  by field, a pure function of the certificate.
- *Compile session, multi-file build*: the order of phases and error exits of one file is in
  the build actions of `QueryCache`; what a failing file leaves in the output directory, and
  artifacts on disk that are older than a codegen hit, are recorded as a hazard only.
- *Solver cache and decisions on disk*: written through a temporary path and renamed; only
  Unique outcomes are stored, and those are empty maps from the command line.
- *Language server*: a single-threaded loop that stores the text of didOpen.
- *Witnesses*: fuzz portfolios, checkpoint artifacts, backend-native validation,
  watch-trace and schema-0 witnesses, the older simulation command.
- *Watch trace*: adapters of other tools' formats, restart decisions, platform and async
  summaries.
- *Scenario simulator*: select, branches, the bounded search, IO captures.
- *Lean core*: a proof development of its own.
