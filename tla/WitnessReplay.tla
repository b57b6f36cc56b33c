---------------------------- MODULE WitnessReplay ----------------------------
(***************************************************************************)
(* A scenario is run and its witness written (kobo test, test/run.rs), and *)
(* the witness is replayed later (kobo replay, replay.rs).  Both commands  *)
(* read the source file twice: its text for the hash, and again when the   *)
(* compiler loads it; the file may be edited at any time.                  *)
(*                                                                         *)
(* The simulator itself is EngineAgreement; here a text determines what    *)
(* one run of it shows.  Only the seed changes from run to run, and it     *)
(* changes events but never whether the scenario fails.  The options of a  *)
(* run that the witness keeps as they were are left out.                   *)
(***************************************************************************)
EXTENDS Naturals, Sequences, SequencesExt

CONSTANTS
  Texts,      \* texts of the source file, each with its own hash
  Program,    \* what the compiler and the simulator make of a text
  Settings,   \* seed, seed count, engine, shrink mode and clock of a test run
  Edits,      \* the texts that an edit may leave of a text
  MaxEdits,   \* bound on the edits of the file
  NoText      \* before anything is read

\* A step of the scenario, one that carries the seed, and one that a shrink
\* may remove (scheduler-pct-seed, network-delayed, network-reordered).
Kinds == {"step", "seeded", "noise"}

\* How the two engines compare: the traces match; they diverge; the semantic
\* engine settles the run alone; or a part of the scenario is opaque.
Outcomes == {"matched", "diverged", "alone", "partial"}

Programs == [rust : Nat, kinds : Seq(Kinds), fails : BOOLEAN,
             outcome : Outcomes, check : BOOLEAN]

ASSUME ReplayAssumption ==
  /\ Program \in [Texts -> Programs]
  /\ NoText \notin Texts
  /\ Settings \subseteq [seed : Nat, count : Nat \ {0}, engine : {"both", "semantic"},
                         shrink : BOOLEAN, clock : BOOLEAN]
  /\ Edits \in [Texts -> SUBSET Texts]
  /\ MaxEdits \in Nat

VARIABLES
  file,     \* the text on disk
  edits,    \* its edits so far
  torn,     \* whether it was edited between the two reads of a command
  setting,
  phase,
  hash,     \* the text that the running command has hashed
  text,     \* the text that it has compiled
  run,      \* the run of the simulator that it has made
  witness,  \* the witness on disk
  verdict   \* of the replay

vars == <<file, edits, torn, setting, phase, hash, text, run, witness, verdict>>

NoRun == [events |-> << >>, seed |-> 0, failure |-> "none", rust |-> 0,
          guarantee |-> "none", harness |-> FALSE]

\* "text" is the text that the recorded run was compiled from: the witness
\* does not hold it, only the properties use it.
Witness(r, h, removed, t) ==
  [events |-> r.events, seed |-> r.seed, failure |-> r.failure, rust |-> r.rust,
   guarantee |-> r.guarantee, harness |-> r.harness,
   hash |-> h, removed |-> removed, text |-> t]

Verdicts == {"none", "exact", "blocked", "K0115", "K0106", "K0104"}

Init ==
  /\ file \in Texts
  /\ edits = 0
  /\ torn = FALSE
  /\ setting \in Settings
  /\ phase = "record"
  /\ hash = NoText
  /\ text = NoText
  /\ run = NoRun
  /\ witness = Witness(NoRun, NoText, {}, NoText)
  /\ verdict = "none"

-----------------------------------------------------------------------------
\* One run of the simulator.

Event(kind, value, index, count) ==
  [kind |-> kind, value |-> value, index |-> index, count |-> count]

EventsOf(p, seed) ==
  [i \in DOMAIN p.kinds |-> Event(p.kinds[i], IF p.kinds[i] = "step" THEN 0 ELSE seed, 0, 0)]

SemanticFailure(p) == IF p.fails THEN "semantic" ELSE "none"

Guarantee(p, engine) ==
  IF engine = "semantic" \/ p.outcome = "partial" THEN "partial"
  ELSE IF p.outcome = "diverged" THEN "not_replayable" ELSE "exact"

Harness(p, engine) == engine = "both" /\ p.outcome \in {"matched", "diverged"}

\* run_full_depth_from_program; of a run with a divergence only the verdict
\* matters, its doubled events are left out.
RunOf(p, seed, engine) ==
  [events    |-> EventsOf(p, seed),
   seed      |-> seed,
   failure   |-> IF engine = "both" /\ p.outcome = "diverged" /\ ~p.fails
                   THEN "diverged" ELSE SemanticFailure(p),
   rust      |-> IF Harness(p, engine) THEN p.rust ELSE 0,
   guarantee |-> Guarantee(p, engine),
   harness   |-> Harness(p, engine)]

-----------------------------------------------------------------------------
\* Seed portfolios.

\* How many seeds a portfolio of count seeds runs: it stops at a failure.
\* Mutant: it goes on.
ExecutedAll(p, count) == count

Executed(p, count) == IF p.fails THEN 1 ELSE count

Marker(seed, index, count) == Event("seed-case", seed + index, index, count)

Markers(seed, n, count) == [i \in 1 .. n |-> Marker(seed, i - 1, count)]

Cap(n, count) == Event("seed-portfolio-cap", 0, n, count)

\* The markers and the events of all runs but the last.
Explored(p, seed, n, count) ==
  FlattenSeq([i \in 1 .. n |->
    <<Marker(seed, i - 1, count)>> \o
      (IF i < n THEN EventsOf(p, seed + i - 1) ELSE << >>)])

\* The portfolio of a test run.  With the harness the events of the runs
\* before the last one are dropped.  The clock may stop a portfolio after any
\* seed but the last.
PortfolioWith(p, s, n) ==
  LET stopped == n < Executed(p, s.count)
      cap     == IF stopped THEN <<Cap(n, s.count)>> ELSE << >>
      last    == RunOf(p, s.seed + n - 1, s.engine)
      before  == IF s.engine = "both" THEN Markers(s.seed, n, s.count) \o cap
                 ELSE Explored(p, s.seed, n, s.count)
  IN  [last EXCEPT !.events =
        IF s.engine = "semantic" /\ stopped THEN before \o @ \o cap ELSE before \o @]

Recorded(p, s, n) ==
  IF s.count = 1 THEN RunOf(p, s.seed, s.engine) ELSE PortfolioWith(p, s, n)

\* The portfolio of a replay starts at the seed of the witness and keeps the
\* events of all its runs.
Replayed(p, seed, count) ==
  IF count = 1 THEN RunOf(p, seed, "both")
  ELSE LET n == Executed(p, count)
       IN  [RunOf(p, seed + n - 1, "both") EXCEPT
              !.events = Explored(p, seed, n, count) \o @]

-----------------------------------------------------------------------------
\* kobo test.

\* A command has read the text and hashed it; the compiler reads it again.
Compile(from, to) ==
  /\ phase = from
  /\ text' = file
  /\ phase' = to
  /\ UNCHANGED <<file, edits, torn, setting, hash, run, witness, verdict>>

LoadDocument ==
  /\ phase = "record"
  /\ hash' = file
  /\ phase' = "loaded"
  /\ UNCHANGED <<file, edits, torn, setting, text, run, witness, verdict>>

RecordCompile == Compile("loaded", "compiled")

ExecuteScenario ==
  /\ phase = "compiled"
  /\ \E n \in 1 .. Executed(Program[text], setting.count) :
       /\ n = Executed(Program[text], setting.count) \/ setting.clock
       /\ run' = Recorded(Program[text], setting, n)
  /\ phase' = "executed"
  /\ UNCHANGED <<file, edits, torn, setting, hash, text, witness, verdict>>

\* Strict liveness, trace checks and the comparison with a model look at a
\* run that has not failed.
ApplyReplayChecks ==
  /\ phase = "executed"
  /\ run' = [run EXCEPT !.failure = IF @ = "none" /\ Program[text].check THEN "check" ELSE @]
  /\ phase' = "checked"
  /\ UNCHANGED <<file, edits, torn, setting, hash, text, witness, verdict>>

\* Mutant: the places are counted from the next one.
RemovedNext(r) ==
  IF setting.shrink /\ r.guarantee = "exact"
    THEN {i + 1 : i \in {j \in DOMAIN r.events : r.events[j].kind = "noise"}}
    ELSE {}

\* The events that a shrink removes, by their places.
Removed(r) ==
  IF setting.shrink /\ r.guarantee = "exact"
    THEN {i \in DOMAIN r.events : r.events[i].kind = "noise"}
    ELSE {}

\* The witness keeps the digest of all events of the run, and the places of
\* those that it leaves out.
WriteWitness ==
  /\ phase = "checked"
  /\ witness' = Witness(run, hash, Removed(run), text)
  /\ phase' = "replay"
  /\ UNCHANGED <<file, edits, torn, setting, hash, text, run, verdict>>

-----------------------------------------------------------------------------
\* kobo replay.

Answer(v) ==
  /\ verdict' = v
  /\ phase' = "done"

Blocked == witness.guarantee # "exact"

\* validate_witness: an exact witness must name the scope its harness ran in, and a run without
\* a harness leaves no manifest.
NoManifest == ~witness.harness

\* Mutant: what is compiled from the source is compared, not its text.
ChangedRust == Program[file].rust # witness.rust

ChangedSource == file # witness.hash

\* The checks of the witness and of the source's hash, in their order.
VerifySource ==
  /\ phase = "replay"
  /\ IF Blocked THEN Answer("blocked")
     ELSE IF NoManifest THEN Answer("K0115")
     ELSE IF ChangedSource THEN Answer("K0104")
     ELSE phase' = "verified" /\ UNCHANGED verdict
  /\ hash' = IF Blocked \/ NoManifest THEN hash ELSE file
  /\ UNCHANGED <<file, edits, torn, setting, text, run, witness>>

ReplayCompile == Compile("verified", "rebuilt")

\* The count is taken from the label of the first marker in the witness.
WitnessCount ==
  LET markers == {i \in DOMAIN witness.events : witness.events[i].kind = "seed-case"}
  IN  IF markers = {} THEN 1 ELSE witness.events[Min(markers)].count

ExecuteReplay ==
  /\ phase = "rebuilt"
  /\ run' = Replayed(Program[text], witness.seed, WitnessCount)
  /\ phase' = "compare"
  /\ UNCHANGED <<file, edits, torn, setting, hash, text, witness, verdict>>

Irrelevant == {"noise", "seed-case"}

\* A removed event must be irrelevant in the replay as well, when the replay
\* has an event at its place.
ShrinkUnsafe ==
  \E i \in witness.removed \cap DOMAIN run.events : run.events[i].kind \notin Irrelevant

\* Mutant: the hash of the generated Rust is not compared.
SameExceptRust ==
  /\ run.events = witness.events
  /\ run.failure = witness.failure

\* The digest of the events and of the Rust, and the failure.
Same ==
  /\ run.events = witness.events
  /\ run.failure = witness.failure
  /\ run.rust = witness.rust
  /\ run.harness = witness.harness

CompareReplay ==
  /\ phase = "compare"
  /\ Answer(IF ShrinkUnsafe THEN "K0106" ELSE IF Same THEN "exact" ELSE "K0104")
  /\ UNCHANGED <<file, edits, torn, setting, hash, text, run, witness>>

-----------------------------------------------------------------------------
\* The file is edited, at any time.
Edit ==
  /\ edits < MaxEdits
  /\ phase # "done"
  /\ \E t \in Edits[file] : file' = t
  /\ edits' = edits + 1
  /\ torn' = (torn \/ phase \in {"loaded", "verified"})
  /\ UNCHANGED <<setting, phase, hash, text, run, witness, verdict>>

Next ==
  \/ LoadDocument \/ RecordCompile \/ ExecuteScenario \/ ApplyReplayChecks \/ WriteWitness
  \/ VerifySource \/ ReplayCompile \/ ExecuteReplay \/ CompareReplay
  \/ Edit

Spec == Init /\ [][Next]_vars

-----------------------------------------------------------------------------
Events == [kind : Kinds \cup {"seed-case", "seed-portfolio-cap"},
           value : Nat, index : Nat, count : Nat]

Failures == {"none", "semantic", "diverged", "check"}

RunTyped(r) ==
  /\ r.events \in Seq(Events)
  /\ r.seed \in Nat /\ r.rust \in Nat
  /\ r.failure \in Failures
  /\ r.guarantee \in {"none", "partial", "not_replayable", "exact"}
  /\ r.harness \in BOOLEAN

TypeOK ==
  /\ file \in Texts
  /\ edits \in 0 .. MaxEdits
  /\ torn \in BOOLEAN
  /\ setting \in Settings
  /\ phase \in {"record", "loaded", "compiled", "executed", "checked", "replay",
                "verified", "rebuilt", "compare", "done"}
  /\ {hash, text, witness.hash, witness.text} \subseteq Texts \cup {NoText}
  /\ RunTyped(run) /\ RunTyped(witness)
  /\ witness.removed \subseteq DOMAIN witness.events
  /\ verdict \in Verdicts
  /\ (phase = "done") <=> (verdict # "none")

(***************************************************************************)
(* What a replay answers when nobody touches the file.  It is exact for a  *)
(* run whose traces matched, unless the failure came from a check after    *)
(* the run, which the replay does not repeat, or the run is the last of a  *)
(* portfolio that passed, which the replay starts at the wrong seed.  A    *)
(* shrink is blamed only in such a portfolio.                              *)
(***************************************************************************)
Replayable(p) ==
  /\ p.outcome = "matched"
  /\ setting.engine = "both"
  /\ p.check => p.fails
  /\ setting.count = 1 \/ p.fails

WhatReplays ==
  phase = "done" /\ edits = 0 =>
    /\ verdict = "exact" <=> Replayable(Program[file])
    /\ verdict = "K0106" => setting.shrink /\ setting.count > 1 /\ ~Program[file].fails

(***************************************************************************)
(* An exact replay has built and run the same Rust as the recorded run and *)
(* failed as it did, however the file was edited.                          *)
(***************************************************************************)
ExactSameProgram ==
  verdict = "exact" =>
    /\ Program[text].rust = Program[witness.text].rust
    /\ Program[text].fails = Program[witness.text].fails

(***************************************************************************)
(* An exact replay has compiled the text that the witness vouches for, and *)
(* so had the recorded run, unless the file was edited between the two     *)
(* reads of one command.                                                   *)
(***************************************************************************)
ExactVouchesText ==
  verdict = "exact" /\ ~torn => text = witness.hash /\ witness.text = witness.hash
=============================================================================
