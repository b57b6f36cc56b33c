------------------------------ MODULE QueryCache ------------------------------
(***************************************************************************)
(* The demand-driven compiler session of kobo-driver (query.rs), for one   *)
(* source file.  A query reads the file to form its key, looks the key up, *)
(* and on a miss runs the phases below it, each of which reads the file    *)
(* again: every read is a step of its own here, and an editor may save the *)
(* file between two of them.  The configuration is replaced between        *)
(* queries only: set_config needs the session to itself.                   *)
(*                                                                         *)
(* What a phase computes is represented by what it is computed from: the   *)
(* texts, and what it reads of the configuration.                          *)
(***************************************************************************)
EXTENDS Naturals, FiniteSets, SequencesExt

CONSTANTS
    Texts,        \* contents the file may hold
    Broken,       \* those the parser accepts only when it recovers
    Missing,      \* the file cannot be read
    Configs,      \* KoboConfig values: records with the fields below
    AlwaysDiag,   \* the policies that instrument owners (diag_always_active)
    Refused,      \* <<text, what analysis reads of the configuration>>: analysis or the
                  \* ownership gate stops there
    NoKey, NoAnswer, Failed,
    MaxCalls, MaxEdits, MaxConfigs   \* bounds of the environment

\* Parse recovery; channel buffer size; transform options; guarantee policy; hot borrow
\* threshold; solver limit and budgets; output directory and runtime profile; names of the
\* dependencies; ecosystem policy.
ASSUME ConfigShape ==
    \A c \in Configs : DOMAIN c = {"recovery", "buffer", "transform", "policy", "threshold",
                                   "budget", "output", "deps", "ecosystem"}
ASSUME MissingIsNoText == Missing \notin Texts

Queries == {"parse", "kir", "diagnostics", "solver", "codegen"}

VARIABLES
    disk,      \* what the file holds
    config,    \* QuerySession.config
    cache,     \* QuerySession.cache: for each query, key |-> output
    stack,     \* the calls in progress, the innermost last
    answer,    \* what the last outermost call returned
    seen,      \* history: the contents of the file since that call began
    past,      \* history: every text the file has held
    undone,    \* history: the file went back to an earlier text
    disturbed, \* history: the file was saved while a call ran
    held,      \* history: every configuration the session has had
    built,     \* history: what parse() has parsed: text, recovery mode, buffer size
    again,     \* history: parse() has parsed one of these again
    calls, edits, configs

environment == <<past, undone, disturbed, held, calls, edits, configs>>
parsings == <<built, again>>
vars == <<disk, config, cache, stack, answer, seen, environment, parsings>>

-------------------------------------------------------------------------------
(* The keys: what each query takes its output to depend on.  Left out are  *)
(* the parts that follow from the text (file id, hash of the preprocessed  *)
(* source) and those that never change (versions).  No phase reads the     *)
(* channel buffer size, the hot borrow threshold or the solver budgets:    *)
(* they only split the keys.  The ecosystem policy is read and in no key.  *)

ParseKeyOfPath(t, c) == [text |-> CHOOSE u \in Texts : TRUE, recovery |-> c.recovery,
                         buffer |-> c.buffer]
ParseKeyPolicy(t, c) == [text |-> t, recovery |-> <<c.recovery, c.policy>>, buffer |-> c.buffer]
ParseKey(t, c) == [text |-> t, recovery |-> c.recovery, buffer |-> c.buffer]

KirKeyNoTransform(t, c) == [parse |-> ParseKey(t, c), transform |-> "any"]
KirKey(t, c) == [parse |-> ParseKey(t, c), transform |-> c.transform]

AnalysisKey(t, c) == [kir |-> KirKey(t, c), policy |-> c.policy, threshold |-> c.threshold]

SolverKey(t, c) == [kir |-> KirKey(t, c), budget |-> c.budget]

\* Two dependency tables of the same size have the same fingerprint.
CodegenKey(t, c) == [kir    |-> KirKey(t, c),
                     budget |-> c.budget,
                     diag   |-> c.policy \in AlwaysDiag,
                     output |-> c.output,
                     deps   |-> Cardinality(c.deps)]

KeyOf(q, t, c) == CASE q = "parse"       -> ParseKey(t, c)
                    [] q = "kir"         -> KirKey(t, c)
                    [] q = "solver"      -> SolverKey(t, c)
                    [] q = "diagnostics" -> AnalysisKey(t, c)
                    [] q = "codegen"     -> CodegenKey(t, c)

(* The queries a miss runs first.  kir() parses only if parse() has no     *)
(* output under the key that kir() has just formed.                        *)
Prerequisites(q, t, c) ==
    CASE q = "parse"       -> <<>>
      [] q = "kir"         -> IF ParseKey(t, c) \in DOMAIN cache["parse"]
                                THEN <<>> ELSE <<"parse">>
      [] q = "diagnostics" -> <<"kir", "parse">>
      [] q = "solver"      -> <<"kir">>
      [] q = "codegen"     -> <<"kir">>

-------------------------------------------------------------------------------
(* The phases, each represented by its inputs. *)

Parses(t) == t \in Texts /\ (t \in Broken => config.recovery)

\* run_kir_phase: the source, the recovery mode and the transform options.
KirOf(t) == [text |-> t, recovery |-> config.recovery, transform |-> config.transform]

SelectExecutor(deps) ==
    IF "tokio" \in deps THEN "tokio" ELSE IF "async-std" \in deps THEN "async-std" ELSE "none"

\* run_analysis_phase: the policy decides what is reported, and K0062 depends on whether the
\* dependencies name an executor.
DiagnosticsFor(c) == [policy |-> c.policy, executor |-> SelectExecutor(c.deps) # "none"]

\* run_codegen_pipeline, once analysis has let it pass
GeneratedFor(c) == [diag      |-> c.policy \in AlwaysDiag,
                    executor  |-> SelectExecutor(c.deps),
                    output    |-> c.output,
                    ecosystem |-> c.ecosystem]

\* The texts an output was computed from.
TextsOf(q, out) ==
    IF q = "diagnostics" THEN {out.kir.text, out.parsed.text, out.text}
                         ELSE {out.kir.text}

-------------------------------------------------------------------------------
Frame(q) == [query |-> q, key |-> NoKey, todo |-> <<>>, got |-> <<>>]

Init ==
    /\ disk \in Texts
    /\ config \in Configs
    /\ cache = [q \in Queries |-> <<>>]
    /\ stack = <<>>
    /\ answer = NoAnswer
    /\ seen = {disk}
    /\ past = {disk}
    /\ undone = FALSE
    /\ disturbed = FALSE
    /\ held = {config}
    /\ built = {} /\ again = FALSE
    /\ calls = 0
    /\ edits = 0
    /\ configs = 0

Top == Last(stack)

\* `?` in every caller: an error ends the outermost call, and nothing is stored.
Fail ==
    /\ stack' = <<>>
    /\ answer' = Failed
    /\ UNCHANGED cache

Return(out) ==
    IF Len(stack) = 1
      THEN stack' = <<>> /\ answer' = [query |-> Top.query, out |-> out]
      ELSE /\ stack' = [Front(stack) EXCEPT ![Len(stack) - 1].got = Append(@, out)]
           /\ UNCHANGED answer

Store(out) ==
    /\ cache' = [cache EXCEPT ![Top.query] =
                    [k \in DOMAIN @ \union {Top.key} |-> IF k = Top.key THEN out ELSE @[k]]]
    /\ Return(out)

Call(q) ==
    /\ stack = <<>>
    /\ calls < MaxCalls
    /\ stack' = <<Frame(q)>>
    /\ answer' = NoAnswer
    /\ seen' = {disk}
    /\ calls' = calls + 1
    /\ UNCHANGED <<disk, config, cache, past, undone, disturbed, held, parsings, edits, configs>>

(* The first lines of every query: read the file, form the key, look it up. *)
ReadKey ==
    /\ stack # <<>>
    /\ Top.key = NoKey
    /\ IF disk = Missing THEN Fail
       ELSE LET key == KeyOf(Top.query, disk, config) IN
            /\ UNCHANGED cache
            /\ IF key \in DOMAIN cache[Top.query]
                 THEN Return(cache[Top.query][key])
                 ELSE /\ stack' = [stack EXCEPT ![Len(stack)] =
                             [@ EXCEPT !.key = key,
                                       !.todo = Prerequisites(Top.query, disk, config)]]
                      /\ UNCHANGED answer
    /\ UNCHANGED <<disk, config, seen, environment, parsings>>

(* A call of the next query below, by path: it forms a key of its own. *)
Descend ==
    /\ stack # <<>>
    /\ Top.key # NoKey
    /\ Top.todo # <<>>
    /\ stack' = Append([stack EXCEPT ![Len(stack)].todo = Tail(@)], Frame(Head(Top.todo)))
    /\ UNCHANGED <<disk, config, cache, answer, seen, environment, parsings>>

Ready(q) ==
    /\ stack # <<>>
    /\ Top.query = q
    /\ Top.key # NoKey
    /\ Top.todo = <<>>
    /\ UNCHANGED <<disk, config, seen, environment>>

BuildParse ==
    /\ Ready("parse")
    /\ IF Parses(disk)
         THEN LET parsing == [text |-> disk, recovery |-> config.recovery,
                              buffer |-> config.buffer] IN
              /\ Store([kir |-> KirOf(disk)])
              /\ built' = built \union {parsing}
              /\ again' = (again \/ parsing \in built)
         ELSE Fail /\ UNCHANGED parsings

BuildKir ==
    /\ Ready("kir")
    /\ IF Parses(disk) THEN Store([kir |-> KirOf(disk)]) ELSE Fail
    /\ UNCHANGED parsings

(* diagnostics() analyses the KIR of one call against the poisoned spans   *)
(* and diagnostics of another and the source it reads now; errors that the *)
(* analysis finds are part of its output.                                  *)
BuildDiagnostics ==
    /\ Ready("diagnostics")
    /\ IF disk = Missing THEN Fail
       ELSE Store([kir |-> Top.got[1].kir, parsed |-> Top.got[2].kir,
                   text |-> disk, options |-> DiagnosticsFor(config)])
    /\ UNCHANGED parsings

BuildSolver ==
    /\ Ready("solver")
    /\ Store([kir |-> Top.got[1].kir])
    /\ UNCHANGED parsings

BuildCodegen ==
    /\ Ready("codegen")
    /\ IF Parses(disk) /\ <<disk, DiagnosticsFor(config)>> \notin Refused
         THEN Store([kir |-> KirOf(disk), options |-> GeneratedFor(config)])
         ELSE Fail
    /\ UNCHANGED parsings

-------------------------------------------------------------------------------
(* The environment: an editor saves or removes the file, the owner of the  *)
(* session replaces its configuration.                                     *)
Edit(t) ==
    /\ edits < MaxEdits
    /\ t # disk
    /\ disk' = t
    /\ seen' = IF stack = <<>> THEN seen ELSE seen \union {t}
    /\ past' = past \union {t}
    /\ undone' = (undone \/ t \in past)
    /\ disturbed' = (disturbed \/ stack # <<>>)
    /\ edits' = edits + 1
    /\ UNCHANGED <<config, cache, stack, answer, held, parsings, calls, configs>>

SetConfig(c) ==
    /\ stack = <<>>
    /\ configs < MaxConfigs
    /\ c # config
    /\ config' = c
    /\ answer' = NoAnswer
    /\ held' = held \union {c}
    /\ configs' = configs + 1
    /\ UNCHANGED <<disk, cache, stack, seen, past, undone, disturbed, parsings, calls, edits>>

Work == ReadKey \/ Descend \/ BuildParse \/ BuildKir \/ BuildDiagnostics
          \/ BuildSolver \/ BuildCodegen

Next ==
    \/ Work
    \/ \E q \in Queries : Call(q)
    \/ \E t \in Texts \union {Missing} : Edit(t)
    \/ \E c \in Configs : SetConfig(c)

Spec == Init /\ [][Next]_vars

-------------------------------------------------------------------------------
(* The calls in progress form a chain down the phases, every one of them   *)
(* past its own key before it calls the next, with the outputs it was      *)
(* given in the order it asked for them; what is stored is stored under a  *)
(* key of the right query.                                                 *)
TypeOK ==
    /\ disk \in Texts \union {Missing}
    /\ config \in Configs
    /\ \A q \in Queries : \A k \in DOMAIN cache[q] :
          \E t \in Texts, c \in Configs : k = KeyOf(q, t, c)
    /\ Len(stack) <= 3
    /\ \A i \in 1 .. Len(stack) :
          LET f == stack[i] IN
            /\ f.query \in Queries
            /\ i < Len(stack) => f.key # NoKey
            /\ f.key # NoKey => f.key \notin DOMAIN cache[f.query]
            /\ f.query = "diagnostics" /\ f.key # NoKey =>
                  Len(f.todo) + Len(f.got)
                     + (IF i < Len(stack) THEN 1 ELSE 0) = 2

Answered(q) == answer \notin {NoAnswer, Failed} /\ answer.query = q

(* "source_content_change_invalidates_downstream_queries" (query_checks):  *)
(* whatever a query returns was computed from texts the file held while    *)
(* that query ran.  It takes a save in the middle of a query and a later   *)
(* return to an earlier text, both, to get anything else: the output of    *)
(* the newer text is then stored under the key of the older one.           *)
AnswerIsCurrent ==
    (undone /\ disturbed) \/
      \A q \in Queries : Answered(q) => TextsOf(q, answer.out) \subseteq seen

(* Whatever the file did meanwhile, the answer of parse, kir, solver and   *)
(* diagnostics was computed with the options the session holds now, with   *)
(* one exception: K0062 of diagnostics may go by the dependencies of an    *)
(* earlier configuration, and only of one with the same recovery mode,     *)
(* transform options and policy.                                           *)
AnswerKeepsConfig ==
    \A q \in Queries \ {"codegen"} : Answered(q) =>
       LET out == answer.out IN
         /\ out.kir.recovery = config.recovery
         /\ q # "parse" => out.kir.transform = config.transform
         /\ q = "diagnostics" =>
              /\ out.parsed.recovery = config.recovery
              /\ \E c \in held :
                    /\ c.recovery = config.recovery /\ c.transform = config.transform
                    /\ c.policy = config.policy
                    /\ out.options = DiagnosticsFor(c)

(* "policy-only config changes must reuse parse output" (query_checks):    *)
(* unless the file was saved under a running query, parse() parses a text  *)
(* once for each recovery mode and channel buffer size, however the        *)
(* queries nest, whatever fails, and whatever else of the configuration    *)
(* moves to and fro.                                                       *)
ParsedOnce == disturbed \/ ~again

(* "keyed by source and configuration fingerprints" (query.rs:26): what    *)
(* codegen returns was generated with the options the session holds now,   *)
(* from a text that analysis under them does not refuse.                   *)
CodegenKeepsConfig ==
    Answered("codegen") =>
       /\ answer.out.options = GeneratedFor(config)
       /\ <<answer.out.kir.text, DiagnosticsFor(config)>> \notin Refused
===============================================================================
