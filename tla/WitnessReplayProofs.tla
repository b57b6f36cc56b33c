------------------------- MODULE WitnessReplayProofs -------------------------
(***************************************************************************)
(* What an exact replay says of the program, for any texts, portfolios and *)
(* number of edits: it ran the recorded Rust and failed as it did, and the *)
(* witness vouches for its text unless an edit fell between two reads.     *)
(* Then which runs of an untouched file replay exactly: as long as it is   *)
(* not edited, run, witness and verdict follow from its program, the       *)
(* settings and the number of seeds that ran, and what remains is to       *)
(* compare the events of a portfolio with those of its replay.             *)
(***************************************************************************)
EXTENDS WitnessReplay, NaturalsInduction, WellFoundedInduction, TLAPS

\* What a run shows of the text that it was compiled from.
FromText(r, t) ==
  /\ t \in Texts
  /\ r.harness => r.rust = Program[t].rust
  /\ r.failure = "semantic" <=> Program[t].fails

Holding    == {"replay", "verified", "rebuilt", "compare", "done"}
Recording  == {"compiled", "executed", "checked"}
Rebuilding == {"rebuilt", "compare"}

Origin ==
  /\ file \in Texts
  /\ phase \in Recording \cup Rebuilding => text \in Texts
  /\ phase \in {"executed", "checked", "compare"} => FromText(run, text)
  /\ phase \in Holding => FromText(witness, witness.text)
  /\ phase \in {"verified"} \cup Rebuilding => witness.harness
  /\ verdict = "exact" =>
       /\ phase = "done"
       /\ FromText(run, text)
       /\ witness.harness
       /\ Same

Vouched ==
  ~torn =>
    /\ phase = "loaded" => hash = file
    /\ phase \in Recording => text = hash
    /\ phase \in Holding => witness.text = witness.hash
    /\ phase = "verified" => file = witness.hash
    /\ phase \in Rebuilding \/ verdict = "exact" => text = witness.hash

-----------------------------------------------------------------------------
\* A run, and a portfolio, show the text they were made from.
LEMMA RunShowsText ==
  ASSUME NEW t \in Texts, NEW seed, NEW engine
  PROVE  /\ FromText(RunOf(Program[t], seed, engine), t)
         /\ \A e : FromText([RunOf(Program[t], seed, engine) EXCEPT !.events = e], t)
<1>1. Program[t].fails \in BOOLEAN
  BY ReplayAssumption DEF Programs
<1> QED BY <1>1 DEF FromText, RunOf, Harness, SemanticFailure

\* A recorded run shows the text it was compiled from.
LEMMA RecordedShowsText ==
  ASSUME NEW t \in Texts, NEW n
  PROVE  FromText(Recorded(Program[t], setting, n), t)
<1> DEFINE last == RunOf(Program[t], setting.seed + n - 1, setting.engine)
<1>1. \A e : FromText([last EXCEPT !.events = e], t)
  BY RunShowsText
<1>2. \E e : PortfolioWith(Program[t], setting, n) = [last EXCEPT !.events = e]
  BY DEF PortfolioWith
<1>3. FromText(PortfolioWith(Program[t], setting, n), t)
  BY <1>1, <1>2
<1> QED BY <1>3, RunShowsText DEF Recorded

\* So does a replayed one.
LEMMA ReplayedShowsText ==
  ASSUME NEW t \in Texts, NEW seed, NEW count
  PROVE  FromText(Replayed(Program[t], seed, count), t)
<1> DEFINE n == Executed(Program[t], count)
           last == RunOf(Program[t], seed + n - 1, "both")
<1>1. \A e : FromText([last EXCEPT !.events = e], t)
  BY RunShowsText
<1>2. count # 1 => \E e : Replayed(Program[t], seed, count) = [last EXCEPT !.events = e]
  BY DEF Replayed
<1> HIDE DEF last
<1>3. count # 1 => FromText(Replayed(Program[t], seed, count), t)
  BY <1>1, <1>2
<1>4. count = 1 => FromText(Replayed(Program[t], seed, count), t)
  BY RunShowsText DEF Replayed
<1> QED BY <1>3, <1>4

-----------------------------------------------------------------------------
\* Every step keeps runs and witness true to the texts they came from.
LEMMA OriginInductive ==
  ASSUME Origin, [Next]_vars
  PROVE  Origin'
<1> USE DEF Holding, Recording, Rebuilding
<1>1. CASE LoadDocument
  BY <1>1 DEF LoadDocument, Origin, FromText
<1>2. CASE RecordCompile
  BY <1>2 DEF RecordCompile, Compile, Origin, FromText
<1>3. CASE ExecuteScenario
  <2>1. text \in Texts
    BY <1>3 DEF ExecuteScenario, Origin
  <2>2. PICK n : run' = Recorded(Program[text], setting, n)
    BY <1>3 DEF ExecuteScenario
  <2>3. FromText(run', text')
    BY <1>3, <2>1, <2>2, RecordedShowsText DEF ExecuteScenario
  <2> QED BY <1>3, <2>1, <2>3 DEF ExecuteScenario, Origin
<1>4. CASE ApplyReplayChecks
  <2>1. FromText(run, text) /\ text \in Texts
    BY <1>4 DEF ApplyReplayChecks, Origin
  <2>2. FromText(run', text')
    BY <1>4, <2>1 DEF ApplyReplayChecks, FromText
  <2> QED BY <1>4, <2>1, <2>2 DEF ApplyReplayChecks, Origin
<1>5. CASE WriteWitness
  <2>1. FromText(run, text) /\ witness' = Witness(run, hash, Removed(run), text)
    BY <1>5 DEF WriteWitness, Origin
  <2>2. FromText(witness', witness'.text)
    BY <2>1 DEF FromText, Witness
  <2> QED BY <1>5, <2>2 DEF WriteWitness, Origin
<1>6. CASE VerifySource
  BY <1>6 DEF VerifySource, Origin, Answer, NoManifest, Same
<1>7. CASE ReplayCompile
  BY <1>7 DEF ReplayCompile, Compile, Origin
<1>8. CASE ExecuteReplay
  <2>1. text \in Texts
    BY <1>8 DEF ExecuteReplay, Origin
  <2>2. FromText(run', text')
    BY <1>8, <2>1, ReplayedShowsText DEF ExecuteReplay
  <2> QED BY <1>8, <2>1, <2>2 DEF ExecuteReplay, Origin
<1>9. CASE CompareReplay
  BY <1>9 DEF CompareReplay, Answer, Origin, Same
<1>10. CASE Edit
  <2>1. file' \in Texts
    BY <1>10, ReplayAssumption DEF Edit, Origin
  <2> QED BY <1>10, <2>1 DEF Edit, Origin, Same
<1>11. CASE UNCHANGED vars
  BY <1>11 DEF vars, Origin, Same
<1> QED BY <1>1, <1>2, <1>3, <1>4, <1>5, <1>6, <1>7, <1>8, <1>9, <1>10, <1>11 DEF Next

\* Without an edit between two reads, hash and compiled text stay the same.
LEMMA VouchedInductive ==
  ASSUME Origin, Vouched, [Next]_vars
  PROVE  Vouched'
<1> USE DEF Holding, Recording, Rebuilding
<1>1. CASE LoadDocument
  BY <1>1 DEF LoadDocument, Vouched, Origin
<1>2. CASE RecordCompile
  BY <1>2 DEF RecordCompile, Compile, Vouched, Origin
<1>3. CASE ExecuteScenario
  BY <1>3 DEF ExecuteScenario, Vouched, Origin
<1>4. CASE ApplyReplayChecks
  BY <1>4 DEF ApplyReplayChecks, Vouched, Origin
<1>5. CASE WriteWitness
  BY <1>5 DEF WriteWitness, Witness, Vouched, Origin
<1>6. CASE VerifySource
  BY <1>6 DEF VerifySource, Answer, ChangedSource, Vouched, Origin
<1>7. CASE ReplayCompile
  BY <1>7 DEF ReplayCompile, Compile, Vouched, Origin
<1>8. CASE ExecuteReplay
  BY <1>8 DEF ExecuteReplay, Vouched, Origin
<1>9. CASE CompareReplay
  BY <1>9 DEF CompareReplay, Answer, Vouched, Origin
<1>10. CASE Edit
  BY <1>10 DEF Edit, Vouched, Origin
<1>11. CASE UNCHANGED vars
  BY <1>11 DEF vars, Vouched
<1> QED BY <1>1, <1>2, <1>3, <1>4, <1>5, <1>6, <1>7, <1>8, <1>9, <1>10, <1>11 DEF Next

\* Both hold at the start.
LEMMA OriginInit == Init => Origin /\ Vouched
BY DEF Init, Origin, Vouched, Holding, Recording, Rebuilding

-----------------------------------------------------------------------------
\* An exact replay ran the Rust of the recorded run and failed as it did:
\* ExactSameProgram, for any texts and any number of edits.
THEOREM ExactRepeatsProgram == Spec => []ExactSameProgram
<1>1. Origin => ExactSameProgram
  <2> SUFFICES ASSUME Origin, verdict = "exact" PROVE ExactSameProgram
    BY DEF ExactSameProgram
  <2>1. FromText(run, text) /\ FromText(witness, witness.text) /\ witness.harness /\ Same
    BY DEF Origin, Holding
  <2>2. Program[text].fails \in BOOLEAN /\ Program[witness.text].fails \in BOOLEAN
    BY <2>1, ReplayAssumption DEF FromText, Programs
  <2> QED BY <2>1, <2>2 DEF ExactSameProgram, FromText, Same
<1> QED BY <1>1, OriginInit, OriginInductive, PTL DEF Spec

\* Without an edit between the two reads of a command an exact replay and the
\* recorded run have compiled the text that was hashed: ExactVouchesText.
THEOREM ExactVouches == Spec => []ExactVouchesText
<1>1. Origin /\ Vouched => ExactVouchesText
  BY DEF ExactVouchesText, Vouched, Origin, Holding
<1> QED BY <1>1, OriginInit, OriginInductive, VouchedInductive, PTL DEF Spec

-----------------------------------------------------------------------------
(***************************************************************************)
(* What flattening makes of the parts of a portfolio.                      *)
(***************************************************************************)

\* Every nonempty set of naturals has a least element.
LEMMA LeastNatural ==
  ASSUME NEW S \in SUBSET Nat, S # {}
  PROVE  \E b \in S : \A d \in S : b <= d
<1> DEFINE R == {ss \in Nat \X Nat : ss[1] < ss[2]}
<1>1. \E b \in S : \A d \in S : ~(<<d, b>> \in OpToRel(<, Nat))
  BY NatLessThanWellFounded, WFMin
<1>2. \E b \in S : \A d \in S : ~(<<d, b>> \in R)
  BY Zenon, <1>1 DEF OpToRel
<1>3. ASSUME NEW d \in Nat, NEW b \in Nat, <<d, b>> \notin R
      PROVE  b <= d
  BY <1>3
<1> HIDE DEF R
<1> QED BY <1>2, <1>3

\* The function that joins the parts one by one.
LEMMA FlattenExists ==
  ASSUME NEW n \in Nat, NEW seqs
  PROVE  \E f : f = [i \in 1 .. n |-> IF i = 1 THEN seqs[i] ELSE f[i - 1] \o seqs[i]]
<1> DEFINE Joined(f, i) == IF i = 1 THEN seqs[i] ELSE f[i - 1] \o seqs[i]
           Upto(f, m) == /\ f = [i \in 1 .. n |-> f[i]]
                         /\ \A i \in 1 .. n : i <= m => f[i] = Joined(f, i)
           Bad == {m \in Nat : ~\E f : Upto(f, m)}
<1>1. ASSUME Bad # {} PROVE FALSE
  <2>1. PICK m \in Bad : \A k \in Bad : m <= k
    BY <1>1, LeastNatural
  <2>2. m # 0
    <3> DEFINE f == [i \in 1 .. n |-> << >>]
    <3>1. \A i \in 1 .. n : i <= 0 => f[i] = Joined(f, i)
      OBVIOUS
    <3>2. f = [i \in 1 .. n |-> f[i]]
      OBVIOUS
    <3> HIDE DEF f, Joined
    <3>3. Upto(f, 0)
      BY <3>1, <3>2
    <3> QED BY <2>1, <3>3
  <2>3. m - 1 \in Nat /\ m - 1 \notin Bad /\ m \in Nat
    <3>1. m \in Nat
      BY <2>1
    <3>2. m - 1 \in Nat /\ ~(m <= m - 1)
      BY <2>2, <3>1
    <3> HIDE DEF Bad
    <3> QED BY <2>1, <3>1, <3>2
  <2> HIDE DEF Joined
  <2>4. PICK f : Upto(f, m - 1)
    BY <2>3
  <2> DEFINE g == [i \in 1 .. n |-> IF i = m THEN Joined(f, i) ELSE f[i]]
  <2>5. ASSUME NEW i \in 1 .. n, i <= m
        PROVE  g[i] = Joined(g, i)
    <3>1. i # 1 => i - 1 \in 1 .. n /\ i - 1 # m
      BY <2>3, <2>5
    <3>2. i # 1 => g[i - 1] = f[i - 1]
      BY <3>1
    <3>3. Joined(f, i) = Joined(g, i)
      <4> HIDE DEF g
      <4> QED BY <3>2 DEF Joined
    <3>4. i # m => f[i] = Joined(f, i)
      BY <2>3, <2>4, <2>5
    <3> QED BY <3>3, <3>4
  <2>6. g = [i \in 1 .. n |-> g[i]]
    OBVIOUS
  <2> HIDE DEF g
  <2>7. Upto(g, m)
    BY <2>5, <2>6
  <2> QED BY <2>1, <2>7
<1>2. n \notin Bad
  BY <1>1
<1>3. PICK f : Upto(f, n)
  BY <1>2
<1> HIDE DEF Joined
<1>4. \A i \in 1 .. n : f[i] = Joined(f, i)
  BY <1>3
<1>5. f = [i \in 1 .. n |-> Joined(f, i)]
  BY <1>3, <1>4
<1> QED BY <1>5 DEF Joined

\* Two sequences joined.
LEMMA JoinType ==
  ASSUME NEW S, NEW one \in Seq(S), NEW other \in Seq(S)
  PROVE  one \o other \in Seq(S)
OBVIOUS

\* What the parts consist of.
LEMMA FlattenType ==
  ASSUME NEW S, NEW n \in Nat, NEW seqs \in [1 .. n -> Seq(S)]
  PROVE  FlattenSeq(seqs) \in Seq(S)
<1>1. seqs \in Seq(Seq(S)) /\ Len(seqs) = n
  OBVIOUS
<1>2. CASE n = 0
  <2>1. FlattenSeq(seqs) = seqs /\ seqs = << >>
    BY <1>1, <1>2 DEF FlattenSeq
  <2> QED BY <2>1
<1>3. CASE n # 0
  <2> DEFINE f == CHOOSE f : f = [i \in 1 .. n |-> IF i = 1 THEN seqs[i] ELSE f[i - 1] \o seqs[i]]
  <2>1. FlattenSeq(seqs) = f[n]
    BY <1>1, <1>3 DEF FlattenSeq
  <2>2. f = [i \in 1 .. n |-> IF i = 1 THEN seqs[i] ELSE f[i - 1] \o seqs[i]]
    BY FlattenExists
  <2> HIDE DEF f
  <2>3. \A i \in 1 .. n : f[i] = IF i = 1 THEN seqs[i] ELSE f[i - 1] \o seqs[i]
    BY <2>2
  <2> DEFINE Bad == {i \in 1 .. n : f[i] \notin Seq(S)}
  <2>4. ASSUME Bad # {} PROVE FALSE
    <3>1. PICK i \in Bad : \A j \in Bad : i <= j
      <4>1. Bad \in SUBSET Nat
        OBVIOUS
      <4> QED BY <2>4, <4>1, LeastNatural
    <3>2. i \in 1 .. n /\ seqs[i] \in Seq(S)
      BY <3>1
    <3>3. i # 1
      BY <2>3, <3>1, <3>2
    <3>4. i - 1 \in 1 .. n /\ i - 1 \notin Bad
      BY <3>1, <3>2, <3>3
    <3>5. f[i - 1] \in Seq(S)
      BY <3>4
    <3>6. f[i] = f[i - 1] \o seqs[i]
      BY <2>3, <3>2, <3>3
    <3>7. f[i - 1] \o seqs[i] \in Seq(S)
      BY <3>2, <3>5, JoinType
    <3> QED BY <3>1, <3>6, <3>7
  <2>5. f[n] \in Seq(S)
    BY <1>3, <2>4
  <2> QED BY <2>1, <2>5
<1> QED BY <1>2, <1>3

\* A single part is all there is.
LEMMA FlattenOne ==
  ASSUME NEW S, NEW seqs \in [1 .. 1 -> Seq(S)]
  PROVE  FlattenSeq(seqs) = seqs[1]
<1>1. PICK n \in Nat : n = 1
  OBVIOUS
<1>2. seqs \in [1 .. n -> Seq(S)]
  BY <1>1
<1>3. seqs \in Seq(Seq(S)) /\ Len(seqs) = n
  BY <1>2
<1> DEFINE f == CHOOSE f : f = [i \in 1 .. n |-> IF i = 1 THEN seqs[i] ELSE f[i - 1] \o seqs[i]]
<1>4. FlattenSeq(seqs) = f[1]
  BY <1>1, <1>3 DEF FlattenSeq
<1>5. f = [i \in 1 .. n |-> IF i = 1 THEN seqs[i] ELSE f[i - 1] \o seqs[i]]
  BY FlattenExists
<1> HIDE DEF f
<1> QED BY <1>1, <1>4, <1>5

-----------------------------------------------------------------------------
(***************************************************************************)
(* What runs and portfolios show.                                          *)
(***************************************************************************)

\* What a run of the simulator tells.
Told == [kind : Kinds, value : Nat, index : {0}, count : {0}]

\* What a portfolio without a cap tells when its first seed is low.
From(low) ==
  {e \in Events : /\ e.kind # "seed-portfolio-cap"
                  /\ e.kind = "seed-case" => e.value >= low /\ e.count # 0}

\* What any of them tells.
Sound == {e \in Events : e.kind = "seed-case" => e.count # 0}

\* All of it is sound.
LEMMA EventSets ==
  /\ \A low \in Nat : Told \subseteq From(low) /\ From(low) \subseteq Sound
  /\ Told \subseteq Sound /\ Sound \subseteq Events
BY DEF Told, From, Sound, Events, Kinds

\* Sequences of some events are sequences of more.
LEMMA SeqMore ==
  ASSUME NEW some, NEW more, some \subseteq more, NEW s \in Seq(some)
  PROVE  s \in Seq(more)
OBVIOUS

\* The events of one run.
LEMMA ToldType ==
  ASSUME NEW p \in Programs, NEW seed \in Nat
  PROVE  EventsOf(p, seed) \in Seq(Told)
<1>1. p.kinds \in Seq(Kinds)
  BY DEF Programs
<1>2. Len(p.kinds) \in Nat /\ DOMAIN p.kinds = 1 .. Len(p.kinds)
      /\ \A i \in 1 .. Len(p.kinds) : p.kinds[i] \in Kinds
  BY <1>1
<1>3. \A i \in 1 .. Len(p.kinds) :
        Event(p.kinds[i], IF p.kinds[i] = "step" THEN 0 ELSE seed, 0, 0) \in Told
  BY <1>2 DEF Event, Told
<1>4. EventsOf(p, seed) \in [1 .. Len(p.kinds) -> Told]
  BY <1>2, <1>3 DEF EventsOf
<1> QED BY <1>2, <1>4

\* How many seeds a portfolio runs.
LEMMA ExecutedType ==
  ASSUME NEW p \in Programs, NEW count \in Nat \ {0}
  PROVE  /\ Executed(p, count) \in Nat \ {0} /\ Executed(p, count) <= count
         /\ Executed(p, count) = IF p.fails THEN 1 ELSE count
BY DEF Executed

\* A marker.
LEMMA MarkerType ==
  ASSUME NEW seed \in Nat, NEW i \in Nat, NEW count \in Nat \ {0}
  PROVE  Marker(seed, i, count) \in From(seed)
BY DEF Marker, Event, From, Events

\* The events of a portfolio that keeps all of them.
LEMMA ExploredType ==
  ASSUME NEW p \in Programs, NEW seed \in Nat, NEW n \in Nat, NEW count \in Nat \ {0}
  PROVE  Explored(p, seed, n, count) \in Seq(From(seed))
<1> DEFINE E == From(seed)
           part(i) == <<Marker(seed, i - 1, count)>> \o
                        (IF i < n THEN EventsOf(p, seed + i - 1) ELSE << >>)
<1>1. ASSUME NEW i \in 1 .. n PROVE part(i) \in Seq(E)
  <2>1. Marker(seed, i - 1, count) \in E
    BY MarkerType
  <2>2. EventsOf(p, seed + i - 1) \in Seq(E)
    <3>1. seed + i - 1 \in Nat
      OBVIOUS
    <3>2. EventsOf(p, seed + i - 1) \in Seq(Told)
      BY <3>1, ToldType
    <3> QED BY <3>2, EventSets, SeqMore
  <2> HIDE DEF E
  <2>3. <<Marker(seed, i - 1, count)>> \in Seq(E) /\ << >> \in Seq(E)
    BY <2>1
  <2> QED BY <2>2, <2>3, JoinType
<1>2. [i \in 1 .. n |-> part(i)] \in [1 .. n -> Seq(E)]
  BY <1>1
<1> HIDE DEF part, E
<1>3. FlattenSeq([i \in 1 .. n |-> part(i)]) \in Seq(E)
  BY <1>2, FlattenType
<1> QED BY <1>3 DEF Explored, part, E

\* A portfolio of one seed tells its marker.
LEMMA ExploredOne ==
  ASSUME NEW p, NEW seed \in Nat, NEW count \in Nat \ {0}
  PROVE  Explored(p, seed, 1, count) = <<Marker(seed, 0, count)>>
<1> DEFINE part == [i \in 1 .. 1 |-> <<Marker(seed, i - 1, count)>> \o
                        (IF i < 1 THEN EventsOf(p, seed + i - 1) ELSE << >>)]
<1>1. \A i \in 1 .. 1 : i = 1 /\ ~(i < 1) /\ i - 1 = 0
  OBVIOUS
<1>2. Marker(seed, 0, count) \in From(seed)
  BY MarkerType
<1>3. <<Marker(seed, 0, count)>> \o << >> = <<Marker(seed, 0, count)>>
  BY <1>2
<1>4. part = [i \in 1 .. 1 |-> <<Marker(seed, 0, count)>>]
  BY <1>1, <1>3
<1> HIDE DEF part
<1>5. part \in [1 .. 1 -> Seq(From(seed))]
  BY <1>2, <1>4
<1>6. FlattenSeq(part) = part[1]
  BY <1>5, FlattenOne
<1> QED BY <1>4, <1>6 DEF Explored, part

-----------------------------------------------------------------------------
(***************************************************************************)
(* The runs, recorded and replayed, and the witness have their types.      *)
(***************************************************************************)

\* A run whose markers name the count of their portfolio.
Typed(r) == RunTyped(r) /\ r.events \in Seq(Sound)

\* One run of the simulator.
LEMMA RunType ==
  ASSUME NEW p \in Programs, NEW seed \in Nat, NEW engine
  PROVE  /\ Typed(RunOf(p, seed, engine))
         /\ \A e \in Seq(Sound) : Typed([RunOf(p, seed, engine) EXCEPT !.events = e])
         /\ RunOf(p, seed, engine).events \in Seq(Told)
<1> DEFINE r == RunOf(p, seed, engine)
<1>1. r.events \in Seq(Told)
  BY ToldType DEF RunOf
<1>2. \A e \in Seq(Sound) : e \in Seq(Events)
  BY EventSets, SeqMore
<1>3. r.events \in Seq(Sound)
  BY <1>1, EventSets, SeqMore
<1>4. /\ r.seed \in Nat /\ r.rust \in Nat
      /\ r.failure \in Failures
      /\ r.guarantee \in {"none", "partial", "not_replayable", "exact"}
      /\ r.harness \in BOOLEAN
  BY DEF RunOf, Programs, Failures, Harness, SemanticFailure, Guarantee, Outcomes
<1>5. \A e : LET q == [r EXCEPT !.events = e]
             IN  /\ q.events = e /\ q.seed = r.seed /\ q.rust = r.rust
                 /\ q.failure = r.failure /\ q.guarantee = r.guarantee
                 /\ q.harness = r.harness
  BY DEF RunOf
<1> HIDE DEF r
<1>6. Typed(r)
  BY <1>2, <1>3, <1>4 DEF Typed, RunTyped
<1>7. ASSUME NEW e \in Seq(Sound) PROVE Typed([r EXCEPT !.events = e])
  BY <1>2, <1>4, <1>5 DEF Typed, RunTyped
<1> QED BY <1>1, <1>6, <1>7 DEF r

\* The markers of a portfolio.
LEMMA MarkersType ==
  ASSUME NEW seed \in Nat, NEW n \in Nat, NEW count \in Nat \ {0}
  PROVE  /\ Markers(seed, n, count) \in Seq(Sound) /\ Len(Markers(seed, n, count)) = n
         /\ <<Cap(n, count)>> \in Seq(Sound)
<1>1. \A i \in 1 .. n : Marker(seed, i - 1, count) \in Sound
  <2> TAKE i \in 1 .. n
  <2>1. i - 1 \in Nat
    OBVIOUS
  <2> QED BY <2>1, MarkerType, EventSets
<1>2. Markers(seed, n, count) \in [1 .. n -> Sound]
  BY <1>1 DEF Markers
<1>3. Cap(n, count) \in Sound
  BY DEF Cap, Event, Sound, Events
<1> QED BY <1>2, <1>3

\* A recorded run.
LEMMA RecordedType ==
  ASSUME NEW p \in Programs, NEW s \in Settings, NEW n \in 1 .. Executed(p, s.count)
  PROVE  Typed(Recorded(p, s, n))
<1>1. s.seed \in Nat /\ s.count \in Nat \ {0}
  BY ReplayAssumption
<1>2. n \in Nat \ {0} /\ s.seed + n - 1 \in Nat
  BY <1>1, ExecutedType
<1> DEFINE last == RunOf(p, s.seed + n - 1, s.engine)
           stopped == n < Executed(p, s.count)
           cap == IF stopped THEN <<Cap(n, s.count)>> ELSE << >>
           before == IF s.engine = "both" THEN Markers(s.seed, n, s.count) \o cap
                     ELSE Explored(p, s.seed, n, s.count)
           events == IF s.engine = "semantic" /\ stopped THEN before \o last.events \o cap
                     ELSE before \o last.events
<1>3. last.events \in Seq(Sound)
  BY <1>2, RunType DEF Typed
<1>4. cap \in Seq(Sound)
  <2>1. <<Cap(n, s.count)>> \in Seq(Sound)
    BY <1>1, <1>2, MarkersType
  <2>2. << >> \in Seq(Sound)
    OBVIOUS
  <2> QED BY <2>1, <2>2, Zenon
<1>5. before \in Seq(Sound)
  <2>1. Markers(s.seed, n, s.count) \in Seq(Sound)
    BY <1>1, <1>2, MarkersType
  <2>2. Explored(p, s.seed, n, s.count) \in Seq(From(s.seed))
    BY <1>1, <1>2, ExploredType
  <2>3. Explored(p, s.seed, n, s.count) \in Seq(Sound)
    BY <1>1, <2>2, EventSets, SeqMore
  <2>4. Markers(s.seed, n, s.count) \o cap \in Seq(Sound)
    BY <1>4, <2>1, JoinType
  <2> QED BY <2>3, <2>4
<1>6. events \in Seq(Sound)
  <2> HIDE DEF before, cap, last
  <2>1. before \o last.events \in Seq(Sound)
    BY <1>3, <1>5, JoinType
  <2>2. before \o last.events \o cap \in Seq(Sound)
    BY <1>4, <2>1, JoinType
  <2> QED BY <2>1, <2>2
<1>7. Typed([last EXCEPT !.events = events])
  BY <1>2, <1>6, RunType
<1>8. PortfolioWith(p, s, n) = [last EXCEPT !.events = events]
  BY DEF PortfolioWith
<1>9. Typed(RunOf(p, s.seed, s.engine))
  BY <1>1, RunType
<1> QED BY <1>7, <1>8, <1>9 DEF Recorded

\* A replayed one.
LEMMA ReplayedType ==
  ASSUME NEW p \in Programs, NEW seed \in Nat, NEW count \in Nat \ {0}
  PROVE  Typed(Replayed(p, seed, count))
<1> DEFINE n == Executed(p, count)
           last == RunOf(p, seed + n - 1, "both")
           before == Explored(p, seed, n, count)
<1>1. n \in Nat \ {0} /\ seed + n - 1 \in Nat
  BY ExecutedType
<1>2. before \in Seq(Sound)
  <2>1. before \in Seq(From(seed))
    BY <1>1, ExploredType
  <2> QED BY <2>1, EventSets, SeqMore
<1>3. before \o last.events \in Seq(Sound)
  <2>1. last.events \in Seq(Sound)
    BY <1>1, RunType DEF Typed
  <2> QED BY <1>2, <2>1, JoinType
<1>4. Typed([last EXCEPT !.events = before \o last.events])
  BY <1>1, <1>3, RunType
<1>5. Typed(RunOf(p, seed, "both"))
  BY RunType
<1>6. Replayed(p, seed, count) =
        IF count = 1 THEN RunOf(p, seed, "both")
        ELSE [last EXCEPT !.events = before \o last.events]
  BY DEF Replayed
<1> HIDE DEF last, before, n
<1> QED BY <1>4, <1>5, <1>6

\* The count that a witness names.
LEMMA CountType ==
  ASSUME Typed(witness)
  PROVE  WitnessCount \in Nat \ {0}
<1> DEFINE markers == {i \in DOMAIN witness.events : witness.events[i].kind = "seed-case"}
<1>1. witness.events \in Seq(Sound)
  BY DEF Typed
<1>2. \A i \in DOMAIN witness.events : i \in Nat /\ witness.events[i] \in Sound
  BY <1>1
<1>3. CASE markers # {}
  <2>1. markers \in SUBSET Nat
    BY <1>2
  <2>2. \E b \in markers : \A d \in markers : b <= d
    BY <1>3, <2>1, LeastNatural
  <2>3. Min(markers) \in markers
    BY <2>2 DEF Min
  <2>4. witness.events[Min(markers)] \in Sound
        /\ witness.events[Min(markers)].kind = "seed-case"
    BY <1>2, <2>3
  <2>5. witness.events[Min(markers)].count \in Nat \ {0}
    BY <2>4 DEF Sound, Events
  <2> QED BY <1>3, <2>5 DEF WitnessCount
<1>4. CASE markers = {}
  BY <1>4 DEF WitnessCount
<1> QED BY <1>3, <1>4

\* The type invariant, with markers that name a count.
TypedInv == TypeOK /\ Typed(run) /\ Typed(witness)

\* It holds at the start.
LEMMA TypedInit == Init => TypedInv
<1> SUFFICES ASSUME Init PROVE TypedInv
  OBVIOUS
<1>1. Typed(NoRun)
  BY DEF NoRun, Typed, RunTyped, Failures
<1>2. Typed(Witness(NoRun, NoText, {}, NoText))
  BY DEF NoRun, Witness, Typed, RunTyped, Failures
<1>3. witness.removed = {} /\ witness.hash = NoText /\ witness.text = NoText
  BY DEF Init, Witness
<1>4. edits \in 0 .. MaxEdits
  BY ReplayAssumption DEF Init
<1> QED BY <1>1, <1>2, <1>3, <1>4 DEF Init, TypedInv, Typed, TypeOK, Verdicts

\* Every step keeps it.
LEMMA TypedInductive ==
  ASSUME TypedInv, Origin, [Next]_vars
  PROVE  TypedInv'
<1> USE DEF TypedInv, TypeOK
<1>a. \A t \in Texts : Program[t] \in Programs
  BY ReplayAssumption
<1>b. \A t \in Texts : t # NoText
  BY ReplayAssumption
<1>1. CASE LoadDocument
  BY <1>1 DEF LoadDocument, Typed
<1>2. CASE RecordCompile
  BY <1>2 DEF RecordCompile, Compile, Typed
<1>3. CASE ExecuteScenario
  <2>1. text \in Texts
    BY <1>3 DEF ExecuteScenario, Origin, Recording
  <2>2. PICK n \in 1 .. Executed(Program[text], setting.count) :
           run' = Recorded(Program[text], setting, n)
    BY <1>3 DEF ExecuteScenario
  <2>3. Typed(run')
    BY <1>a, <2>1, <2>2, RecordedType
  <2> QED BY <1>3, <2>3 DEF ExecuteScenario, Typed
<1>4. CASE ApplyReplayChecks
  <2>1. run' = [run EXCEPT !.failure = IF @ = "none" /\ Program[text].check
                                         THEN "check" ELSE @]
    BY <1>4 DEF ApplyReplayChecks
  <2>2. Typed(run')
    BY <2>1 DEF Typed, RunTyped, Failures
  <2> QED BY <1>4, <2>2 DEF ApplyReplayChecks, Typed
<1>5. CASE WriteWitness
  <2>1. witness' = Witness(run, hash, Removed(run), text)
    BY <1>5 DEF WriteWitness
  <2>2. Typed(witness') /\ witness'.hash = hash /\ witness'.text = text
        /\ witness'.removed = Removed(run) /\ witness'.events = run.events
    BY <2>1 DEF Witness, Typed, RunTyped
  <2>3. Removed(run) \subseteq DOMAIN run.events
    BY DEF Removed
  <2> QED BY <1>5, <2>2, <2>3 DEF WriteWitness, Typed
<1>6. CASE VerifySource
  BY <1>6 DEF VerifySource, Answer, Verdicts, Typed
<1>7. CASE ReplayCompile
  BY <1>7 DEF ReplayCompile, Compile, Typed
<1>8. CASE ExecuteReplay
  <2>1. text \in Texts
    BY <1>8 DEF ExecuteReplay, Origin, Rebuilding
  <2>2. witness.seed \in Nat
    BY DEF Typed, RunTyped
  <2>3. Typed(run')
    BY <1>8, <1>a, <2>1, <2>2, CountType, ReplayedType DEF ExecuteReplay
  <2> QED BY <1>8, <2>3 DEF ExecuteReplay, Typed
<1>9. CASE CompareReplay
  BY <1>9 DEF CompareReplay, Answer, Verdicts, Typed
<1>10. CASE Edit
  <2>1. file' \in Texts
    BY <1>10, ReplayAssumption DEF Edit
  <2>2. edits' \in 0 .. MaxEdits
    BY <1>10, ReplayAssumption DEF Edit
  <2>3. torn' \in BOOLEAN
    BY <1>10 DEF Edit
  <2> QED BY <1>10, <2>1, <2>2, <2>3 DEF Edit, Typed
<1>11. CASE UNCHANGED vars
  BY <1>11 DEF vars, Typed
<1> QED BY <1>1, <1>2, <1>3, <1>4, <1>5, <1>6, <1>7, <1>8, <1>9, <1>10, <1>11 DEF Next

\* Runs and witness have their types: TypeOK, for any programs and settings.
THEOREM ReplayTypeCorrect == Spec => []TypeOK
<1>1. TypedInv => TypeOK
  BY DEF TypedInv
<1> QED BY <1>1, TypedInit, TypedInductive, OriginInit, OriginInductive, PTL DEF Spec

-----------------------------------------------------------------------------
(***************************************************************************)
(* What a replay of an untouched file answers.                             *)
(***************************************************************************)

\* A run after the checks of the test command.
Checked(r, p) ==
  [r EXCEPT !.failure = IF @ = "none" /\ p.check THEN "check" ELSE @]

\* A recorded run of the file.
RecordedOf(r) ==
  \E n \in 1 .. Executed(Program[file], setting.count) : r = Recorded(Program[file], setting, n)

CheckedOf(r) ==
  \E n \in 1 .. Executed(Program[file], setting.count) :
    r = Checked(Recorded(Program[file], setting, n), Program[file])

\* The witness that it leaves.
WitnessOf(w) ==
  \E n \in 1 .. Executed(Program[file], setting.count) :
    LET r == Checked(Recorded(Program[file], setting, n), Program[file])
    IN  w = Witness(r, file, Removed(r), file)

\* The replay of that witness.
Replay == run = Replayed(Program[file], witness.seed, WitnessCount)

\* As long as the file is not edited, run, witness and verdict are what its
\* program and the settings make of them.
Calm ==
  edits = 0 =>
    /\ phase = "loaded" => hash = file
    /\ phase \in Recording => text = file /\ hash = file
    /\ phase \in Rebuilding => text = file
    /\ phase = "executed" => RecordedOf(run)
    /\ phase = "checked" => CheckedOf(run)
    /\ phase \in Holding => WitnessOf(witness)
    /\ phase \in {"verified"} \cup Rebuilding => ~Blocked /\ ~NoManifest
    /\ phase = "compare" => Replay
    /\ phase = "done" =>
         \/ verdict = "blocked" /\ Blocked
         \/ verdict = "K0115" /\ NoManifest
         \/ /\ ~Blocked /\ ~NoManifest /\ Replay
            /\ verdict = IF ShrinkUnsafe THEN "K0106" ELSE IF Same THEN "exact" ELSE "K0104"

\* It holds at the start.
LEMMA CalmInit == Init => Calm
BY DEF Init, Calm, Recording, Rebuilding, Holding

\* Every step keeps it.
LEMMA CalmInductive ==
  ASSUME TypedInv, Calm, [Next]_vars
  PROVE  Calm'
<1> USE DEF Recording, Rebuilding, Holding
<1>a. edits \in Nat
  BY ReplayAssumption DEF TypedInv, TypeOK
<1>1. CASE LoadDocument
  BY <1>1 DEF LoadDocument, Calm
<1>2. CASE RecordCompile
  BY <1>2 DEF RecordCompile, Compile, Calm
<1>3. CASE ExecuteScenario
  BY <1>3 DEF ExecuteScenario, Calm, RecordedOf
<1>4. CASE ApplyReplayChecks
  <2>1. edits = 0 => text = file /\ hash = file /\ RecordedOf(run)
    BY <1>4 DEF ApplyReplayChecks, Calm
  <2>2. run' = Checked(run, Program[text]) /\ file' = file /\ setting' = setting
    BY <1>4 DEF ApplyReplayChecks, Checked
  <2>3. edits = 0 => CheckedOf(run)'
    BY <2>1, <2>2 DEF RecordedOf, CheckedOf
  <2> QED BY <1>4, <2>1, <2>3 DEF ApplyReplayChecks, Calm
<1>5. CASE WriteWitness
  <2>1. edits = 0 => text = file /\ hash = file /\ CheckedOf(run)
    BY <1>5 DEF WriteWitness, Calm
  <2>2. /\ witness' = Witness(run, hash, Removed(run), text)
        /\ file' = file /\ setting' = setting
    BY <1>5 DEF WriteWitness
  <2>3. \A r : Removed(r)' = Removed(r) /\ (CheckedOf(r)' <=> CheckedOf(r))
    BY <2>2 DEF Removed, CheckedOf
  <2>4. edits = 0 => WitnessOf(witness)'
    BY <2>1, <2>2, <2>3 DEF WitnessOf, CheckedOf
  <2> QED BY <1>5, <2>1, <2>4 DEF WriteWitness, Calm
<1>6. CASE VerifySource
  <2>1. /\ file' = file /\ setting' = setting /\ witness' = witness /\ run' = run
        /\ edits' = edits /\ phase = "replay" /\ phase' \in {"verified", "done"}
    BY <1>6 DEF VerifySource, Answer
  <2>2. edits = 0 => WitnessOf(witness) /\ witness.hash = file
    BY <2>1 DEF Calm, WitnessOf, Witness
  <2>3. edits = 0 => WitnessOf(witness)'
    BY <2>1, <2>2 DEF WitnessOf, Removed
  <2>4. (Blocked' <=> Blocked) /\ (NoManifest' <=> NoManifest)
    BY <2>1 DEF Blocked, NoManifest
  <2>5. edits = 0 => \/ phase' = "done" /\ verdict' = "blocked" /\ Blocked
                     \/ phase' = "done" /\ verdict' = "K0115" /\ NoManifest
                     \/ phase' = "verified" /\ ~Blocked /\ ~NoManifest
    BY <1>6, <2>2 DEF VerifySource, Answer, ChangedSource
  <2> QED BY <2>1, <2>3, <2>4, <2>5 DEF Calm
<1>7. CASE ReplayCompile
  <2>1. /\ file' = file /\ setting' = setting /\ witness' = witness /\ run' = run
        /\ edits' = edits /\ phase = "verified" /\ phase' = "rebuilt" /\ text' = file
    BY <1>7 DEF ReplayCompile, Compile
  <2>2. edits = 0 => WitnessOf(witness)'
    BY <2>1 DEF Calm, WitnessOf, Removed
  <2> QED BY <2>1, <2>2 DEF Calm, Blocked, NoManifest
<1>8. CASE ExecuteReplay
  <2>1. /\ file' = file /\ setting' = setting /\ witness' = witness /\ text' = text
        /\ edits' = edits /\ phase = "rebuilt" /\ phase' = "compare"
        /\ run' = Replayed(Program[text], witness.seed, WitnessCount)
    BY <1>8 DEF ExecuteReplay
  <2>2. edits = 0 => WitnessOf(witness)'
    BY <2>1 DEF Calm, WitnessOf, Removed
  <2>3. edits = 0 => Replay'
    BY <2>1 DEF Calm, Replay, WitnessCount
  <2> QED BY <2>1, <2>2, <2>3 DEF Calm, Blocked, NoManifest
<1>9. CASE CompareReplay
  <2>1. /\ file' = file /\ setting' = setting /\ witness' = witness /\ run' = run
        /\ edits' = edits /\ phase = "compare" /\ phase' = "done" /\ text' = text
        /\ verdict' = IF ShrinkUnsafe THEN "K0106" ELSE IF Same THEN "exact" ELSE "K0104"
    BY <1>9 DEF CompareReplay, Answer
  <2>2. edits = 0 => WitnessOf(witness)'
    BY <2>1 DEF Calm, WitnessOf, Removed
  <2>3. edits = 0 => Replay'
    BY <2>1 DEF Calm, Replay, WitnessCount
  <2>4. (ShrinkUnsafe' <=> ShrinkUnsafe) /\ (Same' <=> Same)
    BY <2>1 DEF ShrinkUnsafe, Same
  <2>5. edits = 0 => ~Blocked' /\ ~NoManifest'
    BY <2>1 DEF Calm, Blocked, NoManifest
  <2> QED BY <2>1, <2>2, <2>3, <2>4, <2>5 DEF Calm
<1>10. CASE Edit
  BY <1>a, <1>10 DEF Edit, Calm
<1>11. CASE UNCHANGED vars
  <2>1. \A r : Removed(r)' = Removed(r)
    BY <1>11 DEF vars, Removed
  <2>2. /\ CheckedOf(run)' <=> CheckedOf(run)
        /\ RecordedOf(run)' <=> RecordedOf(run)
        /\ WitnessOf(witness)' <=> WitnessOf(witness)
    BY <1>11, <2>1 DEF vars, CheckedOf, RecordedOf, WitnessOf
  <2>3. /\ Blocked' <=> Blocked
        /\ NoManifest' <=> NoManifest
        /\ Same' <=> Same
        /\ ShrinkUnsafe' <=> ShrinkUnsafe
        /\ Replay' <=> Replay
    BY <1>11 DEF vars, Blocked, NoManifest, Same, ShrinkUnsafe, Replay, WitnessCount
  <2> QED BY <1>11, <2>2, <2>3 DEF vars, Calm
<1> QED BY <1>1, <1>2, <1>3, <1>4, <1>5, <1>6, <1>7, <1>8, <1>9, <1>10, <1>11 DEF Next

\* The run that the replay of a witness makes, against the run that the
\* witness keeps, for a program whose engines matched.
Ends(p, s, n) == /\ p \in Programs
                 /\ s \in Settings
                 /\ n \in 1 .. Executed(p, s.count)

\* The events of a portfolio that a test run with the harness keeps.
Capped(p, s, n) == IF n < Executed(p, s.count) THEN <<Cap(n, s.count)>> ELSE << >>

Kept(p, s, n) ==
  Markers(s.seed, n, s.count) \o Capped(p, s, n) \o EventsOf(p, s.seed + n - 1)

\* Those of a replayed portfolio.
Replaying(p, seed, count) ==
  Explored(p, seed, Executed(p, count), count) \o EventsOf(p, seed + Executed(p, count) - 1)

\* Only a run with matching engines is exact and has a harness.
LEMMA ExactIsMatched ==
  ASSUME NEW p, NEW s, NEW n, Ends(p, s, n)
  PROVE  LET r == Checked(Recorded(p, s, n), p)
         IN  r.guarantee = "exact" /\ r.harness <=> s.engine = "both" /\ p.outcome = "matched"
<1> DEFINE last == RunOf(p, s.seed + n - 1, s.engine)
           one == RunOf(p, s.seed, s.engine)
           r == Recorded(p, s, n)
<1>1. s.engine \in {"both", "semantic"} /\ p.outcome \in Outcomes
  BY ReplayAssumption DEF Ends, Programs
<1>2. \A seed : LET q == RunOf(p, seed, s.engine)
                IN  q.guarantee = Guarantee(p, s.engine) /\ q.harness = Harness(p, s.engine)
  BY DEF RunOf
<1>3. \A e : LET q == [last EXCEPT !.events = e]
             IN  q.guarantee = last.guarantee /\ q.harness = last.harness
  BY DEF RunOf
<1>4. \E e : PortfolioWith(p, s, n) = [last EXCEPT !.events = e]
  BY DEF PortfolioWith
<1>5. r = one \/ r = PortfolioWith(p, s, n)
  BY DEF Recorded
<1>6. r.guarantee = Guarantee(p, s.engine) /\ r.harness = Harness(p, s.engine)
  <2> HIDE DEF last, one, r
  <2>1. one.guarantee = Guarantee(p, s.engine) /\ one.harness = Harness(p, s.engine)
    BY <1>2 DEF one
  <2>2. last.guarantee = Guarantee(p, s.engine) /\ last.harness = Harness(p, s.engine)
    BY <1>2 DEF last
  <2>3. PICK e : PortfolioWith(p, s, n) = [last EXCEPT !.events = e]
    BY <1>4
  <2>4. PortfolioWith(p, s, n).guarantee = last.guarantee
        /\ PortfolioWith(p, s, n).harness = last.harness
    BY <1>3, <2>3
  <2> QED BY <1>5, <2>1, <2>2, <2>4
<1> HIDE DEF r
<1>7. Checked(r, p).guarantee = r.guarantee /\ Checked(r, p).harness = r.harness
  BY DEF Checked
<1>8. Guarantee(p, s.engine) = "exact" /\ Harness(p, s.engine)
        <=> s.engine = "both" /\ p.outcome = "matched"
  BY <1>1 DEF Guarantee, Harness, Outcomes
<1> QED BY <1>6, <1>7, <1>8 DEF r

\* What a recorded run with matching engines is.
MatchedAs(p, s, n) ==
  /\ Recorded(p, s, n).seed = s.seed + n - 1
  /\ Recorded(p, s, n).rust = p.rust
  /\ Recorded(p, s, n).harness = TRUE
  /\ Recorded(p, s, n).failure = SemanticFailure(p)
  /\ s.count = 1 => n = 1
  /\ s.count = 1 => Recorded(p, s, n).events = EventsOf(p, s.seed)
  /\ s.count # 1 => Recorded(p, s, n).events = Kept(p, s, n)

\* Every recorded run with matching engines is that.
LEMMA MatchedRun ==
  ASSUME NEW p, NEW s, NEW n, Ends(p, s, n), s.engine = "both", p.outcome = "matched"
  PROVE  MatchedAs(p, s, n)
<1> DEFINE seed == s.seed + n - 1
           last == RunOf(p, seed, "both")
           r == Recorded(p, s, n)
<1>1. s.count \in Nat \ {0} /\ s.seed \in Nat /\ p.fails \in BOOLEAN
  BY ReplayAssumption DEF Ends, Programs
<1>2. n \in Nat \ {0} /\ (s.count = 1 => n = 1)
  BY <1>1 DEF Ends, Executed
<1>3. \A x : LET q == RunOf(p, x, "both")
             IN  /\ q.seed = x /\ q.rust = p.rust /\ q.harness = TRUE
                 /\ q.failure = SemanticFailure(p) /\ q.events = EventsOf(p, x)
  BY DEF RunOf, Harness
<1>4. \A e : LET q == [last EXCEPT !.events = e]
             IN  /\ q.seed = last.seed /\ q.rust = last.rust /\ q.harness = last.harness
                 /\ q.failure = last.failure /\ q.events = e
  BY DEF RunOf
<1>5. s.count = 1 => r = RunOf(p, s.seed, "both") /\ s.seed = seed
  BY <1>1, <1>2 DEF Recorded
<1>6. s.count # 1 =>
        r = [last EXCEPT !.events =
               Markers(s.seed, n, s.count)
                 \o (IF n < Executed(p, s.count) THEN <<Cap(n, s.count)>> ELSE << >>) \o @]
  BY DEF Recorded, PortfolioWith
<1>7. last.events = EventsOf(p, seed)
  BY <1>3
<1>8. r.seed = seed /\ r.rust = p.rust /\ r.harness = TRUE /\ r.failure = SemanticFailure(p)
  <2> HIDE DEF last, r, seed
  <2>1. CASE s.count = 1
    BY <1>3, <1>5, <2>1
  <2>2. CASE s.count # 1
    <3>1. \E e : r = [last EXCEPT !.events = e]
      BY <1>6, <2>2
    <3>2. /\ last.seed = seed /\ last.rust = p.rust /\ last.harness = TRUE
          /\ last.failure = SemanticFailure(p)
      BY <1>3 DEF last
    <3> QED BY <1>4, <3>1, <3>2
  <2> QED BY <2>1, <2>2
<1>9. s.count # 1 =>
        r.events = Markers(s.seed, n, s.count)
                     \o (IF n < Executed(p, s.count) THEN <<Cap(n, s.count)>> ELSE << >>)
                     \o EventsOf(p, seed)
  <2> HIDE DEF last, r, seed
  <2> QED BY <1>4, <1>6, <1>7
<1>10. s.count = 1 => r.events = EventsOf(p, s.seed)
  BY <1>3, <1>5
<1> HIDE DEF r
<1>11. s.count # 1 => r.events = Kept(p, s, n)
  BY <1>9 DEF Kept, Capped
<1> QED BY <1>2, <1>8, <1>10, <1>11 DEF r, MatchedAs

\* What its replay is.
ReplayedAs(p, seed, count) ==
  /\ Replayed(p, seed, count).rust = p.rust
  /\ Replayed(p, seed, count).harness = TRUE
  /\ Replayed(p, seed, count).failure = SemanticFailure(p)
  /\ count = 1 => Replayed(p, seed, count).events = EventsOf(p, seed)
  /\ count # 1 => Replayed(p, seed, count).events = Replaying(p, seed, count)

\* Every replay of a program with matching engines is that.
LEMMA MatchedReplay ==
  ASSUME NEW p \in Programs, NEW seed \in Nat, NEW count \in Nat \ {0}, p.outcome = "matched"
  PROVE  ReplayedAs(p, seed, count)
<1> DEFINE n == Executed(p, count)
           last == RunOf(p, seed + n - 1, "both")
           q == Replayed(p, seed, count)
<1>1. \A x : LET t == RunOf(p, x, "both")
             IN  /\ t.rust = p.rust /\ t.harness = TRUE
                 /\ t.failure = SemanticFailure(p) /\ t.events = EventsOf(p, x)
  BY DEF RunOf, Harness
<1>2. \A e : LET t == [last EXCEPT !.events = e]
             IN  /\ t.rust = last.rust /\ t.harness = last.harness
                 /\ t.failure = last.failure /\ t.events = e
  BY DEF RunOf
<1>3. count = 1 => q = RunOf(p, seed, "both")
  BY DEF Replayed
<1>4. count # 1 => q = [last EXCEPT !.events = Explored(p, seed, n, count) \o @]
  BY DEF Replayed
<1>5. \E e : q = [last EXCEPT !.events = e] \/ q = RunOf(p, seed, "both")
  BY <1>3, <1>4
<1>6. q.rust = p.rust /\ q.harness = TRUE /\ q.failure = SemanticFailure(p)
  <2>1. last.rust = p.rust /\ last.harness = TRUE /\ last.failure = SemanticFailure(p)
    BY <1>1
  <2>2. \A e : LET t == [last EXCEPT !.events = e]
               IN  t.rust = p.rust /\ t.harness = TRUE /\ t.failure = SemanticFailure(p)
    BY <1>2, <2>1
  <2>3. CASE q = RunOf(p, seed, "both")
    BY <1>1, <2>3
  <2> HIDE DEF q, last
  <2>4. CASE \E e : q = [last EXCEPT !.events = e]
    BY <2>2, <2>4
  <2> QED BY <1>5, <2>3, <2>4
<1>7. count # 1 => q.events = Explored(p, seed, n, count) \o EventsOf(p, seed + n - 1)
  <2>1. last.events = EventsOf(p, seed + n - 1)
    BY <1>1
  <2> HIDE DEF q, last
  <2> QED BY <1>2, <1>4, <2>1
<1>8. count = 1 => q.events = EventsOf(p, seed)
  BY <1>1, <1>3
<1> HIDE DEF q
<1>9. count # 1 => q.events = Replaying(p, seed, count)
  BY <1>7 DEF Replaying
<1> QED BY <1>6, <1>8, <1>9 DEF q, ReplayedAs

\* The parts of a portfolio that a test run keeps.
PartsTyped(p, s, n) ==
  /\ s.count \in Nat \ {0} /\ s.seed \in Nat /\ n \in Nat \ {0}
  /\ s.seed + n - 1 \in Nat /\ p \in Programs /\ p.fails \in BOOLEAN
  /\ Markers(s.seed, n, s.count) \in Seq(Sound) /\ Len(Markers(s.seed, n, s.count)) = n
  /\ Capped(p, s, n) \in Seq(Sound)
  /\ EventsOf(p, s.seed + n - 1) \in Seq(Told)
  /\ EventsOf(p, s.seed + n - 1) \in Seq(Sound)

\* They are sequences of sound events.
LEMMA PartsType ==
  ASSUME NEW p, NEW s, NEW n, Ends(p, s, n)
  PROVE  PartsTyped(p, s, n)
<1>1. /\ s.count \in Nat \ {0} /\ s.seed \in Nat /\ n \in Nat \ {0}
      /\ s.seed + n - 1 \in Nat /\ p \in Programs /\ p.fails \in BOOLEAN
  BY ReplayAssumption, ExecutedType DEF Ends, Programs
<1>2. Markers(s.seed, n, s.count) \in Seq(Sound) /\ Len(Markers(s.seed, n, s.count)) = n
      /\ <<Cap(n, s.count)>> \in Seq(Sound)
  BY <1>1, MarkersType
<1>3. << >> \in Seq(Sound)
  OBVIOUS
<1>4. Capped(p, s, n) \in Seq(Sound)
  BY <1>2, <1>3, Zenon DEF Capped
<1>5. EventsOf(p, s.seed + n - 1) \in Seq(Told)
  BY <1>1, ToldType
<1>6. EventsOf(p, s.seed + n - 1) \in Seq(Sound)
  BY <1>5, EventSets, SeqMore
<1> QED BY <1>1, <1>2, <1>4, <1>5, <1>6 DEF PartsTyped

\* The count that a witness with matching engines names is the one that the
\* test command was given.
LEMMA CountIsSetting ==
  ASSUME NEW p, NEW s, NEW n, Ends(p, s, n), s.engine = "both", p.outcome = "matched",
         witness.events = Recorded(p, s, n).events
  PROVE  WitnessCount = s.count
<1> DEFINE cap == Capped(p, s, n)
           marks == Markers(s.seed, n, s.count)
           told == EventsOf(p, s.seed + n - 1)
           markers == {i \in DOMAIN witness.events : witness.events[i].kind = "seed-case"}
<1>p. PartsTyped(p, s, n)
  BY PartsType
<1>m. MatchedAs(p, s, n)
  BY MatchedRun
<1>1. s.count \in Nat \ {0} /\ s.seed \in Nat /\ n \in Nat \ {0}
  BY <1>p DEF PartsTyped
<1>2. marks \in Seq(Sound) /\ Len(marks) = n /\ cap \in Seq(Sound) /\ told \in Seq(Sound)
  BY <1>p DEF PartsTyped
<1>3. CASE s.count = 1
  <2>1. witness.events \in Seq(Told)
    <3>1. witness.events = EventsOf(p, s.seed) /\ s.seed + n - 1 = s.seed
      BY <1>1, <1>3, <1>m DEF MatchedAs
    <3> QED BY <3>1, <1>p DEF PartsTyped
  <2>2. \A i \in DOMAIN witness.events : witness.events[i].kind # "seed-case"
    <3>1. \A i \in DOMAIN witness.events : witness.events[i] \in Told
      BY <2>1
    <3> QED BY <3>1 DEF Told, Kinds
  <2> QED BY <1>3, <2>2 DEF WitnessCount
<1>4. CASE s.count # 1
  <2>1. witness.events = marks \o cap \o told
    BY <1>4, <1>m DEF MatchedAs, Kept
  <2>3. marks[1] = Marker(s.seed, 0, s.count)
    BY <1>1 DEF Markers
  <2>4. 1 \in DOMAIN witness.events /\ witness.events[1] = marks[1]
        /\ \A i \in DOMAIN witness.events : i \in Nat /\ 1 <= i
    <3> HIDE DEF marks, cap, told
    <3> QED BY <1>1, <1>2, <2>1
  <2>5. witness.events[1].kind = "seed-case" /\ witness.events[1].count = s.count
    BY <2>3, <2>4 DEF Marker, Event
  <2>6. 1 \in markers /\ \A i \in markers : i \in Nat /\ 1 <= i
    BY <2>4, <2>5
  <2>7. Min(markers) = 1
    <3>1. Min(markers) \in markers /\ \A i \in markers : Min(markers) <= i
      BY <2>6 DEF Min
    <3> HIDE DEF markers
    <3> QED BY <2>6, <3>1
  <2> QED BY <2>5, <2>6, <2>7 DEF WitnessCount
<1> QED BY <1>3, <1>4

\* The place after the first part.
LEMMA NextPlace ==
  ASSUME NEW S, NEW one \in Seq(S), NEW two \in Seq(S), NEW three \in Seq(S), Len(two) >= 1
  PROVE  /\ Len(one) + 1 \in DOMAIN (one \o two \o three)
         /\ (one \o two \o three)[Len(one) + 1] = two[1]
<1> DEFINE both == one \o two
           i == Len(one) + 1
<1>1. both \in Seq(S) /\ Len(both) = Len(one) + Len(two)
  OBVIOUS
<1>2. i \in 1 .. Len(both) /\ i \in Nat /\ i > Len(one) /\ i - Len(one) = 1
  BY <1>1
<1>3. both[i] = two[i - Len(one)]
  BY <1>1, <1>2
<1> HIDE DEF both, i
<1>4. i \in DOMAIN (both \o three) /\ (both \o three)[i] = both[i]
  BY <1>1, <1>2
<1> QED BY <1>2, <1>3, <1>4 DEF both, i

\* The replay tells the events of the recorded run, unless that is the last of
\* a portfolio that passed: the replay then starts at the wrong seed, or has
\* no cap.
LEMMA EventsReplayed ==
  ASSUME NEW p, NEW s, NEW n, Ends(p, s, n), s.engine = "both", p.outcome = "matched"
  PROVE  Replayed(p, Recorded(p, s, n).seed, s.count).events = Recorded(p, s, n).events
           <=> s.count = 1 \/ p.fails
<1> DEFINE r == Recorded(p, s, n)
           q == Replayed(p, r.seed, s.count)
           seed == s.seed + n - 1
           cap == Capped(p, s, n)
           marks == Markers(s.seed, n, s.count)
           told == EventsOf(p, seed)
<1>p. PartsTyped(p, s, n)
  BY PartsType
<1>m. MatchedAs(p, s, n)
  BY MatchedRun
<1>1. s.count \in Nat \ {0} /\ s.seed \in Nat /\ n \in Nat \ {0} /\ seed \in Nat
      /\ p \in Programs /\ p.fails \in BOOLEAN
  BY <1>p DEF PartsTyped
<1>2. marks \in Seq(Sound) /\ Len(marks) = n /\ cap \in Seq(Sound) /\ told \in Seq(Sound)
  BY <1>p DEF PartsTyped
<1>a. q = Replayed(p, seed, s.count)
  BY <1>m DEF MatchedAs
<1>b. s.count = 1 => r.events = EventsOf(p, s.seed)
  BY <1>m DEF MatchedAs
<1>c. s.count # 1 => r.events = marks \o cap \o told
  BY <1>m DEF MatchedAs, Kept
<1>e. s.count = 1 => n = 1
  BY <1>m DEF MatchedAs
<1> DEFINE more == EventsOf(p, seed + Executed(p, s.count) - 1)
<1>d. /\ s.count = 1 => Replayed(p, seed, s.count).events = EventsOf(p, seed)
      /\ s.count # 1 => Replayed(p, seed, s.count).events = Replaying(p, seed, s.count)
  <2>1. ReplayedAs(p, seed, s.count)
    BY <1>1, MatchedReplay
  <2> QED BY <2>1 DEF ReplayedAs
<1> HIDE DEF q
<1>3. CASE s.count = 1
  <2>1. n = 1 /\ seed = s.seed
    BY <1>1, <1>3, <1>e
  <2>2. q.events = r.events
    BY <1>3, <1>a, <1>b, <1>d, <2>1
  <2> QED BY <1>3, <2>2 DEF q
<1>4. CASE s.count # 1
  <2>1. r.events = marks \o cap \o told
    BY <1>4, <1>c
  <2>2. q.events = Explored(p, seed, Executed(p, s.count), s.count) \o more
    BY <1>4, <1>a, <1>d DEF Replaying
  <2>4. CASE p.fails
    <3>1. n = 1 /\ Executed(p, s.count) = 1 /\ seed = s.seed /\ cap = << >>
      BY <1>1, <2>4 DEF Ends, Executed, Capped
    <3>2. marks = <<Marker(s.seed, 0, s.count)>>
      BY <3>1 DEF Markers
    <3>3. Explored(p, s.seed, 1, s.count) = marks
      BY <1>1, <3>2, ExploredOne
    <3>4. s.seed + 1 - 1 = s.seed
      BY <1>1
    <3>5. q.events = marks \o told
      <4> HIDE DEF marks
      <4> QED BY <2>2, <3>1, <3>3, <3>4
    <3>6. r.events = marks \o told
      <4> HIDE DEF r, marks, told, cap
      <4>1. marks \o << >> = marks
        BY <1>2
      <4> QED BY <2>1, <3>1, <4>1
    <3> QED BY <2>4, <3>5, <3>6 DEF q
  <2>5. CASE ~p.fails
    <3>1. Executed(p, s.count) = s.count /\ n <= s.count
      BY <1>1, <2>5 DEF Ends, Executed
    <3>2. q.events \in Seq(From(seed))
      <4>1. Explored(p, seed, s.count, s.count) \in Seq(From(seed))
        BY <1>1, ExploredType
      <4>2. seed + s.count - 1 \in Nat
        BY <1>1
      <4>3. EventsOf(p, seed + s.count - 1) \in Seq(Told)
        BY <1>1, <4>2, ToldType
      <4>4. EventsOf(p, seed + s.count - 1) \in Seq(From(seed))
        BY <1>1, <4>3, EventSets, SeqMore
      <4> QED BY <2>2, <3>1, <4>1, <4>4, JoinType
    <3>3. \A i \in DOMAIN q.events : q.events[i] \in From(seed)
      <4> QED BY <3>2
    <3>4. CASE n = 1
      <4>1. cap = <<Cap(1, s.count)>>
        BY <1>1, <1>4, <3>1, <3>4 DEF Capped
      <4>2. 2 \in DOMAIN r.events /\ r.events[2] = Cap(1, s.count)
        <5>1. Len(cap) = 1 /\ cap[1] = Cap(1, s.count)
          BY <4>1
        <5> HIDE DEF r, marks, told, cap
        <5>2. /\ Len(marks) + 1 \in DOMAIN (marks \o cap \o told)
              /\ (marks \o cap \o told)[Len(marks) + 1] = cap[1]
          BY <1>2, <5>1, NextPlace
        <5>3. Len(marks) + 1 = 2
          BY <1>2, <3>4
        <5> QED BY <2>1, <5>1, <5>2, <5>3
      <4>3. Cap(1, s.count) \notin From(seed)
        BY DEF Cap, Event, From
      <4> QED BY <1>4, <2>5, <3>3, <4>2, <4>3 DEF q
    <3>5. CASE n # 1
      <4>1. marks[1] = Marker(s.seed, 0, s.count)
        BY <1>1 DEF Markers
      <4>2. 1 \in DOMAIN r.events /\ r.events[1] = marks[1]
        <5> HIDE DEF r, marks, told, cap
        <5> QED BY <1>1, <2>1, <1>2
      <4>3. ~(s.seed >= seed)
        BY <1>1, <3>5
      <4>4. Marker(s.seed, 0, s.count) \notin From(seed)
        BY <1>1, <4>3 DEF Marker, Event, From
      <4> QED BY <1>4, <2>5, <3>3, <4>1, <4>2, <4>4 DEF q
    <3> QED BY <3>4, <3>5
  <2> QED BY <1>1, <2>4, <2>5
<1> QED BY <1>3, <1>4

\* What a replay answers follows from the recorded run alone.
LEMMA AnswerFollows ==
  ASSUME NEW n, Ends(Program[file], setting, n), ~Blocked, ~NoManifest, Replay,
         LET r == Checked(Recorded(Program[file], setting, n), Program[file])
         IN  witness = Witness(r, file, Removed(r), file)
  PROVE  /\ ~ShrinkUnsafe /\ Same <=> Replayable(Program[file])
         /\ ShrinkUnsafe => setting.shrink /\ setting.count > 1 /\ ~Program[file].fails
<1> DEFINE p == Program[file]
           recorded == Recorded(p, setting, n)
           r == Checked(recorded, p)
<1>1. witness = Witness(r, file, Removed(r), file)
  OBVIOUS
<1>2. /\ witness.events = r.events /\ witness.seed = r.seed /\ witness.failure = r.failure
      /\ witness.rust = r.rust /\ witness.guarantee = r.guarantee
      /\ witness.harness = r.harness /\ witness.removed = Removed(r)
  <2> HIDE DEF r
  <2> QED BY <1>1 DEF Witness
<1>3. setting.engine = "both" /\ p.outcome = "matched"
  <2>1. r.guarantee = "exact" /\ r.harness <=> setting.engine = "both" /\ p.outcome = "matched"
    BY ExactIsMatched
  <2> HIDE DEF r
  <2> QED BY <1>2, <2>1 DEF Blocked, NoManifest
<1>4. MatchedAs(p, setting, n)
  BY <1>3, MatchedRun
<1>5. /\ recorded.rust = p.rust /\ recorded.harness = TRUE
      /\ recorded.failure = SemanticFailure(p)
  BY <1>4 DEF MatchedAs
<1>p. p \in Programs /\ setting \in Settings /\ p.fails \in BOOLEAN /\ p.check \in BOOLEAN
      /\ setting.count \in Nat \ {0} /\ setting.seed \in Nat /\ setting.shrink \in BOOLEAN
  BY ReplayAssumption DEF Ends, Programs
<1>6. /\ r.events = recorded.events /\ r.seed = recorded.seed /\ r.rust = p.rust
      /\ r.harness = TRUE
      /\ r.failure = IF ~p.fails /\ p.check THEN "check" ELSE SemanticFailure(p)
  <2>1. (recorded.failure = "none") <=> ~p.fails
    BY <1>5, <1>p DEF SemanticFailure
  <2>2. \E f : r = [recorded EXCEPT !.failure = f]
    BY DEF Checked
  <2>3. \E e, f : /\ recorded = [RunOf(p, e, "both") EXCEPT !.events = f]
                  \/ recorded = RunOf(p, e, "both")
    BY <1>3 DEF Recorded, PortfolioWith
  <2>4. recorded = [events |-> recorded.events, seed |-> recorded.seed,
                    failure |-> recorded.failure, rust |-> recorded.rust,
                    guarantee |-> recorded.guarantee, harness |-> recorded.harness]
    <3> HIDE DEF recorded, p
    <3> QED BY <2>3 DEF RunOf
  <2> HIDE DEF recorded, p
  <2> QED BY <1>5, <2>1, <2>4 DEF r, Checked
<1>7. witness.events = recorded.events /\ witness.seed = recorded.seed
  BY <1>2, <1>6
<1>8. WitnessCount = setting.count
  BY <1>3, <1>7, CountIsSetting
<1>9. run = Replayed(p, recorded.seed, setting.count)
  BY <1>7, <1>8 DEF Replay
<1>10. run.events = witness.events <=> setting.count = 1 \/ p.fails
  <2>1. Replayed(p, recorded.seed, setting.count).events = recorded.events
          <=> setting.count = 1 \/ p.fails
    BY <1>3, EventsReplayed
  <2> HIDE DEF recorded, p
  <2> QED BY <1>7, <1>9, <2>1
<1>11. recorded.seed \in Nat
  <2>1. PartsTyped(p, setting, n)
    BY PartsType
  <2> QED BY <1>4, <2>1 DEF PartsTyped, MatchedAs
<1>12. run.rust = p.rust /\ run.harness = TRUE /\ run.failure = SemanticFailure(p)
  <2>1. ReplayedAs(p, recorded.seed, setting.count)
    BY <1>3, <1>11, <1>p, MatchedReplay
  <2> HIDE DEF recorded, p
  <2> QED BY <1>9, <2>1 DEF ReplayedAs
<1> HIDE DEF r, recorded
<1>13. Same <=> (setting.count = 1 \/ p.fails) /\ (p.check => p.fails)
  <2>1. run.rust = witness.rust /\ run.harness = witness.harness
    BY <1>2, <1>6, <1>12
  <2>2. run.failure = witness.failure <=> (p.check => p.fails)
    BY <1>2, <1>6, <1>12, <1>p DEF SemanticFailure
  <2> QED BY <1>10, <2>1, <2>2 DEF Same
<1>14. Removed(r) = IF setting.shrink /\ r.guarantee = "exact"
                      THEN {i \in DOMAIN r.events : r.events[i].kind = "noise"}
                      ELSE {}
  BY DEF Removed
<1>15. ShrinkUnsafe => setting.shrink
  BY <1>2, <1>14 DEF ShrinkUnsafe
<1>16. ShrinkUnsafe => run.events # witness.events
  <2> SUFFICES ASSUME run.events = witness.events, ShrinkUnsafe PROVE FALSE
    OBVIOUS
  <2>1. PICK i \in witness.removed : run.events[i].kind \notin Irrelevant
    BY DEF ShrinkUnsafe
  <2>2. r.events[i].kind = "noise"
    BY <1>2, <1>14, <2>1
  <2> QED BY <1>2, <2>1, <2>2 DEF Irrelevant
<1>17. ShrinkUnsafe => setting.shrink /\ setting.count > 1 /\ ~p.fails
  BY <1>10, <1>15, <1>16, <1>p
<1>18. ~ShrinkUnsafe /\ Same <=> Replayable(p)
  BY <1>3, <1>10, <1>13, <1>16, <1>p DEF Replayable
<1> QED BY <1>17, <1>18

\* The answer in general.
LEMMA CalmAnswers ==
  ASSUME TypedInv, Calm
  PROVE  WhatReplays
<1> SUFFICES ASSUME phase = "done", edits = 0
             PROVE  /\ verdict = "exact" <=> Replayable(Program[file])
                    /\ verdict = "K0106" =>
                         setting.shrink /\ setting.count > 1 /\ ~Program[file].fails
  BY DEF WhatReplays
<1>1. Program[file] \in Programs /\ setting \in Settings
  BY ReplayAssumption DEF TypedInv, TypeOK
<1>2. PICK n \in 1 .. Executed(Program[file], setting.count) :
         LET r == Checked(Recorded(Program[file], setting, n), Program[file])
         IN  witness = Witness(r, file, Removed(r), file)
  BY DEF Calm, Holding, WitnessOf
<1>3. Ends(Program[file], setting, n)
  BY <1>1 DEF Ends
<1>4. CASE ~Blocked /\ ~NoManifest
  <2>1. Replay /\ verdict = IF ShrinkUnsafe THEN "K0106" ELSE IF Same THEN "exact" ELSE "K0104"
    BY <1>4 DEF Calm
  <2>2. /\ ~ShrinkUnsafe /\ Same <=> Replayable(Program[file])
        /\ ShrinkUnsafe => setting.shrink /\ setting.count > 1 /\ ~Program[file].fails
    BY <1>2, <1>3, <1>4, <2>1, AnswerFollows
  <2> QED BY <2>1, <2>2
<1>5. CASE Blocked \/ NoManifest
  <2>1. verdict \in {"blocked", "K0115"}
    BY <1>5 DEF Calm
  <2> DEFINE r == Checked(Recorded(Program[file], setting, n), Program[file])
  <2>2. r.guarantee = "exact" /\ r.harness
          <=> setting.engine = "both" /\ Program[file].outcome = "matched"
    BY <1>3, ExactIsMatched
  <2>3. witness.guarantee = r.guarantee /\ witness.harness = r.harness
    <3>1. witness = Witness(r, file, Removed(r), file)
      BY <1>2
    <3> HIDE DEF r
    <3> QED BY <3>1 DEF Witness
  <2>4. ~Replayable(Program[file])
    <3> HIDE DEF r
    <3> QED BY <1>5, <2>2, <2>3 DEF Blocked, NoManifest, Replayable
  <2> QED BY <2>1, <2>4
<1> QED BY <1>4, <1>5

\* What a replay of an untouched file answers: WhatReplays, for any programs
\* and settings.
THEOREM ReplayAnswers == Spec => []WhatReplays
BY CalmInit, CalmInductive, CalmAnswers, TypedInit, TypedInductive, OriginInit,
   OriginInductive, PTL DEF Spec
=============================================================================
