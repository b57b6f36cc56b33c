--------------------------- MODULE QueryCacheProofs ---------------------------
(***************************************************************************)
(* Proofs about the query session, for any texts, configurations and       *)
(* number of queries and saves.  One invariant ties every output, cached   *)
(* or on its way up the stack, to the key it is stored under: to the       *)
(* options of the key always, and to its text unless the file was both     *)
(* saved under a query and set back to an earlier text.  A second one ties *)
(* what parse() has parsed to the keys of its cache.                       *)
(***************************************************************************)
EXTENDS QueryCache, SequenceTheorems, TLAPS

-------------------------------------------------------------------------------
(* What a key says. *)

TextOfKey(q, k) == CASE q = "parse" -> k.text
                     [] q = "kir"   -> k.parse.text
                     [] OTHER       -> k.kir.parse.text

RecoveryOfKey(q, k) == CASE q = "parse" -> k.recovery
                         [] q = "kir"   -> k.parse.recovery
                         [] OTHER       -> k.kir.parse.recovery

TransformOfKey(q, k) == IF q = "kir" THEN k.transform ELSE k.kir.transform

\* A key names the text it was formed from and the options of its query.
LEMMA KeySays ==
    ASSUME NEW q \in Queries, NEW t, NEW c
    PROVE  LET k == KeyOf(q, t, c) IN
             /\ TextOfKey(q, k) = t
             /\ RecoveryOfKey(q, k) = c.recovery
             /\ q # "parse" => TransformOfKey(q, k) = c.transform
<1> USE DEF KeyOf, ParseKey, KirKey, AnalysisKey, SolverKey, CodegenKey,
            TextOfKey, RecoveryOfKey, TransformOfKey
<1>1. CASE q = "parse"
  BY <1>1
<1>2. CASE q = "kir"
  BY <1>2
<1>5. CASE q = "solver"
  BY <1>5
<1>3. CASE q = "diagnostics"
  BY <1>3
<1>4. CASE q = "codegen"
  BY <1>4
<1> QED
  BY <1>1, <1>2, <1>3, <1>4, <1>5 DEF Queries

-------------------------------------------------------------------------------
(* The invariant. *)

Kirs == [text      : Texts,
         recovery  : {c.recovery : c \in Configs},
         transform : {c.transform : c \in Configs}]

Keys == {KeyOf(q, t, c) : q \in Queries, t \in Texts, c \in Configs}

Frames == [query : Queries, key : Keys \cup {NoKey}, todo : Seq(Queries), got : Seq([kir : Kirs])]

\* An output of q holds what recovery mode and transform options say.
Holds(q, out, recovery, transform) ==
    /\ out.kir.recovery = recovery
    /\ q # "parse" => out.kir.transform = transform
    /\ q = "diagnostics" => out.parsed.recovery = recovery

KeepsConfig(q, out) == Holds(q, out, config.recovery, config.transform)

\* A configuration that the session has held explains what diagnostics reported, and the present
\* one differs from it only in what its key leaves out.
Explained(out) ==
    \E c \in held :
      /\ c.recovery = config.recovery /\ c.transform = config.transform
      /\ c.policy = config.policy
      /\ out.options = DiagnosticsFor(c)

\* The same of an output of diagnostics and the key it is stored under.
Analysed(k, out) ==
    \E t \in Texts, c \in held : k = AnalysisKey(t, c) /\ out.options = DiagnosticsFor(c)

\* What is stored under a key.
Entry(q, k, out) ==
    /\ \E t \in Texts, c \in Configs : k = KeyOf(q, t, c)
    /\ Holds(q, out, RecoveryOfKey(q, k), TransformOfKey(q, k))
    /\ q = "diagnostics" => Analysed(k, out)
    /\ q \in {"parse", "kir"} => out \in [kir : Kirs]
    /\ TextOfKey(q, k) \in past
    /\ ~disturbed => TextsOf(q, out) = {TextOfKey(q, k)}
    /\ ~undone /\ TextOfKey(q, k) = disk => TextsOf(q, out) = {disk}

CacheKept ==
    /\ cache = [q \in Queries |-> cache[q]]
    /\ \A q \in Queries : \A k \in DOMAIN cache[q] : Entry(q, k, cache[q][k])

\* The key of a call that has formed one.
KeyKept(f) ==
    f.key # NoKey =>
      /\ \E t \in Texts : f.key = KeyOf(f.query, t, config)
      /\ f.key \notin DOMAIN cache[f.query]
      /\ TextOfKey(f.query, f.key) \in past
      /\ ~disturbed => TextOfKey(f.query, f.key) = disk

\* The n-th query that a call makes.
Asked(q, n) == IF q = "kir" \/ n = 2 THEN "parse" ELSE "kir"

\* What a call was given.
GotKept(f) ==
    \A n \in 1 .. Len(f.got) :
      /\ KeepsConfig(Asked(f.query, n), f.got[n])
      /\ ~disturbed => f.got[n].kir.text = disk
      /\ ~undone => /\ f.got[n].kir.text \in seen
                    /\ TextOfKey(f.query, f.key) = disk => f.got[n].kir.text = disk

Remaining(q, n) ==
    IF q = "diagnostics" /\ n = 0 THEN <<"kir", "parse">>
    ELSE IF q = "diagnostics" /\ n = 1 THEN <<"parse">>
    ELSE IF q \in {"solver", "codegen"} /\ n = 0 THEN <<"kir">>
    ELSE <<>>

Limit(q) == CASE q = "diagnostics" -> 2 [] q = "parse" -> 0 [] OTHER -> 1

\* How far a call has come; waiting is 1 when it waits for the call above it.
Progress(f, waiting) ==
    LET n == Len(f.got) + waiting IN
      /\ f.key = NoKey => n = 0
      /\ f.key # NoKey => /\ n <= Limit(f.query)
                          /\ \/ f.todo = Remaining(f.query, n)
                             \/ f.query = "kir" /\ n = 0 /\ f.todo = <<"parse">>

Rank(q) == CASE q = "parse" -> 1 [] q = "kir" -> 2 [] OTHER -> 3

Waiting(i) == IF i < Len(stack) THEN 1 ELSE 0

FrameKept(i) ==
    /\ KeyKept(stack[i])
    /\ GotKept(stack[i])
    /\ Progress(stack[i], Waiting(i))
    /\ Rank(stack[i].query) + i <= 4

\* A call and the call it waits for.
CallKept(f, g) ==
    /\ g.query = Asked(f.query, Len(f.got) + 1)
    /\ g.key # NoKey /\ ~undone /\ TextOfKey(f.query, f.key) = disk
         => TextOfKey(g.query, g.key) = disk

StackKept ==
    /\ stack \in Seq(Frames)
    /\ \A i \in 1 .. Len(stack) : FrameKept(i)
    /\ \A i \in 1 .. Len(stack) - 1 : CallKept(stack[i], stack[i + 1])
    /\ \A i, j \in 1 .. Len(stack) : i < j => Rank(stack[j].query) < Rank(stack[i].query)

AnswerKept ==
    \A q \in Queries : Answered(q) =>
      /\ KeepsConfig(q, answer.out)
      /\ q = "diagnostics" => Explained(answer.out)
      /\ (undone /\ disturbed) \/ TextsOf(q, answer.out) \subseteq seen

FileKept ==
    /\ disk \in Texts \cup {Missing} /\ disk \in past
    /\ config \in Configs /\ config \in held
    /\ undone \in BOOLEAN /\ disturbed \in BOOLEAN
    /\ stack # <<>> => disk \in seen /\ (~disturbed => seen = {disk})

Inv == FileKept /\ CacheKept /\ StackKept /\ AnswerKept

\* The invariant holds at the start.
LEMMA InitInv == Init => Inv
<1> SUFFICES ASSUME Init PROVE Inv
  OBVIOUS
<1> USE DEF Init
<1>1. FileKept
  BY DEF FileKept
<1>2. CacheKept
  BY DEF CacheKept
<1>3. StackKept
  BY DEF StackKept
<1>4. AnswerKept
  BY DEF AnswerKept, Answered
<1> QED
  BY <1>1, <1>2, <1>3, <1>4 DEF Inv

-------------------------------------------------------------------------------
(* The steps that leave the file, the configuration and their history. *)

Still == UNCHANGED <<disk, config, seen, environment>>

\* What is known of the file stays true while nobody edits it.
LEMMA StillFile ==
    ASSUME FileKept, Still, stack # <<>>
    PROVE  FileKept'
  BY DEF FileKept, Still, environment

\* So does what is known of an unchanged cache.
LEMMA StillCache ==
    ASSUME CacheKept, Still, UNCHANGED cache
    PROVE  CacheKept'
  BY DEF CacheKept, Entry, Analysed, Still, environment

\* A query that fails keeps the invariant.
LEMMA FailInv ==
    ASSUME Inv, Fail, Still, stack # <<>>
    PROVE  Inv'
<1>1. FileKept' /\ CacheKept'
  BY StillFile, StillCache DEF Inv, Fail
<1>2. StackKept'
  BY DEF Fail, StackKept
<1>3. AnswerKept'
  BY DEF Fail, AnswerKept, Answered
<1> QED
  BY <1>1, <1>2, <1>3 DEF Inv

\* A frame stays as it is, and the cache gains nothing under its key.
StaysAt(i) ==
    /\ stack'[i] = stack[i]
    /\ stack[i].key # NoKey => stack[i].key \notin DOMAIN cache'[stack[i].query]

\* A frame that stays where it is keeps what it has read.
LEMMA StayingFrame ==
    ASSUME Still, NEW i \in 1 .. Len(stack), StaysAt(i), FrameKept(i)
    PROVE  KeyKept(stack[i])' /\ GotKept(stack[i])'
<1>1. /\ disk' = disk /\ config' = config /\ seen' = seen /\ past' = past
      /\ undone' = undone /\ disturbed' = disturbed /\ held' = held
  BY DEF Still, environment
<1>2. KeyKept(stack[i])'
  BY <1>1 DEF StaysAt, FrameKept, KeyKept
<1>3. GotKept(stack[i])'
  BY <1>1 DEF StaysAt, FrameKept, GotKept, KeepsConfig, Holds
<1> QED
  BY <1>2, <1>3

\* An output that a query may return.
NewOut(q, out) ==
    /\ KeepsConfig(q, out)
    /\ q = "diagnostics" => Explained(out)
    /\ q \in {"parse", "kir"} => out \in [kir : Kirs]
    /\ ~disturbed => TextsOf(q, out) = {disk}
    /\ ~undone => /\ TextsOf(q, out) \subseteq seen
                  /\ Top.key = NoKey \/ TextOfKey(q, Top.key) = disk => TextsOf(q, out) = {disk}

\* A nested query is a parse or a kir.
LEMMA AskedIsBelow ==
    ASSUME NEW q, NEW n PROVE Asked(q, n) \in {"kir", "parse"}
  BY DEF Asked

\* The outermost call returns.
LEMMA ReturnLast ==
    ASSUME Inv, Still, Len(stack) = 1, NEW out, Return(out), NewOut(Top.query, out), CacheKept'
    PROVE  Inv'
<1>1. stack' = <<>> /\ answer' = [query |-> Top.query, out |-> out] /\ stack # <<>>
  BY DEF Return
<1>2. FileKept' /\ StackKept'
  BY <1>1, StillFile DEF Inv, StackKept
<1>3. /\ disk' = disk /\ config' = config /\ seen' = seen
      /\ undone' = undone /\ disturbed' = disturbed /\ held' = held
  BY DEF Still, environment
<1>4. disk \in seen
  BY <1>1 DEF Inv, FileKept
<1>5. /\ KeepsConfig(Top.query, out) /\ (Top.query = "diagnostics" => Explained(out))
      /\ (undone /\ disturbed) \/ TextsOf(Top.query, out) \subseteq seen
  BY <1>4 DEF NewOut
<1>6. AnswerKept'
  BY <1>1, <1>3, <1>5 DEF AnswerKept, Answered, KeepsConfig, Holds, Explained
<1> QED
  BY <1>2, <1>6 DEF Inv

\* A stack that is not empty has one frame or more.
LEMMA NotEmpty ==
    ASSUME NEW S, NEW s \in Seq(S), s # <<>>
    PROVE  Len(s) \in Nat /\ (Len(s) = 1 \/ Len(s) > 1)
<1>1. Len(s) \in Nat /\ Len(s) # 0
  BY EmptySeq
<1>2. PICK n \in Nat : n = Len(s)
  BY <1>1
<1>3. n = 1 \/ n > 1
  BY <1>1, <1>2
<1> QED
  BY <1>2, <1>3

\* A call is given the output of the call above it.
LEMMA ReturnInner ==
    ASSUME Inv, Still, Len(stack) > 1, NEW out, Return(out), NewOut(Top.query, out),
           CacheKept',
           \A i \in 1 .. Len(stack) - 1 :
              stack[i].key # NoKey => stack[i].key \notin DOMAIN cache'[stack[i].query]
    PROVE  Inv'
<1>0. stack \in Seq(Frames) /\ Len(stack) \in Nat /\ Len(stack) > 1
  BY DEF Inv, StackKept
<1>00. PICK m \in Nat : m = Len(stack) - 1
  BY <1>0
<1> DEFINE f == stack[m]
           h == [f EXCEPT !.got = Append(@, out)]
<1>1. /\ stack \in Seq(Frames) /\ m \in Nat /\ m >= 1 /\ Len(stack) = m + 1
      /\ Top = stack[m + 1] /\ f \in Frames /\ Top \in Frames
  BY <1>0, <1>00 DEF Top, Last
<1>2. /\ FrameKept(m) /\ CallKept(f, Top) /\ Waiting(m) = 1
      /\ Top.query = Asked(f.query, Len(f.got) + 1)
  BY <1>1 DEF Inv, StackKept, CallKept, Waiting
<1>3. f.key # NoKey
  BY <1>1, <1>2 DEF FrameKept, Progress, Frames
<1>4. Top.query \in {"kir", "parse"} /\ out \in [kir : Kirs] /\ TextsOf(Top.query, out) = {out.kir.text}
  BY <1>2, AskedIsBelow DEF NewOut, TextsOf
<1>5. /\ h \in Frames /\ h.query = f.query /\ h.key = f.key /\ h.todo = f.todo
      /\ Len(h.got) = Len(f.got) + 1 /\ h.got[Len(f.got) + 1] = out
      /\ \A n \in 1 .. Len(f.got) : h.got[n] = f.got[n]
  <2>1. f.got \in Seq([kir : Kirs])
    BY <1>1 DEF Frames
  <2>2. Append(f.got, out) \in Seq([kir : Kirs])
    BY <2>1, <1>4
  <2>3. h.got = Append(f.got, out) /\ h.query = f.query /\ h.key = f.key /\ h.todo = f.todo
    BY <1>1 DEF Frames
  <2>4. h \in Frames
    BY <2>2, <1>1 DEF Frames
  <2> QED
    BY <2>1, <2>3, <2>4, <1>4
<1>6. /\ stack' \in Seq(Frames) /\ Len(stack') = m
      /\ stack'[m] = h /\ \A i \in 1 .. m - 1 : stack'[i] = stack[i]
  <2>1. /\ Front(stack) \in Seq(Frames) /\ Len(Front(stack)) = m
        /\ \A i \in 1 .. m : Front(stack)[i] = stack[i]
    BY <1>1 DEF Front
  <2>2. stack' = [Front(stack) EXCEPT ![m] = h]
    BY <1>1, <2>1 DEF Return
  <2> QED
    BY <1>1, <1>5, <2>1, <2>2
<1>7. answer' = answer
  BY <1>1 DEF Return
<1>8. /\ disk' = disk /\ config' = config /\ seen' = seen /\ past' = past
      /\ undone' = undone /\ disturbed' = disturbed /\ held' = held
  BY DEF Still, environment
<1>9. ASSUME NEW i \in 1 .. m - 1 PROVE FrameKept(i)'
  <2>1. StaysAt(i) /\ FrameKept(i) /\ i \in 1 .. Len(stack)
    BY <1>1, <1>6, <1>9 DEF StaysAt, Inv, StackKept
  <2>2. Waiting(i)' = Waiting(i)
    BY <1>1, <1>6, <1>9 DEF Waiting
  <2> QED
    BY <2>1, <2>2, StayingFrame DEF StaysAt, FrameKept, Progress
<1>10. FrameKept(m)'
  <2>1. KeyKept(stack[m])'
    BY <1>1, <1>2, <1>3, <1>5, <1>6, <1>8 DEF FrameKept, KeyKept
  <2>2. ASSUME NEW n \in 1 .. Len(h.got)
        PROVE  /\ KeepsConfig(Asked(h.query, n), h.got[n])
               /\ ~disturbed => h.got[n].kir.text = disk
               /\ ~undone => /\ h.got[n].kir.text \in seen
                             /\ TextOfKey(h.query, h.key) = disk => h.got[n].kir.text = disk
    <3>1. CASE n = Len(f.got) + 1
      <4>1. KeepsConfig(Asked(h.query, n), h.got[n])
        BY <3>1, <1>2, <1>5 DEF NewOut
      <4>2. ~undone /\ TextOfKey(f.query, f.key) = disk
              => Top.key = NoKey \/ TextOfKey(Top.query, Top.key) = disk
        BY <1>2 DEF CallKept
      <4> QED
        BY <3>1, <4>1, <4>2, <1>4, <1>5 DEF NewOut
    <3>2. CASE n # Len(f.got) + 1
      <4>1. n \in 1 .. Len(f.got)
        BY <3>2, <2>2, <1>1, <1>5 DEF Frames
      <4> QED
        BY <4>1, <1>2, <1>5 DEF FrameKept, GotKept
    <3> QED
      BY <3>1, <3>2
  <2>3. GotKept(stack[m])'
    BY <2>2, <1>6, <1>8 DEF GotKept, KeepsConfig, Holds
  <2>4. Progress(stack[m], Waiting(m))'
    <3>1. Waiting(m)' = 0
      BY <1>6 DEF Waiting
    <3>2. Len(f.got) \in Nat
      BY <1>1 DEF Frames
    <3> QED
      BY <3>1, <3>2, <1>2, <1>3, <1>5, <1>6 DEF FrameKept, Progress
  <2> QED
    BY <2>1, <2>3, <2>4, <1>2, <1>5, <1>6 DEF FrameKept
<1>11. ASSUME NEW i \in 1 .. m - 1 PROVE CallKept(stack[i], stack[i + 1])'
  <2>1. CallKept(stack[i], stack[i + 1])
    BY <1>1, <1>11 DEF Inv, StackKept
  <2>2. stack'[i] = stack[i] /\ stack'[i + 1].query = stack[i + 1].query
        /\ stack'[i + 1].key = stack[i + 1].key
    <3>1. CASE i + 1 = m
      BY <3>1, <1>5, <1>6, <1>11
    <3>2. CASE i + 1 # m
      BY <3>2, <1>1, <1>6, <1>11
    <3> QED
      BY <3>1, <3>2
  <2> QED
    BY <2>1, <2>2, <1>8 DEF CallKept
<1>12. ASSUME NEW i \in 1 .. m, NEW j \in 1 .. m, i < j
       PROVE  Rank(stack'[j].query) < Rank(stack'[i].query)
  <2>1. Rank(stack[j].query) < Rank(stack[i].query)
    BY <1>1, <1>12 DEF Inv, StackKept
  <2>2. \A l \in 1 .. m : stack'[l].query = stack[l].query
    <3>1. \A l \in 1 .. m : l = m \/ l \in 1 .. m - 1
      BY <1>1
    <3> QED
      BY <3>1, <1>5, <1>6
  <2> QED
    BY <2>1, <2>2
<1>a. stack # <<>>
  BY <1>0
<1>13. StackKept'
  <2>1. \A i \in 1 .. m : FrameKept(i)'
    BY <1>1, <1>9, <1>10
  <2> QED
    BY <1>6, <1>11, <1>12, <2>1 DEF StackKept
<1>14. AnswerKept'
  BY <1>7, <1>8 DEF Inv, AnswerKept, Answered, KeepsConfig, Holds, Explained
<1> QED
  BY <1>a, <1>13, <1>14, StillFile DEF Inv

\* A call returns, to its caller or to the session.
LEMMA ReturnInv ==
    ASSUME Inv, Still, stack # <<>>, NEW out, Return(out), NewOut(Top.query, out), CacheKept',
           \A i \in 1 .. Len(stack) - 1 :
              stack[i].key # NoKey => stack[i].key \notin DOMAIN cache'[stack[i].query]
    PROVE  Inv'
<1>1. stack \in Seq(Frames)
  BY DEF Inv, StackKept
<1>2. Len(stack) = 1 \/ Len(stack) > 1
  BY <1>1, NotEmpty
<1>3. CASE Len(stack) = 1
  BY <1>3, ReturnLast
<1>4. CASE Len(stack) > 1
  BY <1>4, ReturnInner
<1> QED
  BY <1>2, <1>3, <1>4

\* The innermost call, as a frame of the stack.
LEMMA TopFrame ==
    ASSUME Inv, stack # <<>>
    PROVE  \E n \in Nat :
             /\ n >= 1 /\ Len(stack) = n /\ Top = stack[n] /\ Top \in Frames
             /\ FrameKept(n) /\ Waiting(n) = 0
<1>1. stack \in Seq(Frames)
  BY DEF Inv, StackKept
<1>2. Len(stack) \in Nat /\ (Len(stack) = 1 \/ Len(stack) > 1)
  BY <1>1, NotEmpty
<1>3. PICK n \in Nat : n = Len(stack)
  BY <1>2
<1>4. n >= 1 /\ Top = stack[n] /\ Top \in Frames
  BY <1>1, <1>2, <1>3 DEF Top, Last
<1>5. FrameKept(n) /\ Waiting(n) = 0
  BY <1>3, <1>4 DEF Inv, StackKept, Waiting
<1> QED
  BY <1>3, <1>4, <1>5

\* The calls below the innermost one are calls of other queries.
LEMMA OthersBelow ==
    ASSUME Inv, stack # <<>>, NEW i \in 1 .. Len(stack) - 1
    PROVE  /\ stack[i].query # Top.query
           /\ stack[i].key # NoKey => stack[i].key \notin DOMAIN cache[stack[i].query]
<1>1. PICK n \in Nat : n >= 1 /\ Len(stack) = n /\ Top = stack[n] /\ Top \in Frames
  BY TopFrame
<1>2. i \in 1 .. Len(stack) /\ n \in 1 .. Len(stack) /\ i < n
  BY <1>1
<1>3. Rank(stack[n].query) < Rank(stack[i].query) /\ FrameKept(i)
  BY <1>2 DEF Inv, StackKept
<1>4. Rank(stack[n].query) \in Nat
  BY DEF Rank
<1> QED
  BY <1>1, <1>3, <1>4 DEF FrameKept, KeyKept

\* What is computed goes into the cache under the key of the call.
LEMMA StoreInv ==
    ASSUME Inv, Still, stack # <<>>, Top.key # NoKey, NEW out, Store(out),
           NewOut(Top.query, out),
           Top.query = "diagnostics" => out.options = DiagnosticsFor(config)
    PROVE  Inv'
<1>1. PICK n \in Nat : /\ n >= 1 /\ Len(stack) = n /\ Top = stack[n] /\ Top \in Frames
                       /\ FrameKept(n)
  BY TopFrame
<1>2. PICK qq \in Queries : qq = Top.query
  BY <1>1 DEF Frames
<1>3. PICK kk : kk = Top.key
  OBVIOUS
<1>4. KeyKept(Top)
  BY <1>1 DEF FrameKept
<1>5. PICK tt \in Texts : kk = KeyOf(qq, tt, config)
  BY <1>2, <1>3, <1>4 DEF KeyKept
<1>6. /\ disk' = disk /\ config' = config /\ past' = past
      /\ undone' = undone /\ disturbed' = disturbed /\ held' = held
  BY DEF Still, environment
<1>7. /\ TextOfKey(qq, kk) = tt /\ RecoveryOfKey(qq, kk) = config.recovery
      /\ qq # "parse" => TransformOfKey(qq, kk) = config.transform
  BY <1>5, KeySays
<1>8. config \in Configs /\ config \in held
  BY DEF Inv, FileKept
<1>9. Entry(qq, kk, out)
  <2>1. \E t \in Texts, c \in Configs : kk = KeyOf(qq, t, c)
    BY <1>5, <1>8
  <2>2. Holds(qq, out, RecoveryOfKey(qq, kk), TransformOfKey(qq, kk))
    BY <1>2, <1>7 DEF NewOut, KeepsConfig, Holds
  <2>3. qq \in {"parse", "kir"} => out \in [kir : Kirs]
    BY <1>2 DEF NewOut
  <2>4. TextOfKey(qq, kk) \in past /\ (~disturbed => TextOfKey(qq, kk) = disk)
    BY <1>2, <1>3, <1>4 DEF KeyKept
  <2>5. ~disturbed => TextsOf(qq, out) = {TextOfKey(qq, kk)}
    BY <1>2, <2>4 DEF NewOut
  <2>6. ~undone /\ TextOfKey(qq, kk) = disk => TextsOf(qq, out) = {disk}
    BY <1>2, <1>3 DEF NewOut
  <2>7. qq = "diagnostics" => Analysed(kk, out)
    BY <1>2, <1>5, <1>8 DEF Analysed, KeyOf
  <2> QED
    BY <2>1, <2>2, <2>3, <2>4, <2>5, <2>6, <2>7 DEF Entry
<1>10. /\ cache' = [cache EXCEPT ![qq] =
                       [k \in DOMAIN @ \union {kk} |-> IF k = kk THEN out ELSE @[k]]]
       /\ Return(out)
  BY <1>2, <1>3 DEF Store
<1>11. cache = [q \in Queries |-> cache[q]]
  BY DEF Inv, CacheKept
<1>12. ASSUME NEW q \in Queries, NEW k \in DOMAIN cache'[q]
       PROVE  Entry(q, k, cache'[q][k])
  <2>1. CASE q = qq /\ k = kk
    BY <2>1, <1>9, <1>10, <1>11
  <2>2. CASE ~(q = qq /\ k = kk)
    <3>1. k \in DOMAIN cache[q] /\ cache'[q][k] = cache[q][k]
      BY <2>2, <1>10, <1>11, <1>12
    <3> QED
      BY <3>1 DEF Inv, CacheKept
  <2> QED
    BY <2>1, <2>2
<1>13. CacheKept'
  <2>1. cache' = [q \in Queries |-> cache'[q]]
    BY <1>10, <1>11
  <2>2. ASSUME NEW q \in Queries, NEW k \in DOMAIN cache'[q]
        PROVE  Entry(q, k, cache[q][k])'
    <3>1. Entry(q, k, cache'[q][k])
      BY <1>12, <2>2
    <3> QED
      BY <1>6, <3>1 DEF Entry, Analysed
  <2> QED
    BY <2>1, <2>2 DEF CacheKept
<1>14. ASSUME NEW i \in 1 .. Len(stack) - 1
       PROVE  stack[i].key # NoKey => stack[i].key \notin DOMAIN cache'[stack[i].query]
  <2>1. stack[i].query \in Queries
    <3>1. i \in 1 .. Len(stack) /\ stack \in Seq(Frames)
      BY <1>1, <1>14 DEF Inv, StackKept
    <3>2. stack[i] \in Frames
      BY <3>1
    <3> QED
      BY <3>2 DEF Frames
  <2>2. cache'[stack[i].query] = cache[stack[i].query]
    BY <2>1, <1>2, <1>10, <1>11, <1>14, OthersBelow
  <2> QED
    BY <2>2, <1>14, OthersBelow
<1> QED
  BY <1>10, <1>13, <1>14, ReturnInv

-------------------------------------------------------------------------------
(* The steps of a call. *)

\* An output found under the key of the call is what the call returns.
LEMMA HitInv ==
    ASSUME Inv, Still, stack # <<>>, Top.key = NoKey, disk # Missing, UNCHANGED cache,
           KeyOf(Top.query, disk, config) \in DOMAIN cache[Top.query],
           Return(cache[Top.query][KeyOf(Top.query, disk, config)])
    PROVE  Inv'
<1>1. PICK n \in Nat : Top = stack[n] /\ Top \in Frames
  BY TopFrame
<1>2. PICK qq \in Queries : qq = Top.query
  BY <1>1 DEF Frames
<1>3. disk \in Texts /\ config \in Configs /\ disk \in seen
  BY DEF Inv, FileKept
<1>4. PICK tt \in Texts : tt = disk
  BY <1>3
<1>5. PICK cc \in Configs : cc = config
  BY <1>3
<1>6. PICK kk : kk = KeyOf(qq, tt, cc)
  OBVIOUS
<1>7. PICK out : out = cache[qq][kk]
  OBVIOUS
<1>8. Entry(qq, kk, out) /\ Return(out)
  BY <1>2, <1>4, <1>5, <1>6, <1>7 DEF Inv, CacheKept
<1>9. /\ TextOfKey(qq, kk) = tt /\ RecoveryOfKey(qq, kk) = cc.recovery
      /\ qq # "parse" => TransformOfKey(qq, kk) = cc.transform
  BY <1>6, KeySays
<1>10. KeepsConfig(qq, out)
  BY <1>5, <1>8, <1>9 DEF Entry, KeepsConfig, Holds
<1>11. NewOut(Top.query, out)
  <2>1. (~disturbed => TextsOf(qq, out) = {disk}) /\ (~undone => TextsOf(qq, out) = {disk})
    BY <1>4, <1>8, <1>9 DEF Entry
  <2>2. ASSUME qq = "diagnostics" PROVE Explained(out)
    <3>1. PICK t \in Texts, c \in held : kk = AnalysisKey(t, c) /\ out.options = DiagnosticsFor(c)
      BY <1>8, <2>2 DEF Entry, Analysed
    <3>2. AnalysisKey(t, c) = AnalysisKey(tt, cc)
      BY <1>6, <2>2, <3>1 DEF KeyOf
    <3>3. c.recovery = cc.recovery /\ c.transform = cc.transform /\ c.policy = cc.policy
      BY <3>2 DEF AnalysisKey, KirKey, ParseKey
    <3> QED
      BY <1>5, <3>1, <3>3 DEF Explained
  <2> QED
    BY <2>1, <2>2, <1>2, <1>3, <1>8, <1>10 DEF NewOut, Entry
<1>12. CacheKept'
  BY StillCache DEF Inv
<1>13. \A i \in 1 .. Len(stack) - 1 :
          stack[i].key # NoKey => stack[i].key \notin DOMAIN cache'[stack[i].query]
  BY OthersBelow
<1> QED
  BY <1>8, <1>11, <1>12, <1>13, ReturnInv

\* The call on top of the stack is replaced by another of the same query.
LEMMA TopReplaced ==
    ASSUME Inv, Still, UNCHANGED <<cache, answer>>, NEW n \in Nat, n >= 1, Len(stack) = n,
           NEW g \in Frames, g.query = stack[n].query,
           stack' = [stack EXCEPT ![n] = g],
           KeyKept(g), GotKept(g), Progress(g, 0),
           ~undone /\ g.key # NoKey => TextOfKey(g.query, g.key) = disk
    PROVE  Inv'
<1>1. /\ stack \in Seq(Frames) /\ stack' \in Seq(Frames) /\ Len(stack') = n
      /\ stack'[n] = g /\ \A i \in 1 .. n - 1 : stack'[i] = stack[i]
  BY DEF Inv, StackKept
<1>2. /\ disk' = disk /\ config' = config /\ seen' = seen /\ past' = past
      /\ undone' = undone /\ disturbed' = disturbed /\ held' = held
  BY DEF Still, environment
<1>3. \A l \in 1 .. n : l = n \/ l \in 1 .. n - 1
  OBVIOUS
<1>4. ASSUME NEW i \in 1 .. n - 1 PROVE FrameKept(i)'
  <2>1. FrameKept(i) /\ i \in 1 .. Len(stack)
    BY <1>4 DEF Inv, StackKept
  <2>2. StaysAt(i)
    BY <2>1, <1>1, <1>4 DEF StaysAt, FrameKept, KeyKept
  <2>3. Waiting(i)' = Waiting(i)
    BY <1>1 DEF Waiting
  <2> QED
    BY <2>1, <2>2, <2>3, StayingFrame DEF StaysAt, FrameKept, Progress
<1>5. FrameKept(n)'
  <2>1. FrameKept(n)
    BY DEF Inv, StackKept
  <2>2. Waiting(n)' = 0
    BY <1>1 DEF Waiting
  <2>3. KeyKept(stack[n])'
    BY <1>1, <1>2 DEF KeyKept
  <2>4. GotKept(stack[n])'
    BY <1>1, <1>2 DEF GotKept, KeepsConfig, Holds
  <2> QED
    BY <2>1, <2>2, <2>3, <2>4, <1>1 DEF FrameKept, Progress
<1>6. ASSUME NEW i \in 1 .. n - 1 PROVE CallKept(stack[i], stack[i + 1])'
  <2>1. CallKept(stack[i], stack[i + 1]) /\ stack'[i] = stack[i]
    BY <1>1, <1>6 DEF Inv, StackKept
  <2>2. CASE i + 1 = n
    BY <2>1, <2>2, <1>1, <1>2 DEF CallKept
  <2>3. CASE i + 1 # n
    <3>1. i + 1 \in 1 .. n - 1
      BY <2>3, <1>6
    <3> QED
      BY <2>1, <3>1, <1>1, <1>2 DEF CallKept
  <2> QED
    BY <2>2, <2>3
<1>7. ASSUME NEW i \in 1 .. n, NEW j \in 1 .. n, i < j
      PROVE  Rank(stack'[j].query) < Rank(stack'[i].query)
  <2>1. Rank(stack[j].query) < Rank(stack[i].query)
    BY <1>7 DEF Inv, StackKept
  <2>2. \A l \in 1 .. n : stack'[l].query = stack[l].query
    BY <1>1, <1>3
  <2> QED
    BY <2>1, <2>2
<1>8. StackKept'
  <2>1. \A i \in 1 .. n : FrameKept(i)'
    BY <1>3, <1>4, <1>5
  <2> QED
    BY <1>1, <1>6, <1>7, <2>1 DEF StackKept
<1>9. AnswerKept'
  BY <1>2 DEF Inv, AnswerKept, Answered, KeepsConfig, Holds, Explained
<1>10. stack # <<>>
  BY <1>1
<1>11. FileKept' /\ CacheKept'
  BY <1>10, StillFile, StillCache DEF Inv
<1> QED
  BY <1>8, <1>9, <1>11 DEF Inv

\* The lists of queries that a call can have left to make.
LEMMA Lists ==
    /\ <<>> \in Seq(Queries) /\ <<"parse">> \in Seq(Queries) /\ <<"kir">> \in Seq(Queries)
    /\ <<"kir", "parse">> \in Seq(Queries)
    /\ Head(<<"parse">>) = "parse" /\ Tail(<<"parse">>) = <<>> /\ <<"parse">> # <<>>
    /\ Head(<<"kir">>) = "kir" /\ Tail(<<"kir">>) = <<>> /\ <<"kir">> # <<>>
    /\ Head(<<"kir", "parse">>) = "kir" /\ Tail(<<"kir", "parse">>) = <<"parse">>
    /\ <<"kir", "parse">> # <<>>
<1>1. "parse" \in Queries /\ "kir" \in Queries
  BY DEF Queries
<1>2. <<>> \in Seq(Queries) /\ <<"parse">> \in Seq(Queries) /\ <<"kir">> \in Seq(Queries)
  BY <1>1
<1>3. <<"kir", "parse">> \in Seq(Queries)
  BY <1>1
<1>4. Head(<<"parse">>) = "parse" /\ Tail(<<"parse">>) = <<>> /\ <<"parse">> # <<>>
  OBVIOUS
<1>5. Head(<<"kir">>) = "kir" /\ Tail(<<"kir">>) = <<>> /\ <<"kir">> # <<>>
  OBVIOUS
<1>6. /\ Head(<<"kir", "parse">>) = "kir" /\ Tail(<<"kir", "parse">>) = <<"parse">>
      /\ <<"kir", "parse">> # <<>>
  OBVIOUS
<1> QED
  BY <1>2, <1>3, <1>4, <1>5, <1>6

\* No output under the key: the call goes on with what it must ask for first.
LEMMA MissInv ==
    ASSUME Inv, Still, stack # <<>>, Top.key = NoKey, disk # Missing,
           UNCHANGED <<cache, answer>>,
           KeyOf(Top.query, disk, config) \notin DOMAIN cache[Top.query],
           stack' = [stack EXCEPT ![Len(stack)] =
                        [@ EXCEPT !.key = KeyOf(Top.query, disk, config),
                                  !.todo = Prerequisites(Top.query, disk, config)]]
    PROVE  Inv'
<1>1. PICK n \in Nat : /\ n >= 1 /\ Len(stack) = n /\ Top = stack[n] /\ Top \in Frames
                       /\ FrameKept(n) /\ Waiting(n) = 0
  BY TopFrame
<1>2. PICK qq \in Queries : qq = Top.query
  BY <1>1 DEF Frames
<1>3. disk \in Texts /\ config \in Configs /\ disk \in past
  BY DEF Inv, FileKept
<1>4. PICK kk : kk = KeyOf(qq, disk, config)
  OBVIOUS
<1>5. PICK todo : todo = Prerequisites(qq, disk, config)
  OBVIOUS
<1>6. PICK g : g = [stack[n] EXCEPT !.key = kk, !.todo = todo]
  OBVIOUS
<1>7. TextOfKey(qq, kk) = disk
  <2>1. PICK tt, cc : tt = disk /\ cc = config
    OBVIOUS
  <2> QED
    BY <2>1, <1>4, KeySays
<1>8. kk \in Keys
  BY <1>3, <1>4 DEF Keys
<1>9. /\ todo \in Seq(Queries)
      /\ \/ todo = Remaining(qq, 0)
         \/ qq = "kir" /\ todo = <<"parse">>
  <2>1. CASE qq = "parse"
    BY <2>1, <1>5, Lists DEF Prerequisites, Remaining
  <2>2. CASE qq = "kir"
    BY <2>2, <1>5, Lists DEF Prerequisites, Remaining
  <2>3. CASE qq = "diagnostics"
    BY <2>3, <1>5, Lists DEF Prerequisites, Remaining
  <2>4. CASE qq \in {"solver", "codegen"}
    BY <2>4, <1>5, Lists DEF Prerequisites, Remaining
  <2> QED
    BY <2>1, <2>2, <2>3, <2>4 DEF Queries
<1>10. /\ g \in Frames /\ g.query = qq /\ g.key = kk /\ g.todo = todo
       /\ g.got = stack[n].got
  <2>1. stack[n] \in Frames
    BY <1>1
  <2> QED
    BY <2>1, <1>1, <1>2, <1>6, <1>8, <1>9 DEF Frames
<1>11. Len(g.got) = 0
  <2>1. stack[n].got \in Seq([kir : Kirs])
    BY <1>1 DEF Frames
  <2>2. Len(stack[n].got) \in Nat
    BY <2>1
  <2>3. Len(stack[n].got) + 0 = 0
    BY <1>1 DEF FrameKept, Progress
  <2> QED
    BY <2>2, <2>3, <1>10
<1>12. KeyKept(g)
  BY <1>2, <1>3, <1>4, <1>7, <1>10 DEF KeyKept
<1>13. GotKept(g)
  BY <1>11 DEF GotKept
<1>14. Progress(g, 0)
  BY <1>2, <1>9, <1>10, <1>11 DEF Progress, Limit
<1>15. stack' = [stack EXCEPT ![n] = g]
  BY <1>1, <1>2, <1>4, <1>5, <1>6
<1> QED
  BY <1>1, <1>2, <1>7, <1>10, <1>12, <1>13, <1>14, <1>15, TopReplaced

\* Forming a key keeps the invariant.
LEMMA ReadKeyInv == Inv /\ ReadKey => Inv'
<1> SUFFICES ASSUME Inv, ReadKey PROVE Inv'
  OBVIOUS
<1>1. Still /\ stack # <<>> /\ Top.key = NoKey
  BY DEF ReadKey, Still
<1>2. CASE disk = Missing
  BY <1>1, <1>2, FailInv DEF ReadKey
<1>3. CASE disk # Missing /\ KeyOf(Top.query, disk, config) \in DOMAIN cache[Top.query]
  BY <1>1, <1>3, HitInv DEF ReadKey
<1>4. CASE disk # Missing /\ KeyOf(Top.query, disk, config) \notin DOMAIN cache[Top.query]
  BY <1>1, <1>4, MissInv DEF ReadKey
<1> QED
  BY <1>2, <1>3, <1>4

\* A nested call keeps it.
LEMMA DescendInv == Inv /\ Descend => Inv'
<1> SUFFICES ASSUME Inv, Descend PROVE Inv'
  OBVIOUS
<1>1. /\ Still /\ stack # <<>> /\ Top.key # NoKey /\ Top.todo # <<>>
      /\ UNCHANGED <<cache, answer>>
  BY DEF Descend, Still
<1>2. PICK n \in Nat : /\ n >= 1 /\ Len(stack) = n /\ Top = stack[n] /\ Top \in Frames
                       /\ FrameKept(n) /\ Waiting(n) = 0
  BY <1>1, TopFrame
<1>3. PICK f \in Frames : f = stack[n]
  BY <1>2
<1>4. PICK l \in Nat : l = Len(f.got)
  <2>1. f.got \in Seq([kir : Kirs])
    BY DEF Frames
  <2> QED
    BY <2>1
<1>5. PICK q \in Queries : q = Asked(f.query, l + 1)
  BY DEF Asked, Queries
<1>6. /\ l <= 1 /\ l + 1 <= Limit(f.query)
      /\ f.todo \in Seq(Queries) /\ f.todo # <<>> /\ Head(f.todo) = q
      /\ Tail(f.todo) \in Seq(Queries) /\ Tail(f.todo) = Remaining(f.query, l + 1)
      /\ Rank(q) < Rank(f.query)
  <2>1. /\ l <= Limit(f.query) /\ f.todo # <<>> /\ f.query \in Queries
        /\ \/ f.todo = Remaining(f.query, l)
           \/ f.query = "kir" /\ l = 0 /\ f.todo = <<"parse">>
    BY <1>1, <1>2, <1>3, <1>4 DEF FrameKept, Progress, Frames
  <2>2. CASE f.query = "diagnostics" /\ l = 0
    <3>1. f.todo = <<"kir", "parse">> /\ q = "kir" /\ l + 1 = 1
      BY <2>1, <2>2, <1>5 DEF Remaining, Asked
    <3>2. Limit(f.query) = 2 /\ Rank("kir") < Rank(f.query)
      BY <2>2 DEF Limit, Rank
    <3>3. Remaining(f.query, 1) = <<"parse">>
      BY <2>2 DEF Remaining
    <3> QED
      BY <2>2, <3>1, <3>2, <3>3, Lists
  <2>3. CASE f.query = "diagnostics" /\ l = 1
    <3>1. f.todo = <<"parse">> /\ q = "parse" /\ l + 1 = 2
      BY <2>1, <2>3, <1>5 DEF Remaining, Asked
    <3>2. Limit(f.query) = 2 /\ Rank("parse") < Rank(f.query)
      BY <2>3 DEF Limit, Rank
    <3>3. Remaining(f.query, 2) = <<>>
      BY <2>3 DEF Remaining
    <3> QED
      BY <2>3, <3>1, <3>2, <3>3, Lists
  <2>4. CASE f.query = "kir" /\ l = 0
    <3>1. f.todo = <<"parse">> /\ q = "parse" /\ l + 1 = 1
      BY <2>1, <2>4, <1>5 DEF Remaining, Asked
    <3>2. Limit(f.query) = 1 /\ Rank("parse") < Rank(f.query)
      BY <2>4 DEF Limit, Rank
    <3>3. Remaining(f.query, 1) = <<>>
      BY <2>4 DEF Remaining
    <3> QED
      BY <2>4, <3>1, <3>2, <3>3, Lists
  <2>5. CASE f.query \in {"solver", "codegen"} /\ l = 0
    <3>1. f.todo = <<"kir">> /\ q = "kir" /\ l + 1 = 1
      BY <2>1, <2>5, <1>5 DEF Remaining, Asked
    <3>2. Limit(f.query) = 1 /\ Rank("kir") < Rank(f.query)
      BY <2>5 DEF Limit, Rank
    <3>3. Remaining(f.query, 1) = <<>>
      BY <2>5 DEF Remaining
    <3> QED
      BY <2>5, <3>1, <3>2, <3>3, Lists
  <2>6. \/ f.query = "diagnostics" /\ l = 0
        \/ f.query = "diagnostics" /\ l = 1
        \/ f.query = "kir" /\ l = 0
        \/ f.query \in {"solver", "codegen"} /\ l = 0
    BY <2>1 DEF Remaining, Queries
  <2> QED
    BY <2>2, <2>3, <2>4, <2>5, <2>6
<1>7. PICK h : h = [f EXCEPT !.todo = Tail(@)]
  OBVIOUS
<1>8. /\ h \in Frames /\ h.query = f.query /\ h.key = f.key /\ h.got = f.got
      /\ h.todo = Remaining(f.query, l + 1)
  BY <1>6, <1>7 DEF Frames
<1>9. Frame(q) \in Frames /\ Frame(q).query = q /\ Frame(q).key = NoKey /\ Len(Frame(q).got) = 0
  BY DEF Frame, Frames
<1>10. /\ stack \in Seq(Frames) /\ stack' \in Seq(Frames) /\ Len(stack') = n + 1
       /\ stack'[n + 1] = Frame(q) /\ stack'[n] = h
       /\ \A i \in 1 .. n - 1 : stack'[i] = stack[i]
  <2>1. stack \in Seq(Frames)
    BY DEF Inv, StackKept
  <2>2. stack' = Append([stack EXCEPT ![n] = h], Frame(q))
    BY <1>2, <1>3, <1>6, <1>7 DEF Descend
  <2>3. PICK s : s = [stack EXCEPT ![n] = h]
    OBVIOUS
  <2>4. s \in Seq(Frames) /\ Len(s) = n /\ s[n] = h /\ \A i \in 1 .. n - 1 : s[i] = stack[i]
    BY <2>1, <2>3, <1>2, <1>8
  <2> QED
    BY <2>1, <2>2, <2>3, <2>4, <1>2, <1>9
<1>11. /\ disk' = disk /\ config' = config /\ seen' = seen /\ past' = past
       /\ undone' = undone /\ disturbed' = disturbed /\ held' = held
  BY <1>1 DEF Still, environment
<1>12. ASSUME NEW i \in 1 .. n - 1 PROVE FrameKept(i)'
  <2>1. FrameKept(i) /\ i \in 1 .. Len(stack)
    BY <1>2, <1>12 DEF Inv, StackKept
  <2>2. StaysAt(i)
    BY <2>1, <1>1, <1>10, <1>12 DEF StaysAt, FrameKept, KeyKept
  <2>3. Waiting(i)' = Waiting(i)
    BY <1>2, <1>10, <1>12 DEF Waiting
  <2> QED
    BY <2>1, <2>2, <2>3, <1>1, StayingFrame DEF StaysAt, FrameKept, Progress
<1>13. FrameKept(n)'
  <2>1. KeyKept(stack[n])'
    BY <1>1, <1>2, <1>3, <1>8, <1>10, <1>11 DEF FrameKept, KeyKept
  <2>2. GotKept(stack[n])'
    BY <1>2, <1>3, <1>8, <1>10, <1>11 DEF FrameKept, GotKept, KeepsConfig, Holds
  <2>3. Waiting(n)' = 1
    BY <1>10 DEF Waiting
  <2>4. Progress(stack[n], Waiting(n))'
    BY <2>3, <1>1, <1>2, <1>3, <1>4, <1>6, <1>8, <1>10 DEF Progress
  <2>5. Rank(f.query) + n <= 4
    BY <1>2, <1>3 DEF FrameKept
  <2> QED
    BY <2>1, <2>2, <2>4, <2>5, <1>8, <1>10 DEF FrameKept
<1>14. Rank(q) + (n + 1) <= 4
  <2>1. Rank(f.query) + n <= 4 /\ Rank(f.query) \in Nat /\ Rank(q) \in Nat
    BY <1>2, <1>3 DEF FrameKept, Rank
  <2> QED
    BY <2>1, <1>6
<1>15. PICK m \in Nat : m = n + 1
  OBVIOUS
<1>16. FrameKept(m)'
  <2>1. KeyKept(stack[m])' /\ GotKept(stack[m])'
    BY <1>9, <1>10, <1>15 DEF KeyKept, GotKept
  <2>2. Waiting(m)' = 0
    BY <1>10, <1>15 DEF Waiting
  <2>3. Progress(stack[m], Waiting(m))'
    BY <2>2, <1>9, <1>10, <1>15 DEF Progress
  <2> QED
    BY <2>1, <2>3, <1>9, <1>10, <1>14, <1>15 DEF FrameKept
<1>17. ASSUME NEW i \in 1 .. n PROVE CallKept(stack[i], stack[i + 1])'
  <2>1. CASE i = n
    BY <2>1, <1>4, <1>5, <1>8, <1>9, <1>10 DEF CallKept
  <2>2. CASE i # n
    <3>1. i \in 1 .. Len(stack) - 1 /\ i \in 1 .. n - 1
      BY <2>2, <1>2
    <3>2. CallKept(stack[i], stack[i + 1]) /\ stack'[i] = stack[i]
      BY <3>1, <1>10 DEF Inv, StackKept
    <3>3. stack'[i + 1].query = stack[i + 1].query /\ stack'[i + 1].key = stack[i + 1].key
      <4>1. CASE i + 1 = n
        BY <4>1, <1>3, <1>8, <1>10
      <4>2. CASE i + 1 # n
        BY <4>2, <3>1, <1>10
      <4> QED
        BY <4>1, <4>2
    <3> QED
      BY <3>2, <3>3, <1>11 DEF CallKept
  <2> QED
    BY <2>1, <2>2
<1>18. ASSUME NEW i \in 1 .. m, NEW j \in 1 .. m, i < j
       PROVE  Rank(stack'[j].query) < Rank(stack'[i].query)
  <2>1. \A k \in 1 .. n : stack'[k].query = stack[k].query
    <3>1. \A k \in 1 .. n : k = n \/ k \in 1 .. n - 1
      OBVIOUS
    <3> QED
      BY <3>1, <1>3, <1>8, <1>10
  <2>2. i \in 1 .. n /\ (j = m \/ j \in 1 .. n)
    BY <1>15, <1>18
  <2>3. \A k1, k2 \in 1 .. n : k1 < k2 => Rank(stack[k2].query) < Rank(stack[k1].query)
    BY <1>2 DEF Inv, StackKept
  <2>4. CASE j = m
    <3>1. Rank(f.query) <= Rank(stack[i].query)
      <4>1. Rank(stack[i].query) \in Nat /\ Rank(stack[n].query) \in Nat
        BY DEF Rank
      <4>2. CASE i = n
        BY <4>1, <4>2, <1>3
      <4>3. CASE i # n
        <5>1. i < n /\ n \in 1 .. n
          BY <4>3, <2>2
        <5> QED
          BY <4>1, <5>1, <2>2, <2>3, <1>3
      <4> QED
        BY <4>2, <4>3
    <3>2. Rank(f.query) \in Nat /\ Rank(q) \in Nat /\ Rank(stack[i].query) \in Nat
      BY DEF Rank
    <3> QED
      BY <3>1, <3>2, <2>1, <2>2, <2>4, <1>6, <1>9, <1>10, <1>15
  <2>5. CASE j \in 1 .. n
    BY <2>1, <2>2, <2>3, <2>5, <1>18
  <2> QED
    BY <2>2, <2>4, <2>5
<1>19. StackKept'
  <2>1. \A i \in 1 .. m : i = m \/ i = n \/ i \in 1 .. n - 1
    BY <1>15
  <2>2. \A i \in 1 .. m : FrameKept(i)'
    BY <2>1, <1>12, <1>13, <1>16
  <2>3. m - 1 = n
    BY <1>15
  <2> QED
    BY <2>2, <2>3, <1>10, <1>15, <1>17, <1>18 DEF StackKept
<1>20. AnswerKept'
  BY <1>1, <1>11 DEF Inv, AnswerKept, Answered, KeepsConfig, Holds, Explained
<1>21. FileKept' /\ CacheKept'
  BY <1>1, StillFile, StillCache DEF Inv
<1> QED
  BY <1>19, <1>20, <1>21 DEF Inv

\* What is known of a call that has its key and all nested answers.
LEMMA ReadyCall ==
    ASSUME NEW q, Inv, Ready(q)
    PROVE  /\ Still /\ stack # <<>> /\ Top.key # NoKey /\ Top.query = q /\ disk \in seen
           /\ Top \in Frames /\ GotKept(Top) /\ Len(Top.got) \in Nat
           /\ q = "diagnostics" => Len(Top.got) = 2
           /\ q = "solver" => Len(Top.got) = 1
<1>1. Still /\ stack # <<>> /\ Top.key # NoKey /\ Top.query = q /\ Top.todo = <<>>
  BY DEF Ready, Still
<1>2. PICK n \in Nat : Top = stack[n] /\ Top \in Frames /\ FrameKept(n) /\ Waiting(n) = 0
  BY <1>1, TopFrame
<1>3. Top.got \in Seq([kir : Kirs])
  BY <1>2 DEF Frames
<1>4. PICK l \in Nat : l = Len(Top.got)
  BY <1>3
<1>5. l <= Limit(q) /\ (q # "kir" => Remaining(q, l) = <<>>)
  BY <1>1, <1>2, <1>4, Lists DEF FrameKept, Progress
<1>6. q = "diagnostics" => l = 2
  BY <1>5, Lists DEF Remaining, Limit
<1>7. q = "solver" => l = 1
  BY <1>5, Lists DEF Remaining, Limit
<1>8. disk \in seen
  BY <1>1 DEF Inv, FileKept
<1> QED
  BY <1>1, <1>2, <1>4, <1>6, <1>7, <1>8 DEF FrameKept

\* What the phases compute from the file as it is now may be returned.
LEMMA PhaseOut ==
    ASSUME Inv, stack # <<>>, Parses(disk), NEW q \in Queries \ {"diagnostics"}, NEW out,
           out.kir = KirOf(disk), q \in {"parse", "kir"} => out = [kir |-> KirOf(disk)],
           Top.query = q
    PROVE  NewOut(Top.query, out)
<1>1. disk \in Texts /\ config \in Configs /\ disk \in seen
  BY DEF Parses, Inv, FileKept
<1>2. /\ KirOf(disk).text = disk /\ KirOf(disk).recovery = config.recovery
      /\ KirOf(disk).transform = config.transform /\ KirOf(disk) \in Kirs
  BY <1>1 DEF KirOf, Kirs
<1>3. TextsOf(q, out) = {disk} /\ KeepsConfig(q, out)
  BY <1>2 DEF TextsOf, KeepsConfig, Holds
<1>4. q \in {"parse", "kir"} => out \in [kir : Kirs]
  BY <1>2
<1> QED
  BY <1>1, <1>3, <1>4 DEF NewOut

\* Parsing and storing the output keeps the invariant.
LEMMA BuildParseInv == Inv /\ BuildParse => Inv'
<1> SUFFICES ASSUME Inv, BuildParse PROVE Inv'
  OBVIOUS
<1>1. Still /\ stack # <<>> /\ Top.key # NoKey /\ Top.query = "parse" /\ "parse" \in Queries
  BY ReadyCall DEF BuildParse, Queries
<1>2. CASE Parses(disk)
  <2>1. PICK out : out = [kir |-> KirOf(disk)]
    OBVIOUS
  <2>2. NewOut(Top.query, out)
    BY <1>1, <1>2, <2>1, PhaseOut
  <2> QED
    BY <1>1, <1>2, <2>1, <2>2, StoreInv DEF BuildParse
<1>3. CASE ~Parses(disk)
  BY <1>1, <1>3, FailInv DEF BuildParse
<1> QED
  BY <1>2, <1>3

\* So does building the kir,
LEMMA BuildKirInv == Inv /\ BuildKir => Inv'
<1> SUFFICES ASSUME Inv, BuildKir PROVE Inv'
  OBVIOUS
<1>1. Still /\ stack # <<>> /\ Top.key # NoKey /\ Top.query = "kir" /\ "kir" \in Queries
  BY ReadyCall DEF BuildKir, Queries
<1>2. CASE Parses(disk)
  <2>1. PICK out : out = [kir |-> KirOf(disk)]
    OBVIOUS
  <2>2. NewOut(Top.query, out)
    BY <1>1, <1>2, <2>1, PhaseOut
  <2> QED
    BY <1>1, <1>2, <2>1, <2>2, StoreInv DEF BuildKir
<1>3. CASE ~Parses(disk)
  BY <1>1, <1>3, FailInv DEF BuildKir
<1> QED
  BY <1>2, <1>3

\* generating code,
LEMMA BuildCodegenInv == Inv /\ BuildCodegen => Inv'
<1> SUFFICES ASSUME Inv, BuildCodegen PROVE Inv'
  OBVIOUS
<1>1. /\ Still /\ stack # <<>> /\ Top.key # NoKey /\ Top.query = "codegen"
      /\ "codegen" \in Queries
  BY ReadyCall DEF BuildCodegen, Queries
<1>2. CASE Parses(disk) /\ <<disk, DiagnosticsFor(config)>> \notin Refused
  <2>1. PICK out : out = [kir |-> KirOf(disk), options |-> GeneratedFor(config)]
    OBVIOUS
  <2>2. out.kir = KirOf(disk)
    BY <2>1
  <2>3. NewOut(Top.query, out)
    BY <1>1, <1>2, <2>2, PhaseOut
  <2> QED
    BY <1>1, <1>2, <2>1, <2>3, StoreInv DEF BuildCodegen
<1>3. CASE ~(Parses(disk) /\ <<disk, DiagnosticsFor(config)>> \notin Refused)
  BY <1>1, <1>3, FailInv DEF BuildCodegen
<1> QED
  BY <1>2, <1>3

\* solving,
LEMMA BuildSolverInv == Inv /\ BuildSolver => Inv'
<1> SUFFICES ASSUME Inv, BuildSolver PROVE Inv'
  OBVIOUS
<1>1. /\ Still /\ stack # <<>> /\ Top.key # NoKey /\ Top.query = "solver"
      /\ GotKept(Top) /\ Len(Top.got) = 1
  BY ReadyCall DEF BuildSolver
<1>2. PICK out : out = [kir |-> Top.got[1].kir]
  OBVIOUS
<1>3. /\ KeepsConfig("kir", Top.got[1])
      /\ ~disturbed => Top.got[1].kir.text = disk
      /\ ~undone => /\ Top.got[1].kir.text \in seen
                    /\ TextOfKey("solver", Top.key) = disk => Top.got[1].kir.text = disk
  BY <1>1 DEF GotKept, Asked
<1>4. KeepsConfig("solver", out) /\ TextsOf("solver", out) = {Top.got[1].kir.text}
  BY <1>2, <1>3 DEF KeepsConfig, Holds, TextsOf
<1>5. NewOut(Top.query, out)
  BY <1>1, <1>3, <1>4 DEF NewOut
<1> QED
  BY <1>1, <1>2, <1>5, StoreInv DEF BuildSolver

\* and collecting diagnostics.
LEMMA BuildDiagnosticsInv == Inv /\ BuildDiagnostics => Inv'
<1> SUFFICES ASSUME Inv, BuildDiagnostics PROVE Inv'
  OBVIOUS
<1>1. /\ Still /\ stack # <<>> /\ Top.key # NoKey /\ Top.query = "diagnostics"
      /\ GotKept(Top) /\ Len(Top.got) = 2 /\ disk \in seen
  BY ReadyCall DEF BuildDiagnostics
<1>2. CASE disk = Missing
  BY <1>1, <1>2, FailInv DEF BuildDiagnostics
<1>3. CASE disk # Missing
  <2>1. PICK out : out = [kir |-> Top.got[1].kir, parsed |-> Top.got[2].kir,
                          text |-> disk, options |-> DiagnosticsFor(config)]
    OBVIOUS
  <2>2. /\ KeepsConfig("kir", Top.got[1])
        /\ ~disturbed => Top.got[1].kir.text = disk
        /\ ~undone => /\ Top.got[1].kir.text \in seen
                      /\ TextOfKey("diagnostics", Top.key) = disk => Top.got[1].kir.text = disk
    BY <1>1 DEF GotKept, Asked
  <2>3. /\ KeepsConfig("parse", Top.got[2])
        /\ ~disturbed => Top.got[2].kir.text = disk
        /\ ~undone => /\ Top.got[2].kir.text \in seen
                      /\ TextOfKey("diagnostics", Top.key) = disk => Top.got[2].kir.text = disk
    BY <1>1 DEF GotKept, Asked
  <2>4. /\ KeepsConfig("diagnostics", out)
        /\ TextsOf("diagnostics", out) = {Top.got[1].kir.text, Top.got[2].kir.text, disk}
    BY <2>1, <2>2, <2>3 DEF KeepsConfig, Holds, TextsOf
  <2>5. Explained(out)
    BY <2>1 DEF Explained, Inv, FileKept
  <2>6. NewOut(Top.query, out)
    BY <1>1, <2>2, <2>3, <2>4, <2>5 DEF NewOut
  <2>7. out.options = DiagnosticsFor(config)
    BY <2>1
  <2> QED
    BY <1>1, <1>3, <2>1, <2>6, <2>7, StoreInv DEF BuildDiagnostics
<1> QED
  BY <1>2, <1>3

-------------------------------------------------------------------------------
(* The environment's steps. *)

\* A new query starts with the text that the file holds.
LEMMA CallInv == ASSUME NEW q \in Queries, Inv, Call(q) PROVE Inv'
<1>1. /\ disk' = disk /\ config' = config /\ cache' = cache /\ past' = past /\ seen' = {disk}
      /\ undone' = undone /\ disturbed' = disturbed /\ held' = held /\ answer' = NoAnswer
      /\ stack' = <<Frame(q)>>
  BY DEF Call
<1>2. FileKept'
  BY <1>1 DEF Inv, FileKept
<1>3. CacheKept'
  BY <1>1 DEF Inv, CacheKept, Entry, Analysed
<1>4. /\ Frame(q) \in Frames /\ Frame(q).query = q /\ Frame(q).key = NoKey
      /\ Len(Frame(q).got) = 0
  BY DEF Frame, Frames
<1>5. /\ stack' \in Seq(Frames) /\ Len(stack') = 1 /\ stack'[1] = Frame(q)
  BY <1>1, <1>4
<1>6. FrameKept(1)'
  <2>1. KeyKept(stack[1])' /\ GotKept(stack[1])'
    BY <1>4, <1>5 DEF KeyKept, GotKept
  <2>2. Waiting(1)' = 0
    BY <1>5 DEF Waiting
  <2>3. Progress(stack[1], Waiting(1))'
    BY <2>2, <1>4, <1>5 DEF Progress
  <2>4. Rank(q) + 1 <= 4
    BY DEF Rank
  <2> QED
    BY <2>1, <2>3, <2>4, <1>4, <1>5 DEF FrameKept
<1>7. StackKept'
  <2>1. \A l \in 1 .. 1 : l = 1
    OBVIOUS
  <2> QED
    BY <1>5, <1>6, <2>1 DEF StackKept
<1>8. AnswerKept'
  BY <1>1 DEF AnswerKept, Answered
<1> QED
  BY <1>2, <1>3, <1>7, <1>8 DEF Inv

\* A change of the options falls between two queries.
LEMMA SetConfigInv == ASSUME NEW c \in Configs, Inv, SetConfig(c) PROVE Inv'
<1>1. /\ disk' = disk /\ config' = c /\ cache' = cache /\ past' = past /\ seen' = seen
      /\ undone' = undone /\ disturbed' = disturbed /\ held' = held \union {c} /\ answer' = NoAnswer
      /\ stack = <<>> /\ stack' = stack
  BY DEF SetConfig
<1>2. FileKept'
  BY <1>1 DEF Inv, FileKept
<1>3. CacheKept'
  BY <1>1 DEF Inv, CacheKept, Entry, Analysed
<1>4. StackKept'
  BY <1>1 DEF StackKept
<1>5. AnswerKept'
  BY <1>1 DEF AnswerKept, Answered
<1> QED
  BY <1>2, <1>3, <1>4, <1>5 DEF Inv

\* A save makes the text of every key an earlier one.
LEMMA EditInv == ASSUME NEW t \in Texts \cup {Missing}, Inv, Edit(t) PROVE Inv'
<1>1. /\ disk' = t /\ config' = config /\ cache' = cache /\ stack' = stack /\ answer' = answer
      /\ past' = past \cup {t} /\ undone' = (undone \/ t \in past)
      /\ disturbed' = (disturbed \/ stack # <<>>) /\ held' = held
      /\ seen' = IF stack = <<>> THEN seen ELSE seen \union {t}
  BY DEF Edit
<1>2. undone \in BOOLEAN /\ disturbed \in BOOLEAN
  BY DEF Inv, FileKept
<1>3. FileKept'
  BY <1>1, <1>2 DEF Inv, FileKept
<1>4. ASSUME NEW q, NEW k, NEW out, Entry(q, k, out) PROVE Entry(q, k, out)'
  <2>1. TextOfKey(q, k) \in past'
    BY <1>1, <1>4 DEF Entry
  <2>2. ~disturbed' => TextsOf(q, out) = {TextOfKey(q, k)}
    BY <1>1, <1>2, <1>4 DEF Entry
  <2>3. ~(~undone' /\ TextOfKey(q, k) = disk')
    BY <1>1, <1>2, <1>4 DEF Entry
  <2> QED
    BY <1>1, <2>1, <2>2, <2>3, <1>4 DEF Entry, Analysed
<1>5. CacheKept'
  BY <1>1, <1>4 DEF Inv, CacheKept
<1>6. ASSUME NEW i \in 1 .. Len(stack) PROVE FrameKept(i)'
  <2>1. FrameKept(i) /\ stack # <<>>
    BY <1>6 DEF Inv, StackKept
  <2>2. disturbed'
    BY <1>1, <2>1
  <2>3. PICK f \in Frames : f = stack[i]
    BY <1>6 DEF Inv, StackKept
  <2>4. KeyKept(f) /\ GotKept(f) /\ Progress(f, Waiting(i)) /\ Rank(f.query) + i <= 4
    BY <2>1, <2>3 DEF FrameKept
  <2>5. KeyKept(f)'
    BY <2>2, <2>4, <1>1 DEF KeyKept
  <2>6. ASSUME NEW n \in 1 .. Len(f.got)
        PROVE  /\ KeepsConfig(Asked(f.query, n), f.got[n])'
               /\ ~undone' => /\ f.got[n].kir.text \in seen'
                              /\ TextOfKey(f.query, f.key) # disk'
    <3>1. KeepsConfig(Asked(f.query, n), f.got[n])'
      BY <2>4, <1>1 DEF GotKept, KeepsConfig, Holds
    <3>2. ~undone' => f.got[n].kir.text \in seen'
      BY <2>4, <1>1, <1>2 DEF GotKept
    <3>3. f.key # NoKey
      <4>1. f.got \in Seq([kir : Kirs])
        BY DEF Frames
      <4>2. PICK l \in Nat : l = Len(f.got)
        BY <4>1
      <4>3. l >= 1
        BY <4>2, <2>6
      <4>4. Waiting(i) \in Nat
        BY DEF Waiting
      <4> QED
        BY <4>2, <4>3, <4>4, <2>4 DEF Progress
    <3>4. ~undone' => TextOfKey(f.query, f.key) # disk'
      BY <3>3, <2>4, <1>1, <1>2 DEF KeyKept
    <3> QED
      BY <3>1, <3>2, <3>4
  <2>7. GotKept(f)'
    BY <2>2, <2>6 DEF GotKept
  <2>8. Waiting(i)' = Waiting(i)
    BY <1>1 DEF Waiting
  <2> QED
    BY <2>3, <2>4, <2>5, <2>7, <2>8, <1>1 DEF FrameKept, Progress
<1>7. ASSUME NEW i \in 1 .. Len(stack) - 1 PROVE CallKept(stack[i], stack[i + 1])'
  <2>1. PICK l \in Nat : l = Len(stack)
    BY DEF Inv, StackKept
  <2>2. CallKept(stack[i], stack[i + 1]) /\ FrameKept(i) /\ i < l /\ stack[i] \in Frames
    BY <2>1, <1>7 DEF Inv, StackKept
  <2>3. PICK f \in Frames : f = stack[i]
    BY <2>2
  <2>4. f.key # NoKey
    <3>1. f.got \in Seq([kir : Kirs])
      BY DEF Frames
    <3>2. PICK r \in Nat : r = Len(f.got)
      BY <3>1
    <3>3. Waiting(i) = 1
      BY <2>1, <2>2 DEF Waiting
    <3> QED
      BY <3>2, <3>3, <2>2, <2>3 DEF FrameKept, Progress
  <2>5. ~undone' => TextOfKey(f.query, f.key) # disk'
    BY <2>2, <2>3, <2>4, <1>1, <1>2 DEF FrameKept, KeyKept
  <2> QED
    BY <2>2, <2>3, <2>5, <1>1 DEF CallKept
<1>8. StackKept'
  BY <1>1, <1>6, <1>7 DEF Inv, StackKept
<1>9. AnswerKept'
  <2>1. seen \subseteq seen' /\ (undone => undone') /\ (disturbed => disturbed')
    BY <1>1, <1>2
  <2>2. \A q \in Queries : Answered(q)' => Answered(q)
    BY <1>1 DEF Answered
  <2>3. \A q \in Queries : Answered(q)' =>
           KeepsConfig(q, answer.out)' /\ (q = "diagnostics" => Explained(answer.out)')
    BY <1>1, <2>2 DEF Inv, AnswerKept, KeepsConfig, Explained
  <2> QED
    BY <1>1, <2>1, <2>2, <2>3 DEF Inv, AnswerKept
<1> QED
  BY <1>3, <1>5, <1>8, <1>9 DEF Inv

\* A stuttering step changes nothing.
LEMMA StutterInv == Inv /\ UNCHANGED vars => Inv'
<1> SUFFICES ASSUME Inv, UNCHANGED vars PROVE Inv'
  OBVIOUS
<1> USE DEF vars, environment
<1>1. FileKept' /\ CacheKept'
  BY DEF Inv, FileKept, CacheKept, Entry, Analysed
<1>2. StackKept'
  <2>1. \A i : FrameKept(i)' <=> FrameKept(i)
    BY DEF FrameKept, KeyKept, GotKept, KeepsConfig, Progress, Waiting
  <2>2. \A i : CallKept(stack[i], stack[i + 1])' <=> CallKept(stack[i], stack[i + 1])
    BY DEF CallKept
  <2> QED
    BY <2>1, <2>2 DEF Inv, StackKept
<1>3. AnswerKept'
  <2>1. \A q : Answered(q)' <=> Answered(q)
    BY DEF Answered
  <2>2. /\ \A q : KeepsConfig(q, answer.out)' <=> KeepsConfig(q, answer.out)
        /\ Explained(answer.out)' <=> Explained(answer.out)
    BY DEF KeepsConfig, Explained
  <2> QED
    BY <2>1, <2>2 DEF Inv, AnswerKept
<1> QED
  BY <1>1, <1>2, <1>3 DEF Inv

\* Every step keeps the invariant.
LEMMA NextInv == Inv /\ [Next]_vars => Inv'
<1> SUFFICES ASSUME Inv, [Next]_vars PROVE Inv'
  OBVIOUS
<1>1. CASE ReadKey
  BY <1>1, ReadKeyInv
<1>2. CASE Descend
  BY <1>2, DescendInv
<1>3. CASE BuildParse
  BY <1>3, BuildParseInv
<1>4. CASE BuildKir
  BY <1>4, BuildKirInv
<1>5. CASE BuildDiagnostics
  BY <1>5, BuildDiagnosticsInv
<1>6. CASE BuildSolver
  BY <1>6, BuildSolverInv
<1>7. CASE BuildCodegen
  BY <1>7, BuildCodegenInv
<1>8. ASSUME NEW q \in Queries, Call(q) PROVE Inv'
  BY <1>8, CallInv
<1>9. ASSUME NEW t \in Texts \union {Missing}, Edit(t) PROVE Inv'
  BY <1>9, EditInv
<1>10. ASSUME NEW c \in Configs, SetConfig(c) PROVE Inv'
  BY <1>10, SetConfigInv
<1>11. CASE UNCHANGED vars
  BY <1>11, StutterInv
<1> QED
  BY <1>1, <1>2, <1>3, <1>4, <1>5, <1>6, <1>7, <1>8, <1>9, <1>10, <1>11 DEF Next, Work

\* The invariant holds in every state.
LEMMA Invariance == Spec => []Inv
<1> QED
  BY InitInv, NextInv, PTL DEF Spec

-------------------------------------------------------------------------------
(* What the session promises. *)

(* Whatever a query of QuerySession returns was computed from texts the    *)
(* file held while the query ran, unless the file was both saved under a   *)
(* query and set back to an earlier text: for any number of either.        *)
THEOREM AnswersAreCurrent == Spec => []AnswerIsCurrent
<1>1. Inv => AnswerIsCurrent
  BY DEF Inv, AnswerKept, AnswerIsCurrent
<1> QED
  BY <1>1, Invariance, PTL

(* parse, kir, solver and diagnostics never answer with an output that was *)
(* computed under other options than the session holds, however often      *)
(* set_config was called and whatever the file did meanwhile; but for      *)
(* K0062, which may go by the dependencies of a configuration held before, *)
(* of the same recovery mode, transform options and policy.                *)
THEOREM AnswersKeepConfig == Spec => []AnswerKeepsConfig
<1>1. Inv => AnswerKeepsConfig
  BY DEF Inv, AnswerKept, KeepsConfig, Holds, Explained, AnswerKeepsConfig
<1> QED
  BY <1>1, Invariance, PTL

\* What parse() has parsed is in its cache, and was parsed once.
ParseKept == ~disturbed => ~again /\ built \subseteq DOMAIN cache["parse"]

\* No step takes anything from the parse cache.
LEMMA CacheGrows ==
    ASSUME Inv, [Next]_vars
    PROVE  DOMAIN cache["parse"] \subseteq DOMAIN cache'["parse"]
<1>1. ASSUME NEW out, stack # <<>>, Store(out)
      PROVE  DOMAIN cache["parse"] \subseteq DOMAIN cache'["parse"]
  <2>1. PICK q : q = Top.query
    OBVIOUS
  <2>2. PICK new : /\ DOMAIN new = DOMAIN cache[q] \union {Top.key}
                   /\ cache' = [cache EXCEPT ![q] = new]
    BY <1>1, <2>1 DEF Store
  <2>3. cache = [r \in Queries |-> cache[r]] /\ "parse" \in Queries
    BY DEF Inv, CacheKept, Queries
  <2> QED
    BY <2>2, <2>3
<1>2. CASE UNCHANGED cache
  BY <1>2
<1>3. CASE ~UNCHANGED cache
  <2>1. BuildParse \/ BuildKir \/ BuildDiagnostics \/ BuildSolver \/ BuildCodegen
    BY <1>3 DEF Next, Work, ReadKey, Fail, Descend, Call, Edit, SetConfig, vars
  <2>2. stack # <<>> /\ \E out : Store(out)
    BY <1>3, <2>1 DEF BuildParse, BuildKir, BuildDiagnostics, BuildSolver, BuildCodegen, Ready, Fail
  <2> QED
    BY <1>1, <2>2
<1> QED
  BY <1>2, <1>3

\* While nothing is saved under a query, the key of a call of parse() is that of what it reads.
LEMMA ParsesNew ==
    ASSUME Inv, BuildParse, Parses(disk), ~disturbed
    PROVE  LET parsing == [text |-> disk, recovery |-> config.recovery, buffer |-> config.buffer]
           IN  parsing = Top.key /\ parsing \notin DOMAIN cache["parse"]
<1>1. stack # <<>> /\ Top.key # NoKey /\ Top.query = "parse"
  BY ReadyCall DEF BuildParse
<1>2. KeyKept(Top)
  BY <1>1, TopFrame DEF FrameKept
<1>3. PICK t \in Texts : Top.key = ParseKey(t, config)
  BY <1>1, <1>2 DEF KeyKept, KeyOf
<1>4. t = disk
  BY <1>1, <1>2, <1>3 DEF KeyKept, TextOfKey, ParseKey
<1> QED
  BY <1>1, <1>2, <1>3, <1>4 DEF KeyKept, ParseKey

\* Every step keeps what is known of the parses.
LEMMA NextParse == Inv /\ ParseKept /\ [Next]_vars => ParseKept'
<1> SUFFICES ASSUME Inv, ParseKept, [Next]_vars, ~disturbed'
             PROVE  ~again' /\ built' \subseteq DOMAIN cache'["parse"]
  BY DEF ParseKept
<1>1. ~disturbed
  BY DEF Next, Work, ReadKey, Descend, BuildParse, BuildKir, BuildDiagnostics, BuildSolver,
         BuildCodegen, Ready, Call, Edit, SetConfig, vars, environment
<1>2. ~again /\ built \subseteq DOMAIN cache["parse"]
  BY <1>1 DEF ParseKept
<1>3. CASE UNCHANGED parsings
  BY <1>2, <1>3, CacheGrows DEF parsings
<1>4. CASE ~UNCHANGED parsings
  <2> DEFINE parsing == [text |-> disk, recovery |-> config.recovery, buffer |-> config.buffer]
  <2>1. BuildParse
    BY <1>4 DEF Next, Work, ReadKey, Descend, BuildKir, BuildDiagnostics, BuildSolver,
                BuildCodegen, Call, Edit, SetConfig, vars
  <2>2. Parses(disk)
    BY <1>4, <2>1 DEF BuildParse
  <2>3. /\ Store([kir |-> KirOf(disk)]) /\ stack # <<>> /\ Top.query = "parse"
        /\ built' = built \union {parsing} /\ again' = (again \/ parsing \in built)
    BY <2>1, <2>2 DEF BuildParse, Ready
  <2>4. parsing = Top.key /\ parsing \notin DOMAIN cache["parse"]
    BY <1>1, <2>1, <2>2, ParsesNew
  <2>5. Top.key \in DOMAIN cache'["parse"]
    <3>1. cache = [r \in Queries |-> cache[r]] /\ "parse" \in Queries
      BY DEF Inv, CacheKept, Queries
    <3> QED
      BY <2>3, <3>1 DEF Store
  <2> QED
    BY <1>2, <2>3, <2>4, <2>5, CacheGrows
<1> QED
  BY <1>3, <1>4

(* While no save happens under a query, parse() parses a text once for     *)
(* each recovery mode and buffer size, in any number of queries of any     *)
(* kind, whatever else of the configuration moves.                         *)
THEOREM ParsesOnce == Spec => []ParsedOnce
<1>1. Init => ParseKept
  BY DEF Init, ParseKept
<1>2. ParseKept => ParsedOnce
  BY DEF ParseKept, ParsedOnce
<1> QED
  BY <1>1, <1>2, Invariance, NextParse, PTL DEF Spec

(* The calls of a session nest at most three deep, each past its own key   *)
(* before it calls the next, and never build what is cached already.       *)
THEOREM QueryTypeCorrect == Spec => []TypeOK
<1>1. ASSUME Inv PROVE TypeOK
  <2>1. stack \in Seq(Frames) /\ disk \in Texts \union {Missing} /\ config \in Configs
    BY <1>1 DEF Inv, StackKept, FileKept
  <2>2. PICK n \in Nat : n = Len(stack)
    BY <2>1
  <2>3. \A q \in Queries : \A k \in DOMAIN cache[q] :
           \E t \in Texts, c \in Configs : k = KeyOf(q, t, c)
    BY <1>1 DEF Inv, CacheKept, Entry, Analysed
  <2>4. Len(stack) <= 3
    <3>1. CASE n = 0
      BY <3>1, <2>2
    <3>2. CASE n # 0
      <4>1. Rank(stack[n].query) + n <= 4
        BY <1>1, <2>2, <3>2 DEF Inv, StackKept, FrameKept
      <4>2. Rank(stack[n].query) \in Nat /\ Rank(stack[n].query) >= 1
        BY DEF Rank
      <4> QED
        BY <4>1, <4>2, <2>2
    <3> QED
      BY <3>1, <3>2
  <2>5. ASSUME NEW i \in 1 .. Len(stack)
        PROVE  /\ stack[i].query \in Queries
               /\ i < Len(stack) => stack[i].key # NoKey
               /\ stack[i].key # NoKey => stack[i].key \notin DOMAIN cache[stack[i].query]
               /\ stack[i].query = "diagnostics" /\ stack[i].key # NoKey =>
                     Len(stack[i].todo) + Len(stack[i].got)
                       + (IF i < Len(stack) THEN 1 ELSE 0) = 2
    <3>1. PICK f \in Frames : f = stack[i]
      BY <2>1, <2>5
    <3>2. PICK l \in Nat : l = Len(f.got)
      <4>1. f.got \in Seq([kir : Kirs])
        BY DEF Frames
      <4> QED
        BY <4>1
    <3>3. PICK w \in Nat : w = IF i < Len(stack) THEN 1 ELSE 0
      OBVIOUS
    <3>4. KeyKept(f) /\ Progress(f, w)
      BY <1>1, <2>5, <3>1, <3>3 DEF Inv, StackKept, FrameKept, Waiting
    <3>5. i < Len(stack) => f.key # NoKey
      BY <3>2, <3>3, <3>4 DEF Progress
    <3>6. f.query = "diagnostics" /\ f.key # NoKey => Len(f.todo) + l + w = 2
      <4> SUFFICES ASSUME f.query = "diagnostics", f.key # NoKey
                   PROVE  Len(f.todo) + l + w = 2
        OBVIOUS
      <4>1. l + w <= 2 /\ f.todo = Remaining("diagnostics", l + w)
        BY <3>2, <3>4 DEF Progress, Limit
      <4>2. CASE l + w = 0
        BY <4>1, <4>2 DEF Remaining
      <4>3. CASE l + w = 1
        BY <4>1, <4>3 DEF Remaining
      <4>4. CASE l + w = 2
        BY <4>1, <4>4 DEF Remaining
      <4>5. l + w = 0 \/ l + w = 1 \/ l + w = 2
        BY <4>1
      <4> QED
        BY <4>2, <4>3, <4>4, <4>5
    <3> QED
      BY <3>1, <3>2, <3>3, <3>4, <3>5, <3>6 DEF KeyKept, Frames
  <2> QED
    BY <2>1, <2>3, <2>4, <2>5 DEF TypeOK
<1> QED
  BY <1>1, Invariance, PTL

===============================================================================
