----------------------- MODULE EngineAgreementProofs -----------------------
(***************************************************************************)
(* Proofs about full-depth runs, for scenarios of any length over any      *)
(* operations: a failure is never replaced, the loss of a message is       *)
(* reported exactly when the storage flags can tell, an exact guarantee    *)
(* has the evidence it needs, two engines whose traces agree have found    *)
(* the same failure, a run that passes on both leaves nothing open, and    *)
(* the two traces agree on exactly the orderly scenarios.                  *)
(***************************************************************************)
EXTENDS EngineAgreement, NaturalsInduction, WellFoundedInduction, FiniteSetTheorems, TLAPS

\* A later failure never takes the place of the one that was found.
LEMMA FirstIsKept ==
  ASSUME NEW kept, NEW new, kept # NoFailure
  PROVE  FirstFailure(kept, new) = kept
  BY DEF FirstFailure

-----------------------------------------------------------------------------
(***************************************************************************)
(* Once a failure is set (set_failure_once, get_or_insert_with), the only  *)
(* step that changes it is the one that reports incomplete coverage.       *)
(***************************************************************************)
LEMMA OperationKeepsFailure ==
  ASSUME ExecuteOperation, failure # NoFailure
  PROVE  failure' = failure
<1>1. ASSUME NEW b \in Bindings,
             \/ ExecuteCreate(b) \/ ExecuteTransfer(b)
             \/ \E a \in Declared \cup Exits : ExecuteDischarge(b, a)
      PROVE  failure' = failure
  BY <1>1 DEF ExecuteCreate, ExecuteTransfer, ExecuteDischarge
<1>2. ASSUME NEW b \in Bindings, ExecuteUnresolved(b) PROVE failure' = failure
  BY <1>2, FirstIsKept DEF ExecuteUnresolved
<1>3. ASSUME NEW boundary, ExecuteEffect(boundary) PROVE failure' = failure
  BY <1>3, FirstIsKept DEF ExecuteEffect
<1>4. ASSUME NEW action, ExecuteStorage(action) PROVE failure' = failure
  BY <1>4, FirstIsKept DEF ExecuteStorage
<1>5. ASSUME NEW action, ExecuteNetwork(action) PROVE failure' = failure
  BY <1>5, FirstIsKept DEF ExecuteNetwork
<1>6. ASSUME NEW policy, ExecuteExternal(policy) PROVE failure' = failure
  BY <1>6, FirstIsKept DEF ExecuteExternal
<1>7. ASSUME NEW code, ExecuteStop(code) PROVE failure' = failure
  BY <1>7, FirstIsKept DEF ExecuteStop
<1> QED BY <1>1, <1>2, <1>3, <1>4, <1>5, <1>6, <1>7 DEF ExecuteOperation

\* The step-wise form of FailureKept.
LEMMA StepKeepsFailure ==
  ASSUME [Next]_vars, failure # NoFailure, failure' # failure
  PROVE  options.coverage = "blocking" /\ failure'.code = "K0116"
<1>1. CASE Execute
  BY <1>1, OperationKeepsFailure DEF Execute
<1>2. CASE FinishExecution
  BY <1>2, FirstIsKept DEF FinishExecution, Finish, FinishAs
<1>3. CASE CheckAgreement
  BY <1>3, FirstIsKept
  DEF CheckAgreement, SemanticOnly, SkipHarness, CoverageIncomplete, LifecycleOnly,
      BoundaryPartial, RunHarness, Matched, Diverged, engine
<1>4. CASE UNCHANGED vars
  BY <1>4 DEF vars, semanticVars, engine
<1> QED BY <1>1, <1>2, <1>3, <1>4 DEF Next

\* FailureKept, for every set of shapes.
THEOREM FailureIsKept == Spec => FailureKept
<1>1. [Next]_vars =>
        (failure # NoFailure /\ failure' # failure =>
           options.coverage = "blocking" /\ failure'.code = "K0116")
  BY StepKeepsFailure
<1> QED BY <1>1, PTL DEF Spec, FailureKept

-----------------------------------------------------------------------------
Ops == UNION {s.ops : s \in Shapes}

Acked(k)   == program[k].op = "discharge" /\ program[k].by = "ack"
Is(k, o)   == program[k] = Storage(o)

\* The flags of the storage facade are the history of the scenario.
FlagsAreHistory ==
  /\ storage \in [acked : BOOLEAN, pending : BOOLEAN, durable : BOOLEAN]
  /\ storage.acked <=> \E k \in DOMAIN program : Acked(k)
  /\ storage.pending <=> \E k \in DOMAIN program : Is(k, "write")
  /\ storage.durable <=> \E k \in DOMAIN program : Is(k, "commit")

LossInv ==
  /\ shape \in Shapes
  /\ program \in Seq(Ops)
  /\ FlagsAreHistory
  /\ LossVerdict

\* A failure is the loss of a message only when it says so.
LEMMA OnlyLossIsLoss ==
  ASSUME NEW code, NEW kind, NEW label, kind # "lost-message"
  PROVE  Failure(code, kind, label) # LostMessage
<1>1. Failure(code, kind, label).events[1][1] = kind
  BY DEF Failure
<1>2. LostMessage.events[1][1] = "lost-message"
  BY DEF Failure, LostMessage
<1> QED BY <1>1, <1>2

\* No failure and a lost message are different outcomes.
LEMMA NoFailureIsNoLoss == NoFailure # LostMessage
  BY DEF NoFailure, LostMessage, Failure

\* Drawing an operation extends the program by it.
LEMMA DrawExtends ==
  ASSUME LossInv, NEW o, Draw(o)
  PROVE  /\ shape' \in Shapes
         /\ program' \in Seq(Ops)
         /\ Len(program) \in Nat
         /\ DOMAIN program = 1 .. Len(program)
         /\ DOMAIN program' = 1 .. Len(program) + 1
         /\ \A k \in 1 .. Len(program) : program'[k] = program[k]
         /\ program'[Len(program) + 1] = o
<1>1. o \in Ops
  BY DEF Draw, LossInv, Ops
<1>2. program' = Append(program, o) /\ program \in Seq(Ops) /\ shape' = shape
  BY DEF Draw, LossInv
<1>3. /\ program' \in Seq(Ops)
      /\ Len(program) \in Nat
      /\ DOMAIN program = 1 .. Len(program)
      /\ DOMAIN program' = 1 .. Len(program) + 1
      /\ program'[Len(program) + 1] = o
  BY <1>1, <1>2
<1>4. \A k \in 1 .. Len(program) : program'[k] = program[k]
  BY <1>1, <1>2
<1> QED BY <1>2, <1>3, <1>4 DEF LossInv

\* A crash loses a message as far as the storage flags can tell.
Loses(o) ==
  o = Storage("crash") /\ storage.acked /\ storage.pending /\ ~storage.durable

(***************************************************************************)
(* What an operation has to do to the flags and to the failure for the     *)
(* invariant to survive it.                                                *)
(***************************************************************************)
NotesFlags(o) ==
  /\ storage' \in [acked : BOOLEAN, pending : BOOLEAN, durable : BOOLEAN]
  /\ storage'.acked <=> storage.acked \/ (o.op = "discharge" /\ o.by = "ack")
  /\ storage'.pending <=> storage.pending \/ o = Storage("write")
  /\ storage'.durable <=> storage.durable \/ o = Storage("commit")

FailsOnLoss(o) ==
  /\ failure' = LostMessage => failure = LostMessage \/ Loses(o)
  /\ failure' = NoFailure => failure = NoFailure /\ ~Loses(o)

\* The storage flags still tell the history after an operation that notes it.
LEMMA FlagsStayHistory ==
  ASSUME LossInv, NEW o, Draw(o), NotesFlags(o)
  PROVE  FlagsAreHistory'
<1> DEFINE n == Len(program)
<1>1. /\ n \in Nat /\ DOMAIN program = 1 .. n /\ DOMAIN program' = 1 .. n + 1
      /\ \A k \in 1 .. n : program'[k] = program[k]
      /\ program'[n + 1] = o
  BY DrawExtends
<1>2. \A k \in DOMAIN program' : k \in DOMAIN program \/ k = n + 1
  BY <1>1
<1>3. \A k \in DOMAIN program : k \in DOMAIN program' /\ program'[k] = program[k]
  BY <1>1
<1>4. n + 1 \in DOMAIN program'
  BY <1>1
<1> HIDE DEF n
<1>5. (\E k \in DOMAIN program' : Acked(k)')
        <=> (\E k \in DOMAIN program : Acked(k)) \/ (o.op = "discharge" /\ o.by = "ack")
  BY <1>1, <1>2, <1>3, <1>4 DEF Acked
<1>6. \A x : (\E k \in DOMAIN program' : Is(k, x)')
               <=> (\E k \in DOMAIN program : Is(k, x)) \/ o = Storage(x)
  BY <1>1, <1>2, <1>3, <1>4 DEF Is
<1> QED BY <1>5, <1>6 DEF NotesFlags, LossInv, FlagsAreHistory

\* The loss verdict stays exact after an operation that fails on a loss only.
LEMMA LossStaysExact ==
  ASSUME LossInv, NEW o, Draw(o), NotesFlags(o), FailsOnLoss(o)
  PROVE  LossInv'
<1>0. PICK n \in Nat : n = Len(program)
  BY DrawExtends
<1>1. /\ n \in Nat /\ DOMAIN program = 1 .. n /\ DOMAIN program' = 1 .. n + 1
      /\ \A k \in 1 .. n : program'[k] = program[k]
      /\ program'[n + 1] = o
      /\ shape' \in Shapes /\ program' \in Seq(Ops)
  BY <1>0, DrawExtends
<1>2. FlagsAreHistory'
  BY FlagsStayHistory
<1>3. \A k, w \in 1 .. n : LostBy(k, w)' <=> LostBy(k, w)
  BY <1>1 DEF LostBy
<1>4. ASSUME failure' = LostMessage
      PROVE  \E k, w \in DOMAIN program' : LostBy(k, w)'
  <2>1. CASE failure = LostMessage
    BY <1>1, <1>3, <2>1 DEF LossInv, LossVerdict
  <2>2. CASE Loses(o)
    <3>1. PICK w \in 1 .. n : program[w] = Storage("write")
      BY <1>1, <2>2 DEF Loses, LossInv, FlagsAreHistory, Is
    <3>2. PICK a \in 1 .. n : program[a].op = "discharge" /\ program[a].by = "ack"
      BY <1>1, <2>2 DEF Loses, LossInv, FlagsAreHistory, Acked
    <3>3. \A c \in 1 .. n : program[c] # Storage("commit")
      BY <1>1, <2>2 DEF Loses, LossInv, FlagsAreHistory, Is
    <3>4. o = Storage("crash") /\ o # Storage("commit")
      BY <2>2 DEF Loses, Storage, Op
    <3>5. LostBy(n + 1, w)'
      BY <1>1, <3>1, <3>2, <3>3, <3>4 DEF LostBy
    <3> QED BY <1>1, <3>5
  <2> QED BY <1>4, <2>1, <2>2 DEF FailsOnLoss
<1>5. ASSUME failure' = NoFailure, NEW k \in DOMAIN program', NEW w \in DOMAIN program',
             LostBy(k, w)'
      PROVE  \E c \in 1 .. w : program'[c] = Storage("commit")
  <2>1. failure = NoFailure /\ ~Loses(o)
    BY <1>5 DEF FailsOnLoss
  <2>2. w \in 1 .. n /\ w < k
    BY <1>1, <1>5 DEF LostBy
  <2>3. CASE k \in 1 .. n
    <3>1. LostBy(k, w)
      BY <1>3, <1>5, <2>2, <2>3
    <3>2. \E c \in 1 .. w : program[c] = Storage("commit")
      BY <1>1, <2>1, <2>2, <2>3, <3>1 DEF LossInv, LossVerdict
    <3> QED BY <1>1, <2>2, <3>2
  <2>4. CASE k = n + 1
    <3>1. o = Storage("crash")
      BY <1>1, <1>5, <2>4 DEF LostBy
    <3>2. Storage("crash").op # "discharge"
      BY DEF Storage, Op
    <3>3. \E a \in 1 .. n : program[a].op = "discharge" /\ program[a].by = "ack"
      BY <1>1, <1>5, <2>4, <3>1, <3>2 DEF LostBy
    <3>4. program[w] = Storage("write")
      BY <1>1, <1>5, <2>2 DEF LostBy
    <3>5. storage.acked /\ storage.pending
      BY <1>1, <2>2, <3>3, <3>4 DEF LossInv, FlagsAreHistory, Acked, Is
    <3>6. PICK c \in 1 .. n : program[c] = Storage("commit")
      BY <1>1, <2>1, <3>1, <3>5 DEF Loses, LossInv, FlagsAreHistory, Is
    <3>7. c \notin w .. k
      BY <1>1, <1>5, <3>6 DEF LostBy
    <3>8. c \in 1 .. w
      BY <1>1, <2>2, <2>4, <3>6, <3>7
    <3> QED BY <1>1, <3>6, <3>8
  <2> QED BY <1>1, <2>3, <2>4
<1> QED BY <1>1, <1>2, <1>4, <1>5 DEF LossInv, LossVerdict

-----------------------------------------------------------------------------
\* What an operation that is no storage event has to keep.
LEMMA NoLossHere ==
  ASSUME NEW o, o.op # "storage"
  PROVE  \A x : o # Storage(x)
  BY DEF Storage, Op

\* A failure that is no loss, recorded with set_failure_once.
LEMMA OtherFailure ==
  ASSUME NEW o, o.op # "storage",
         NEW new, new # LostMessage, failure' = FirstFailure(failure, new)
  PROVE  FailsOnLoss(o)
  BY NoLossHere DEF FailsOnLoss, Loses, FirstFailure

\* An operation that leaves the storage and the failure alone reports no loss.
LEMMA SameFailure ==
  ASSUME NEW o, o.op # "storage", failure' = failure
  PROVE  FailsOnLoss(o)
  BY NoLossHere DEF FailsOnLoss, Loses

\* An operation that leaves the storage alone.
LEMMA SameStorage ==
  ASSUME LossInv, NEW o, o.op \notin {"storage", "discharge"}, storage' = storage
  PROVE  NotesFlags(o)
  BY NoLossHere DEF NotesFlags, LossInv, FlagsAreHistory

\* Every operation keeps the loss verdict exact.
LEMMA OperationKeepsLoss ==
  ASSUME LossInv, ExecuteOperation
  PROVE  LossInv'
<1>1. ASSUME NEW b \in Bindings, ExecuteCreate(b) PROVE LossInv'
  <2>1. Draw(Create(b)) /\ storage' = storage /\ failure' = failure
    BY <1>1 DEF ExecuteCreate
  <2>2. Create(b).op = "create"
    BY DEF Create, Op
  <2> QED BY <2>1, <2>2, SameStorage, SameFailure, LossStaysExact
<1>2. ASSUME NEW b \in Bindings, ExecuteTransfer(b) PROVE LossInv'
  <2>1. Draw(Transfer(b)) /\ storage' = storage /\ failure' = failure
    BY <1>2 DEF ExecuteTransfer
  <2>2. Transfer(b).op = "transfer"
    BY DEF Transfer, Op
  <2> QED BY <2>1, <2>2, SameStorage, SameFailure, LossStaysExact
<1>3. ASSUME NEW b \in Bindings, ExecuteUnresolved(b) PROVE LossInv'
  <2>1. /\ Draw(Unresolved(b)) /\ storage' = storage
        /\ failure' = FirstFailure(failure, Failure("K0100", "unresolved", b))
    BY <1>3 DEF ExecuteUnresolved
  <2>2. Unresolved(b).op = "unresolved"
    BY DEF Unresolved, Op
  <2>3. Failure("K0100", "unresolved", b) # LostMessage
    BY OnlyLossIsLoss
  <2>4. FailsOnLoss(Unresolved(b))
    BY <2>1, <2>2, <2>3, OtherFailure
  <2> QED BY <2>1, <2>2, <2>4, SameStorage, LossStaysExact
<1>4. ASSUME NEW b \in Bindings, NEW a \in Declared \cup Exits, ExecuteDischarge(b, a)
      PROVE  LossInv'
  <2> DEFINE o == Discharge(b, a)
  <2>1. Draw(o) /\ storage' = NoteAction(storage, a) /\ failure' = failure
    BY <1>4 DEF ExecuteDischarge
  <2>2. o.op = "discharge" /\ o.by = a
    BY DEF Discharge, Op
  <2>3. a \in {"ack", "nack", "return"}
    BY DEF Declared, Exits
  <2>4. NotesFlags(o)
    BY <2>1, <2>2, <2>3, NoLossHere DEF NotesFlags, NoteAction, LossInv, FlagsAreHistory
  <2>5. FailsOnLoss(o)
    BY <2>1, <2>2, SameFailure
  <2> QED BY <2>1, <2>4, <2>5, LossStaysExact
<1>5. ASSUME NEW boundary \in Boundaries, ExecuteEffect(boundary) PROVE LossInv'
  <2> DEFINE late == ScheduleFailure(boundary, options, obligations)
             hook == IF injected THEN NoFailure ELSE HookFailure(boundary)
  <2>1. /\ Draw(Effect(boundary)) /\ storage' = storage
        /\ failure' = FirstFailure(FirstFailure(failure, late), hook)
    BY <1>5 DEF ExecuteEffect
  <2>2. Effect(boundary).op = "effect"
    BY DEF Effect, Op
  <2>3. late # LostMessage
    BY NoFailureIsNoLoss, OnlyLossIsLoss DEF ScheduleFailure
  <2>4. \A h : FailureOf(h, boundary) # LostMessage
    BY NoFailureIsNoLoss, OnlyLossIsLoss DEF FailureOf
  <2>5. hook # LostMessage
    BY <2>4, NoFailureIsNoLoss DEF HookFailure
  <2>6. FirstFailure(FirstFailure(failure, late), hook)
          = FirstFailure(failure, FirstFailure(late, hook))
    BY DEF FirstFailure
  <2>7. FirstFailure(late, hook) # LostMessage
    BY <2>3, <2>5 DEF FirstFailure
  <2>8. FailsOnLoss(Effect(boundary))
    BY <2>1, <2>2, <2>6, <2>7, OtherFailure
  <2> QED BY <2>1, <2>2, <2>8, SameStorage, LossStaysExact
<1>6. ASSUME NEW action \in StorageActions, ExecuteStorage(action) PROVE LossInv'
  <2> DEFINE o == Storage(action)
             s == StorageAfter(storage, action)
  <2>1. Draw(o) /\ storage' = s /\ failure' = FirstFailure(failure, StorageFailure(s, action))
    BY <1>6 DEF ExecuteStorage
  <2>2. o.op = "storage" /\ \A x : o = Storage(x) <=> action = x
    BY DEF Storage, Op
  <2>3. NotesFlags(o)
    BY <2>1, <2>2 DEF NotesFlags, StorageAfter, LossInv, FlagsAreHistory
  <2>4. StorageFailure(s, action) = IF Loses(o) THEN LostMessage ELSE NoFailure
    BY <2>2 DEF StorageFailure, StorageAfter, Loses, LostMessage, LossInv, FlagsAreHistory
  <2>5. FailsOnLoss(o)
    BY <2>1, <2>4, NoFailureIsNoLoss DEF FailsOnLoss, FirstFailure
  <2> QED BY <2>1, <2>3, <2>5, LossStaysExact
<1>7. ASSUME NEW action \in NetworkActions, ExecuteNetwork(action) PROVE LossInv'
  <2>1. /\ Draw(Network(action)) /\ storage' = storage
        /\ failure' = FirstFailure(failure, NetworkFailure(network, action))
    BY <1>7 DEF ExecuteNetwork
  <2>2. Network(action).op = "network"
    BY DEF Network, Op
  <2>3. NetworkFailure(network, action) # LostMessage
    BY NoFailureIsNoLoss, OnlyLossIsLoss DEF NetworkFailure
  <2>4. FailsOnLoss(Network(action))
    BY <2>1, <2>2, <2>3, OtherFailure
  <2> QED BY <2>1, <2>2, <2>4, SameStorage, LossStaysExact
<1>8. ASSUME NEW policy \in Policies, ExecuteExternal(policy) PROVE LossInv'
  <2>1. /\ Draw(External(policy)) /\ storage' = storage
        /\ \/ failure' = failure
           \/ failure' = FirstFailure(failure, Failure("K0107", "policy-required", policy))
    BY <1>8 DEF ExecuteExternal
  <2>2. External(policy).op = "external"
    BY DEF External, Op
  <2>3. Failure("K0107", "policy-required", policy) # LostMessage
    BY OnlyLossIsLoss
  <2>4. FailsOnLoss(External(policy))
    BY <2>1, <2>2, <2>3, OtherFailure, SameFailure
  <2> QED BY <2>1, <2>2, <2>4, SameStorage, LossStaysExact
<1>9. ASSUME NEW code \in StopCodes, ExecuteStop(code) PROVE LossInv'
  <2>1. /\ Draw(Stop(code)) /\ storage' = storage
        /\ failure' = FirstFailure(failure, Failure(code, "stop", code))
    BY <1>9 DEF ExecuteStop
  <2>2. Stop(code).op = "stop"
    BY DEF Stop, Op
  <2>3. Failure(code, "stop", code) # LostMessage
    BY OnlyLossIsLoss
  <2>4. FailsOnLoss(Stop(code))
    BY <2>1, <2>2, <2>3, OtherFailure
  <2> QED BY <2>1, <2>2, <2>4, SameStorage, LossStaysExact
<1> QED
  BY <1>1, <1>2, <1>3, <1>4, <1>5, <1>6, <1>7, <1>8, <1>9 DEF ExecuteOperation

\* The end of the scenario and the comparison leave program and storage alone.
LEMMA VerdictSurvives ==
  ASSUME LossInv, UNCHANGED <<shape, program, storage>>,
         failure' = LostMessage => failure = LostMessage,
         failure' = NoFailure => failure = NoFailure
  PROVE  LossInv'
<1>1. FlagsAreHistory' /\ shape' \in Shapes /\ program' \in Seq(Ops)
  BY DEF LossInv, FlagsAreHistory, Acked, Is
<1>2. \A k, w : LostBy(k, w)' <=> LostBy(k, w)
  BY DEF LostBy
<1>3. LossVerdict'
  BY <1>2 DEF LossInv, LossVerdict
<1> QED BY <1>1, <1>3 DEF LossInv

\* Every step keeps the invariant of the loss verdict.
LEMMA LossInvInductive == LossInv /\ [Next]_vars => LossInv'
<1> SUFFICES ASSUME LossInv, [Next]_vars PROVE LossInv'
  OBVIOUS
<1>1. CASE Execute
  BY <1>1, OperationKeepsLoss DEF Execute
<1>2. CASE FinishExecution
  <2>1. LeftOpen(obligations) # LostMessage
    BY NoFailureIsNoLoss, OnlyLossIsLoss DEF LeftOpen
  <2>2. /\ UNCHANGED <<shape, program, storage>>
        /\ failure' = FirstFailure(failure, LeftOpen(obligations))
    BY <1>2 DEF FinishExecution, Finish, FinishAs
  <2> QED BY <2>1, <2>2, VerdictSurvives DEF FirstFailure
<1>3. CASE CheckAgreement
  <2>1. UNCHANGED <<shape, program, storage>>
    BY <1>3 DEF CheckAgreement, SemanticOnly, SkipHarness, CoverageIncomplete, LifecycleOnly,
                BoundaryPartial, RunHarness, Matched, Diverged, Settled, engine
  <2>2. \/ failure' = failure
        \/ failure' = [code |-> "K0116", events |-> << >>]
        \/ failure' = FirstFailure(failure, [code |-> "K0117", events |-> harness])
    BY <1>3 DEF CheckAgreement, SemanticOnly, SkipHarness, CoverageIncomplete, LifecycleOnly,
                BoundaryPartial, RunHarness, Matched, Diverged, engine
  <2>3. LostMessage.code = "K0100" /\ NoFailure.code = "none"
    BY DEF LostMessage, NoFailure, Failure
  <2> QED BY <2>1, <2>2, <2>3, VerdictSurvives DEF FirstFailure
<1>4. CASE UNCHANGED vars
  BY <1>4, VerdictSurvives DEF vars, semanticVars, engine
<1> QED BY <1>1, <1>2, <1>3, <1>4 DEF Next

\* It holds at the start.
LEMMA LossInvInitial == Init => LossInv
<1> SUFFICES ASSUME Init PROVE LossInv
  OBVIOUS
<1>1. shape \in Shapes /\ program = << >> /\ storage = NewStorage /\ failure = NoFailure
  BY DEF Init, SemanticInit
<1>2. program \in Seq(Ops) /\ DOMAIN program = {}
  BY <1>1
<1> QED BY <1>1, <1>2, NoFailureIsNoLoss
        DEF LossInv, FlagsAreHistory, LossVerdict, NewStorage

\* The loss of an acknowledged message is reported only when it happened, and
\* missed only behind a commit: LossVerdict, for scenarios of any length.
THEOREM LossIsExact == Spec => []LossVerdict
<1>1. LossInv => LossVerdict
  BY DEF LossInv
<1> QED BY <1>1, LossInvInitial, LossInvInductive, PTL DEF Spec

-----------------------------------------------------------------------------
(***************************************************************************)
(* What the replay guarantee of a run rests on.  A policy that nobody has  *)
(* chosen makes a boundary opaque, and an opaque boundary takes the exact  *)
(* guarantee away before any harness is asked.                             *)
(***************************************************************************)
EvidenceInv ==
  /\ failure.code = "K0107" => opaque
  /\ stage = "execute" => guarantee = "none"
  /\ stage = "check" =>
       /\ agreement = "semantic-only"
       /\ guarantee = "exact" => failure.code \notin {"K0102", "K0103"} /\ ~opaque
  /\ ExactHasEvidence

\* An operation stays within "execute"; only an external call can be K0107.
LEMMA OperationKeepsEvidence ==
  ASSUME EvidenceInv, ExecuteOperation
  PROVE  EvidenceInv'
<1> DEFINE Calm == failure'.code = "K0107" => opaque'
<1>1. ASSUME NEW new, new.code # "K0107", failure' = FirstFailure(failure, new),
             opaque' = opaque
      PROVE  Calm
  BY <1>1 DEF EvidenceInv, FirstFailure
<1>2. \A code, k, l : Failure(code, k, l).code = code
  BY DEF Failure
<1>3. NoFailure.code = "none"
  BY DEF NoFailure
<1>4. ASSUME NEW o, Draw(o), Calm PROVE EvidenceInv'
  BY <1>4 DEF Draw, result, EvidenceInv, ExactHasEvidence
<1>5. ASSUME NEW b \in Bindings,
             \/ ExecuteCreate(b) \/ ExecuteTransfer(b)
             \/ \E a \in Declared \cup Exits : ExecuteDischarge(b, a)
      PROVE  (\E o : Draw(o)) /\ Calm
  BY <1>5 DEF ExecuteCreate, ExecuteTransfer, ExecuteDischarge, EvidenceInv
<1>6. ASSUME NEW b \in Bindings, ExecuteUnresolved(b) PROVE (\E o : Draw(o)) /\ Calm
  BY <1>1, <1>2, <1>6 DEF ExecuteUnresolved
<1>7. ASSUME NEW boundary \in Boundaries, ExecuteEffect(boundary)
      PROVE  (\E o : Draw(o)) /\ Calm
  <2> DEFINE late == ScheduleFailure(boundary, options, obligations)
             hook == IF injected THEN NoFailure ELSE HookFailure(boundary)
  <2>1. /\ Draw(Effect(boundary)) /\ opaque' = opaque
        /\ failure' = FirstFailure(FirstFailure(failure, late), hook)
    BY <1>7 DEF ExecuteEffect
  <2>2. late.code # "K0107"
    BY <1>2, <1>3 DEF ScheduleFailure
  <2>3. \A h : FailureOf(h, boundary).code # "K0107"
    BY <1>2, <1>3 DEF FailureOf
  <2>4. hook.code # "K0107"
    BY <1>3, <2>3 DEF HookFailure
  <2> QED BY <2>1, <2>2, <2>4 DEF EvidenceInv, FirstFailure
<1>8. ASSUME NEW action \in StorageActions, ExecuteStorage(action)
      PROVE  (\E o : Draw(o)) /\ Calm
  <2>1. StorageFailure(StorageAfter(storage, action), action).code # "K0107"
    BY <1>2, <1>3 DEF StorageFailure
  <2> QED BY <1>1, <1>8, <2>1 DEF ExecuteStorage
<1>9. ASSUME NEW action \in NetworkActions, ExecuteNetwork(action)
      PROVE  (\E o : Draw(o)) /\ Calm
  <2>1. NetworkFailure(network, action).code # "K0107"
    BY <1>2, <1>3 DEF NetworkFailure
  <2> QED BY <1>1, <1>9, <2>1 DEF ExecuteNetwork
<1>10. ASSUME NEW policy \in Policies, ExecuteExternal(policy)
       PROVE  (\E o : Draw(o)) /\ Calm
  <2>1. CASE policy = "unselected"
    BY <1>10, <2>1 DEF ExecuteExternal, OwnedPolicies
  <2>2. CASE policy # "unselected"
    BY <1>10, <2>2 DEF ExecuteExternal, EvidenceInv
  <2> QED BY <2>1, <2>2
<1>11. ASSUME NEW code \in StopCodes, ExecuteStop(code) PROVE (\E o : Draw(o)) /\ Calm
  <2>1. Failure(code, "stop", code).code # "K0107"
    BY <1>2 DEF StopCodes
  <2> QED BY <1>1, <1>11, <2>1 DEF ExecuteStop
<1>12. (\E o : Draw(o)) /\ Calm
  BY <1>5, <1>6, <1>7, <1>8, <1>9, <1>10, <1>11 DEF ExecuteOperation
<1> QED BY <1>4, <1>12

\* Every step keeps what an exact guarantee rests on.
LEMMA EvidenceInvInductive == EvidenceInv /\ [Next]_vars => EvidenceInv'
<1> SUFFICES ASSUME EvidenceInv, [Next]_vars PROVE EvidenceInv'
  OBVIOUS
<1>1. CASE Execute
  BY <1>1, OperationKeepsEvidence DEF Execute
<1>2. CASE FinishExecution
  <2> DEFINE verdict == FirstFailure(failure, LeftOpen(obligations))
  <2>1. /\ failure' = verdict /\ opaque' = opaque
        /\ stage' = "check" /\ agreement' = "semantic-only"
        /\ guarantee' = IF opaque /\ GuaranteeOf(options.coverage, verdict.code)
                                        # "not_replayable"
                          THEN "partial" ELSE GuaranteeOf(options.coverage, verdict.code)
    BY <1>2 DEF FinishExecution, Finish, FinishAs
  <2>2. verdict.code = "K0107" => opaque
    BY DEF EvidenceInv, FirstFailure, LeftOpen, NoFailure, Failure
  <2>3. guarantee' = "exact" => verdict.code \notin {"K0102", "K0103"} /\ ~opaque
    BY <2>1 DEF GuaranteeOf
  <2> QED BY <2>1, <2>2, <2>3 DEF EvidenceInv, ExactHasEvidence
<1>3. CASE CheckAgreement
  <2>1. CASE SemanticOnly
    BY <2>1 DEF SemanticOnly, Settled, EvidenceInv, ExactHasEvidence
  <2>2. CASE SkipHarness
    BY <2>2 DEF SkipHarness, WithHarness, Unexecutable, Settled, EvidenceInv, ExactHasEvidence
  <2>3. CASE CoverageIncomplete
    BY <2>3 DEF CoverageIncomplete, Settled, EvidenceInv, ExactHasEvidence
  <2>4. CASE LifecycleOnly
    BY <2>4 DEF LifecycleOnly, Settled, EvidenceInv, ExactHasEvidence
  <2>5. CASE BoundaryPartial
    BY <2>5 DEF BoundaryPartial, Settled, EvidenceInv, ExactHasEvidence
  <2>6. CASE RunHarness
    BY <2>6 DEF RunHarness, engine, EvidenceInv, ExactHasEvidence
  <2>7. CASE Matched
    BY <2>7 DEF Matched, Settled, EvidenceInv, ExactHasEvidence
  <2>8. CASE Diverged
    BY <2>8 DEF Diverged, Settled, FirstFailure, EvidenceInv, ExactHasEvidence
  <2> QED BY <1>3, <2>1, <2>2, <2>3, <2>4, <2>5, <2>6, <2>7, <2>8 DEF CheckAgreement
<1>4. CASE UNCHANGED vars
  BY <1>4 DEF vars, semanticVars, engine, result, EvidenceInv, ExactHasEvidence
<1> QED BY <1>1, <1>2, <1>3, <1>4 DEF Next

\* No run claims an exact replay without the evidence of both engines, up to
\* the two kinds of run that no harness is generated for: ExactHasEvidence.
THEOREM ExactRestsOnEvidence == Spec => []ExactHasEvidence
<1>1. Init => EvidenceInv
  BY DEF Init, SemanticInit, EvidenceInv, ExactHasEvidence, NoFailure
<1>2. EvidenceInv => ExactHasEvidence
  BY DEF EvidenceInv
<1> QED BY <1>1, <1>2, EvidenceInvInductive, PTL DEF Spec

-----------------------------------------------------------------------------
(***************************************************************************)
(* The harness computes its failure by a fold over the operations, and     *)
(* prints what flattening makes of the parts of its trace.                 *)
(***************************************************************************)

\* Every nonempty set of naturals has a least element.
LEMMA LeastNatural ==
  ASSUME NEW S \in SUBSET Nat, S # {}
  PROVE  \E b \in S : \A d \in S : b <= d
<1> DEFINE R == {ss \in Nat \X Nat : ss[1] < ss[2]}
<1>1. \E b \in S : \A d \in S : ~(<<d, b>> \in OpToRel(<, Nat))
  BY NatLessThanWellFounded, WFMin
<1>2. \E b \in S : \A d \in S : ~(<<d, b>> \in R)
  BY Zenon, <1>1 DEF OpToRel
<1>3. ASSUME NEW d \in Nat, NEW b \in Nat, <<d, b>> \notin R
      PROVE  b <= d
  BY <1>3
<1> HIDE DEF R
<1> QED BY <1>2, <1>3

\* One turn of the fold: what it makes of the operations at s, given it for smaller sets.
Folded(p, o, it, s) ==
  IF s = {} THEN NewTerminal
  ELSE Applied(it[s \ {Max(s)}], p[Max(s)], o)

\* The fold of the community modules in these terms.
LEMMA TerminalIsFold ==
  ASSUME NEW p, NEW o
  PROVE  Terminal(p, o) =
           (CHOOSE it : it = [s \in SUBSET DOMAIN p |-> Folded(p, o, it, s)])[DOMAIN p]
BY DEF Terminal, FoldLeft, MapThenFoldSet, Folded

\* The greatest of a set of positions that reaches up to n.
LEMMA GreatestPosition ==
  ASSUME NEW n \in Nat, NEW s \in SUBSET (1 .. n), n \in s
  PROVE  Max(s) = n /\ s \ {Max(s)} \in SUBSET (1 .. n - 1)
<1>1. \A y \in s : n >= y
  OBVIOUS
<1>2. \A x \in s : (\A y \in s : x >= y) => x = n
  OBVIOUS
<1>3. Max(s) = n
  BY <1>1, <1>2 DEF Max
<1> QED BY <1>3

\* There is a function that takes all these turns.
LEMMA FoldExists ==
  ASSUME NEW n \in Nat, NEW p, NEW o
  PROVE  \E it : it = [s \in SUBSET (1 .. n) |-> Folded(p, o, it, s)]
<1> DEFINE All == SUBSET (1 .. n)
           Upto(f, m) == /\ f = [s \in All |-> f[s]]
                         /\ \A s \in All : s \subseteq 1 .. m => f[s] = Folded(p, o, f, s)
           Bad == {m \in Nat : ~\E f : Upto(f, m)}
<1>1. ASSUME Bad # {} PROVE FALSE
  <2>1. PICK m \in Bad : \A k \in Bad : m <= k
    BY <1>1, LeastNatural
  <2>2. m # 0
    <3> DEFINE f == [s \in All |-> NewTerminal]
    <3>1. \A s \in All : s \subseteq 1 .. 0 => f[s] = Folded(p, o, f, s)
      BY DEF Folded
    <3>2. f = [s \in All |-> f[s]]
      OBVIOUS
    <3> HIDE DEF f
    <3>3. Upto(f, 0)
      BY <3>1, <3>2
    <3> QED BY <2>1, <3>3
  <2>3. m - 1 \in Nat /\ m - 1 \notin Bad /\ m \in Nat
    <3>1. m \in Nat
      BY <2>1
    <3>2. m - 1 \in Nat /\ ~(m <= m - 1)
      BY <2>2, <3>1
    <3> HIDE DEF Bad
    <3> QED BY <2>1, <3>1, <3>2
  <2>4. PICK f : Upto(f, m - 1)
    BY <2>3
  <2> DEFINE g == [s \in All |-> IF m \in s THEN Folded(p, o, f, s) ELSE f[s]]
  <2>5. ASSUME NEW s \in All, s \subseteq 1 .. m
        PROVE  g[s] = Folded(p, o, g, s)
    <3> DEFINE rest == s \ {Max(s)}
    <3>1. CASE m \in s
      <4>1. rest \in SUBSET (1 .. m - 1) /\ m \notin rest /\ rest \in All
        <5>1. s \in SUBSET (1 .. m)
          BY <2>5
        <5> QED BY <2>3, <3>1, <5>1, GreatestPosition
      <4>2. g[rest] = f[rest]
        BY <4>1
      <4> HIDE DEF g
      <4>3. Folded(p, o, f, s) = Folded(p, o, g, s)
        BY <4>2 DEF Folded
      <4> QED BY <3>1, <4>3 DEF g
    <3>2. CASE m \notin s
      <4>1. s \subseteq 1 .. m - 1
        BY <2>3, <2>5, <3>2
      <4>2. g[s] = f[s] /\ f[s] = Folded(p, o, f, s)
        BY <2>4, <3>2, <4>1
      <4>3. m \notin rest /\ rest \in All
        BY <3>2
      <4>4. g[rest] = f[rest]
        BY <4>3
      <4> HIDE DEF g
      <4>5. Folded(p, o, f, s) = Folded(p, o, g, s)
        BY <4>4 DEF Folded
      <4> QED BY <4>2, <4>5
    <3> QED BY <3>1, <3>2
  <2>6. g = [s \in All |-> g[s]]
    OBVIOUS
  <2> HIDE DEF g
  <2>7. Upto(g, m)
    BY <2>5, <2>6
  <2> QED BY <2>1, <2>7
<1>2. n \notin Bad
  BY <1>1
<1>3. PICK f : Upto(f, n)
  BY <1>2
<1>4. \A s \in All : f[s] = Folded(p, o, f, s)
  BY <1>3
<1>5. f = [s \in All |-> Folded(p, o, f, s)]
  BY <1>3, <1>4
<1> QED BY <1>5

\* An operation that follows takes one more turn.
LEMMA TerminalRule ==
  ASSUME NEW p, NEW o, NEW n \in Nat, DOMAIN p = 1 .. n,
         NEW q, DOMAIN q = 1 .. n + 1, \A k \in 1 .. n : q[k] = p[k]
  PROVE  Terminal(q, o) = Applied(Terminal(p, o), q[n + 1], o)
<1> DEFINE A == CHOOSE it : it = [s \in SUBSET (1 .. n) |-> Folded(p, o, it, s)]
           B == CHOOSE it : it = [s \in SUBSET (1 .. n + 1) |-> Folded(q, o, it, s)]
<1>1. Terminal(p, o) = A[1 .. n] /\ Terminal(q, o) = B[1 .. n + 1]
  BY TerminalIsFold
<1>2. A = [s \in SUBSET (1 .. n) |-> Folded(p, o, A, s)]
  BY FoldExists
<1>3. B = [s \in SUBSET (1 .. n + 1) |-> Folded(q, o, B, s)]
  <2>1. n + 1 \in Nat
    OBVIOUS
  <2> QED BY <2>1, FoldExists
<1> HIDE DEF A, B
<1>4. \A s \in SUBSET (1 .. n) : A[s] = Folded(p, o, A, s)
  BY <1>2
<1>5. \A s \in SUBSET (1 .. n + 1) : B[s] = Folded(q, o, B, s)
  BY <1>3
<1> DEFINE Bad == {k \in 0 .. n : A[1 .. k] # B[1 .. k]}
<1>6. ASSUME Bad # {} PROVE FALSE
  <2>1. PICK k \in Bad : \A j \in Bad : k <= j
    <3>1. Bad \in SUBSET Nat
      OBVIOUS
    <3> QED BY <1>6, <3>1, LeastNatural
  <2>2. k \in 0 .. n /\ 1 .. k \in SUBSET (1 .. n) /\ 1 .. k \in SUBSET (1 .. n + 1)
    BY <2>1
  <2>3. CASE k = 0
    <3>1. 1 .. k = {}
      BY <2>3
    <3> QED BY <1>4, <1>5, <2>1, <2>2, <3>1 DEF Folded
  <2>4. CASE k # 0
    <3>1. k \in Nat /\ 1 .. k \in SUBSET (1 .. k) /\ k \in 1 .. k /\ k \in 1 .. n
      BY <2>2, <2>4
    <3>2. Max(1 .. k) = k
      BY <3>1, GreatestPosition
    <3>3. (1 .. k) \ {k} = 1 .. k - 1 /\ k - 1 \in 0 .. n /\ k - 1 \notin Bad
      BY <2>1, <2>2, <2>4
    <3>4. A[1 .. k - 1] = B[1 .. k - 1]
      BY <3>3
    <3>5. 1 .. k # {}
      BY <3>1
    <3>6. A[1 .. k] = Applied(A[1 .. k - 1], p[k], o)
      BY <1>4, <2>2, <3>2, <3>3, <3>5 DEF Folded
    <3>7. B[1 .. k] = Applied(B[1 .. k - 1], q[k], o)
      BY <1>5, <2>2, <3>2, <3>3, <3>5 DEF Folded
    <3>8. A[1 .. k] # B[1 .. k]
      BY <2>1
    <3>9. q[k] = p[k]
      BY <3>1
    <3> QED BY <3>4, <3>6, <3>7, <3>8, <3>9
  <2> QED BY <2>3, <2>4
<1>7. A[1 .. n] = B[1 .. n]
  BY <1>6
<1>8. B[1 .. n + 1] = Applied(B[1 .. n], q[n + 1], o)
  <2>1. n + 1 \in Nat /\ 1 .. n + 1 \in SUBSET (1 .. n + 1) /\ n + 1 \in 1 .. n + 1
    OBVIOUS
  <2>2. Max(1 .. n + 1) = n + 1
    BY <2>1, GreatestPosition
  <2>3. (1 .. n + 1) \ {n + 1} = 1 .. n /\ 1 .. n + 1 # {}
    BY <2>1
  <2> QED BY <1>5, <2>1, <2>2, <2>3 DEF Folded
<1> QED BY <1>1, <1>7, <1>8

\* Before any operation nothing has happened.
LEMMA TerminalStart ==
  ASSUME NEW o
  PROVE  Terminal(<< >>, o) = NewTerminal
<1> DEFINE p == << >>
           A == CHOOSE it : it = [s \in SUBSET (1 .. 0) |-> Folded(p, o, it, s)]
<1>1. DOMAIN p = 1 .. 0
  OBVIOUS
<1> HIDE DEF p
<1>2. Terminal(p, o) = A[1 .. 0]
  BY <1>1, TerminalIsFold
<1>3. A = [s \in SUBSET (1 .. 0) |-> Folded(p, o, A, s)]
  BY FoldExists
<1> HIDE DEF A
<1>4. A[1 .. 0] = Folded(p, o, A, 1 .. 0)
  BY <1>3
<1>5. 1 .. 0 = {}
  OBVIOUS
<1> QED BY <1>2, <1>4, <1>5 DEF Folded, p

\* The function that joins the parts one by one.
LEMMA FlattenExists ==
  ASSUME NEW n \in Nat, NEW seqs
  PROVE  \E f : f = [i \in 1 .. n |-> IF i = 1 THEN seqs[i] ELSE f[i - 1] \o seqs[i]]
<1> DEFINE Joined(f, i) == IF i = 1 THEN seqs[i] ELSE f[i - 1] \o seqs[i]
           Upto(f, m) == /\ f = [i \in 1 .. n |-> f[i]]
                         /\ \A i \in 1 .. n : i <= m => f[i] = Joined(f, i)
           Bad == {m \in Nat : ~\E f : Upto(f, m)}
<1>1. ASSUME Bad # {} PROVE FALSE
  <2>1. PICK m \in Bad : \A k \in Bad : m <= k
    BY <1>1, LeastNatural
  <2>2. m # 0
    <3> DEFINE f == [i \in 1 .. n |-> << >>]
    <3>1. \A i \in 1 .. n : i <= 0 => f[i] = Joined(f, i)
      OBVIOUS
    <3>2. f = [i \in 1 .. n |-> f[i]]
      OBVIOUS
    <3> HIDE DEF f, Joined
    <3>3. Upto(f, 0)
      BY <3>1, <3>2
    <3> QED BY <2>1, <3>3
  <2>3. m - 1 \in Nat /\ m - 1 \notin Bad /\ m \in Nat
    <3>1. m \in Nat
      BY <2>1
    <3>2. m - 1 \in Nat /\ ~(m <= m - 1)
      BY <2>2, <3>1
    <3> HIDE DEF Bad
    <3> QED BY <2>1, <3>1, <3>2
  <2> HIDE DEF Joined
  <2>4. PICK f : Upto(f, m - 1)
    BY <2>3
  <2> DEFINE g == [i \in 1 .. n |-> IF i = m THEN Joined(f, i) ELSE f[i]]
  <2>5. ASSUME NEW i \in 1 .. n, i <= m
        PROVE  g[i] = Joined(g, i)
    <3>1. i # 1 => i - 1 \in 1 .. n /\ i - 1 # m
      BY <2>3, <2>5
    <3>2. i # 1 => g[i - 1] = f[i - 1]
      BY <3>1
    <3>3. Joined(f, i) = Joined(g, i)
      <4> HIDE DEF g
      <4> QED BY <3>2 DEF Joined
    <3>4. i # m => f[i] = Joined(f, i)
      BY <2>3, <2>4, <2>5
    <3> QED BY <3>3, <3>4
  <2>6. g = [i \in 1 .. n |-> g[i]]
    OBVIOUS
  <2> HIDE DEF g
  <2>7. Upto(g, m)
    BY <2>5, <2>6
  <2> QED BY <2>1, <2>7
<1>2. n \notin Bad
  BY <1>1
<1>3. PICK f : Upto(f, n)
  BY <1>2
<1> HIDE DEF Joined
<1>4. \A i \in 1 .. n : f[i] = Joined(f, i)
  BY <1>3
<1>5. f = [i \in 1 .. n |-> Joined(f, i)]
  BY <1>3, <1>4
<1> QED BY <1>5 DEF Joined

\* Two sequences joined.
LEMMA JoinType ==
  ASSUME NEW S, NEW one \in Seq(S), NEW other \in Seq(S)
  PROVE  one \o other \in Seq(S)
OBVIOUS

\* What the parts consist of.
LEMMA FlattenType ==
  ASSUME NEW S, NEW n \in Nat, NEW seqs \in [1 .. n -> Seq(S)]
  PROVE  FlattenSeq(seqs) \in Seq(S)
<1>1. seqs \in Seq(Seq(S)) /\ Len(seqs) = n
  OBVIOUS
<1>2. CASE n = 0
  <2>1. FlattenSeq(seqs) = seqs /\ seqs = << >>
    BY <1>1, <1>2 DEF FlattenSeq
  <2> QED BY <2>1
<1>3. CASE n # 0
  <2> DEFINE f == CHOOSE f : f = [i \in 1 .. n |-> IF i = 1 THEN seqs[i] ELSE f[i - 1] \o seqs[i]]
  <2>1. FlattenSeq(seqs) = f[n]
    BY <1>1, <1>3 DEF FlattenSeq
  <2>2. f = [i \in 1 .. n |-> IF i = 1 THEN seqs[i] ELSE f[i - 1] \o seqs[i]]
    BY FlattenExists
  <2> HIDE DEF f
  <2>3. \A i \in 1 .. n : f[i] = IF i = 1 THEN seqs[i] ELSE f[i - 1] \o seqs[i]
    BY <2>2
  <2> DEFINE Bad == {i \in 1 .. n : f[i] \notin Seq(S)}
  <2>4. ASSUME Bad # {} PROVE FALSE
    <3>1. PICK i \in Bad : \A j \in Bad : i <= j
      <4>1. Bad \in SUBSET Nat
        OBVIOUS
      <4> QED BY <2>4, <4>1, LeastNatural
    <3>2. i \in 1 .. n /\ seqs[i] \in Seq(S)
      BY <3>1
    <3>3. i # 1
      BY <2>3, <3>1, <3>2
    <3>4. i - 1 \in 1 .. n /\ i - 1 \notin Bad
      BY <3>1, <3>2, <3>3
    <3>5. f[i - 1] \in Seq(S)
      BY <3>4
    <3>6. f[i] = f[i - 1] \o seqs[i]
      BY <2>3, <3>2, <3>3
    <3>7. f[i - 1] \o seqs[i] \in Seq(S)
      BY <3>2, <3>5, JoinType
    <3> QED BY <3>1, <3>6, <3>7
  <2>5. f[n] \in Seq(S)
    BY <1>3, <2>4
  <2> QED BY <2>1, <2>5
<1> QED BY <1>2, <1>3

-----------------------------------------------------------------------------
(***************************************************************************)
(* What the two engines print and report.  Every event they print when     *)
(* nothing fails is of a plain kind, every failure has one event, and its  *)
(* kind is not plain.                                                      *)
(***************************************************************************)

Labels ==
  Bindings \cup Boundaries \cup StorageActions \cup NetworkActions \cup Policies \cup StopCodes
    \cup Schedulers
    \cup {"enqueued", "polled", "cancelled", "completed", "storage-crash", "ward.network"}

\* What is printed when nothing fails, what an injected hook tells, and what a failure tells.
Plain    == {"deterministic", "task", "choice", "storage", "network", "network-state",
             "boundary", "obligation-transfer"}
Hooked   == {"injected-cancel", "injected-preempt", "injected-time-jump"}
Reported == {"unresolved", "scheduler-interleaving-leak", "lost-message",
             "network-delivery-failed", "obligation-left-open", "policy-required", "stop",
             "injected-cancel", "injected-crash"}

PlainEvents == Plain \X Labels
HookedEvents == Hooked \X Boundaries
ToldEvents  == PlainEvents \cup HookedEvents

\* A run that has not failed, or that failed in one of these ways.
Reports(f, kinds) ==
  \/ f = NoFailure
  \/ \E code \in StopCodes \cup {"K0100", "K0107"}, kind \in kinds, label \in Labels :
       f = Failure(code, kind, label)

\* The failures both engines look for, and those of them that one operation shows.
Found  == {"unresolved", "scheduler-interleaving-leak", "lost-message", "network-delivery-failed"}
Shared == Reported \ {"policy-required", "stop", "injected-crash"}

Held == [binding : Bindings, closed : BOOLEAN]

\* Every nonempty set of positions has a first and a last one.
LEMMA EndPositions ==
  ASSUME NEW n \in Nat, NEW S \in SUBSET (1 .. n), S # {}
  PROVE  LeastOf(S) \in S /\ GreatestOf(S) \in S
<1>1. \E i \in S : \A j \in S : i <= j
  <2>1. S \in SUBSET Nat
    OBVIOUS
  <2> QED BY <2>1, LeastNatural
<1>2. \E i \in S : \A j \in S : j <= i
  <2> DEFINE back == {n - i : i \in S}
  <2>1. back \in SUBSET Nat /\ back # {}
    <3>1. \A i \in S : n - i \in Nat
      OBVIOUS
    <3> QED BY <3>1
  <2>2. PICK d \in back : \A e \in back : d <= e
    BY <2>1, LeastNatural
  <2>3. PICK i \in S : d = n - i
    BY <2>2
  <2>4. ASSUME NEW j \in S PROVE j <= i
    <3>1. n - j \in back
      BY <2>4
    <3>2. n - i <= n - j
      BY <2>2, <2>3, <3>1
    <3> QED BY <3>2
  <2> QED BY <2>4
<1> QED BY <1>1, <1>2 DEF LeastOf, GreatestOf

\* The obligation that is met first, and the one that is met last.
LEMMA OpenEnds ==
  ASSUME NEW obl \in Seq(Held), OpenAt(obl) # {}
  PROVE  /\ LeastOf(OpenAt(obl)) \in OpenAt(obl) /\ GreatestOf(OpenAt(obl)) \in OpenAt(obl)
         /\ FirstOpen(obl) \in Bindings /\ LatestOpen(obl) \in Bindings
<1> DEFINE open == OpenAt(obl)
<1>1. open \in SUBSET (1 .. Len(obl)) /\ Len(obl) \in Nat
  BY DEF OpenAt
<1> HIDE DEF open
<1>2. LeastOf(open) \in open /\ GreatestOf(open) \in open
  BY <1>1, EndPositions DEF open
<1>3. \A i \in open : obl[i].binding \in Bindings
  <2>1. \A i \in open : obl[i] \in Held
    BY <1>1
  <2> QED BY <2>1 DEF Held
<1> QED BY <1>2, <1>3 DEF FirstOpen, LatestOpen, open

\* Closing an obligation leaves obligations.
LEMMA CloseType ==
  ASSUME NEW obl \in Seq(Held), NEW b, NEW a, NEW accepted
  PROVE  Close(obl, b, a, accepted) \in Seq(Held)
<1> DEFINE at == GreatestOf({i \in OpenAt(obl) : obl[i].binding = b})
<1>1. [obl EXCEPT ![at].closed = TRUE] \in Seq(Held)
  <2>1. DOMAIN obl = 1 .. Len(obl) /\ Len(obl) \in Nat /\ \A i \in 1 .. Len(obl) : obl[i] \in Held
    OBVIOUS
  <2> HIDE DEF at
  <2>2. \A i \in 1 .. Len(obl) : [obl[i] EXCEPT !.closed = TRUE] \in Held
    BY <2>1 DEF Held
  <2>3. [obl EXCEPT ![at].closed = TRUE] \in [1 .. Len(obl) -> Held]
    BY <2>1, <2>2
  <2> QED BY <2>1, <2>3
<1> QED BY <1>1 DEF Close

\* The facades and the scheduler print plain events.
LEMMA PrintedTypes ==
  ASSUME NEW o, o.scheduler \in Schedulers
  PROVE  /\ \A b \in Boundaries : BoundaryEvents(b, o) \in Seq(PlainEvents)
         /\ \A a \in StorageActions : StorageEvents(a) \in Seq(PlainEvents)
         /\ \A a \in NetworkActions : /\ FacadeNetworkEvents(a) \in Seq(PlainEvents)
                                      /\ \A n : NetworkEvents(n, a) \in Seq(PlainEvents)
         /\ PortfolioEvents(o) \in Seq({"portfolio"} \X Labels)
<1>1. \A b \in Boundaries : BoundaryEvents(b, o) \in Seq(PlainEvents)
  <2> SUFFICES ASSUME NEW b \in Boundaries PROVE BoundaryEvents(b, o) \in Seq(PlainEvents)
    OBVIOUS
  <2> DEFINE E == PlainEvents
             end == IF Injects("cancel", o) THEN "cancelled" ELSE "completed"
             choice == IF o.scheduler = "round-robin" THEN << >>
                       ELSE << <<"choice", o.scheduler>> >>
  <2>1. /\ <<"deterministic", b>> \in E /\ <<"task", "enqueued">> \in E /\ <<"task", "polled">> \in E
        /\ <<"task", end>> \in E /\ <<"choice", o.scheduler>> \in E
    BY DEF PlainEvents, Plain, Labels
  <2> HIDE DEF E, end
  <2>2. << <<"deterministic", b>> >> \in Seq(E) /\ << >> \in Seq(E) /\ choice \in Seq(E)
    BY <2>1
  <2>3. << <<"task", "enqueued">>, <<"task", "polled">>, <<"task", end>> >> \in Seq(E)
    BY <2>1
  <2> HIDE DEF choice
  <2>4. << <<"task", "enqueued">>, <<"task", "polled">>, <<"task", end>> >> \o choice \in Seq(E)
    BY <2>2, <2>3, JoinType
  <2>5. BoundaryEvents(b, o) =
          << <<"deterministic", b>> >> \o
            (IF b # "task" THEN << >>
             ELSE << <<"task", "enqueued">>, <<"task", "polled">>, <<"task", end>> >> \o choice)
    BY DEF BoundaryEvents, choice, end
  <2>6. BoundaryEvents(b, o) \in Seq(E)
    BY <2>2, <2>4, <2>5, JoinType
  <2> QED BY <2>6 DEF E
<1>2. \A a \in StorageActions : StorageEvents(a) \in Seq(PlainEvents)
  BY DEF StorageEvents, PlainEvents, Plain, Labels
<1>3. ASSUME NEW a \in NetworkActions
      PROVE  /\ FacadeNetworkEvents(a) \in Seq(PlainEvents)
             /\ \A n : NetworkEvents(n, a) \in Seq(PlainEvents)
  <2> DEFINE E == PlainEvents
  <2>1. <<"network", a>> \in E /\ <<"network-state", a>> \in E
    BY DEF PlainEvents, Plain, Labels
  <2> HIDE DEF E
  <2>2. << <<"network", a>> >> \in Seq(E) /\ << <<"network-state", a>> >> \in Seq(E)
        /\ << >> \in Seq(E) /\ << <<"network", a>>, <<"network-state", a>> >> \in Seq(E)
    BY <2>1
  <2>3. FacadeNetworkEvents(a) \in Seq(E)
    BY <2>2 DEF FacadeNetworkEvents, StateEvent
  <2>4. \A n : NetworkEvents(n, a) \in Seq(E)
    BY <2>2, JoinType DEF NetworkEvents, StateEvent
  <2> QED BY <2>3, <2>4 DEF E
<1>4. PortfolioEvents(o) \in Seq({"portfolio"} \X Labels)
  BY DEF PortfolioEvents, Labels
<1> QED BY <1>1, <1>2, <1>3, <1>4

\* What the scheduler, the facades and the end of the scenario report.
LEMMA ReportedTypes ==
  ASSUME NEW o, NEW obl \in Seq(Held)
  PROVE  /\ \A b : Reports(ScheduleFailure(b, o, obl), {"scheduler-interleaving-leak"})
         /\ \A s, a : Reports(StorageFailure(s, a), {"lost-message"})
         /\ \A n, a : Reports(NetworkFailure(n, a), {"network-delivery-failed"})
         /\ Reports(LeftOpen(obl), {"obligation-left-open"})
<1>1. \A b : Reports(ScheduleFailure(b, o, obl), {"scheduler-interleaving-leak"})
  BY OpenEnds DEF ScheduleFailure, Reports, Labels
<1>2. Reports(LeftOpen(obl), {"obligation-left-open"})
  BY OpenEnds DEF LeftOpen, Reports, Labels
<1>3. \A s, a : Reports(StorageFailure(s, a), {"lost-message"})
  BY DEF StorageFailure, Reports, Labels
<1>4. \A n, a : Reports(NetworkFailure(n, a), {"network-delivery-failed"})
  BY DEF NetworkFailure, Reports, Labels
<1> QED BY <1>1, <1>2, <1>3, <1>4

\* What is one of some kinds is one of more.
LEMMA ReportsMore ==
  ASSUME NEW f, NEW some, NEW more, some \subseteq more, Reports(f, some)
  PROVE  Reports(f, more)
BY DEF Reports

\* The first of two failures is one of them.
LEMMA ReportsFirst ==
  ASSUME NEW f, NEW g, NEW kinds, Reports(f, kinds), Reports(g, kinds)
  PROVE  Reports(FirstFailure(f, g), kinds)
BY DEF FirstFailure

\* A failure tells one event, no failure none.
LEMMA ReportedEvents ==
  ASSUME NEW f, NEW kinds, Reports(f, kinds)
  PROVE  /\ f = NoFailure => f.events = << >>
         /\ f # NoFailure => \E e \in kinds \X Labels : f.events = << e >>
         /\ f.events \in Seq(kinds \X Labels)
<1>1. CASE f = NoFailure
  BY <1>1 DEF NoFailure
<1>2. CASE f # NoFailure
  <2>1. PICK code \in StopCodes \cup {"K0100", "K0107"}, kind \in kinds, label \in Labels :
          f = Failure(code, kind, label)
    BY <1>2 DEF Reports
  <2>2. f.events = << <<kind, label>> >> /\ <<kind, label>> \in kinds \X Labels
    BY <2>1 DEF Failure
  <2> QED BY <1>2, <2>2
<1> QED BY <1>1, <1>2

\* What the shapes say of an operation.
LEMMA OpFields ==
  ASSUME NEW o \in Ops
  PROVE  /\ o.op \in OpKinds
         /\ o.op \in {"create", "discharge", "transfer", "unresolved"} => o.of \in Bindings
         /\ o.op = "effect" => o.of \in Boundaries
         /\ o.op = "storage" => o.of \in StorageActions
         /\ o.op = "network" => o.of \in NetworkActions
         /\ o.op = "external" => o.of \in Policies
         /\ o.op = "stop" => o.of \in StopCodes
         /\ o.op # "discharge" => o.by = "-"
         /\ o = Op(o.op, o.of, o.by)
<1>1. WellFormed(o)
  BY ShapesAssumption DEF Ops, Shape
<1>2. PICK kind \in OpKinds :
        \E subject \in Subjects[kind],
           action \in IF kind = "discharge" THEN Declared \cup Exits ELSE {"-"} :
          o = Op(kind, subject, action)
  BY <1>1 DEF WellFormed
<1>3. /\ o = Op(kind, o.of, o.by) /\ o.op = kind /\ o.of \in Subjects[kind]
      /\ o.by \in IF kind = "discharge" THEN Declared \cup Exits ELSE {"-"}
  BY <1>2 DEF Op
<1>4. Subjects[kind] = CASE kind = "effect"   -> Boundaries
                         [] kind = "storage"  -> StorageActions
                         [] kind = "network"  -> NetworkActions
                         [] kind = "external" -> Policies
                         [] kind = "stop"     -> StopCodes
                         [] OTHER             -> Bindings
  BY DEF Subjects
<1> QED BY <1>3, <1>4

\* What the injected hooks tell and report at the first modeled effect.
LEMMA HookTypes ==
  ASSUME options \in Options, obligations \in Seq(Held), NEW boundary \in Boundaries
  PROVE  /\ HookEvents(boundary) \in Seq(ToldEvents)
         /\ Reports(HookFailure(boundary), {"injected-cancel", "injected-crash"})
<1>1. \A hook : EventsOf(hook, boundary) \in Seq(ToldEvents)
  <2> DEFINE E == ToldEvents
  <2>1. /\ <<"injected-cancel", boundary>> \in E /\ <<"injected-preempt", boundary>> \in E
        /\ <<"injected-time-jump", boundary>> \in E
    BY DEF ToldEvents, HookedEvents, Hooked
  <2> HIDE DEF E
  <2>2. /\ << <<"injected-cancel", boundary>> >> \in Seq(E) /\ << >> \in Seq(E)
        /\ << <<"injected-preempt", boundary>> >> \in Seq(E)
        /\ << <<"injected-time-jump", boundary>> >> \in Seq(E)
    BY <2>1
  <2>3. \A hook : EventsOf(hook, boundary) \in Seq(E)
    BY <2>2 DEF EventsOf
  <2> QED BY <2>3 DEF E
<1>2. HookEvents(boundary) \in Seq(ToldEvents)
  <2> DEFINE E == ToldEvents
             n == Len(options.inject)
             parts == [i \in DOMAIN options.inject |-> EventsOf(options.inject[i], boundary)]
  <2>1. n \in Nat /\ DOMAIN options.inject = 1 .. n
    BY DEF Options
  <2>2. parts \in [1 .. n -> Seq(E)]
    BY <1>1, <2>1
  <2> HIDE DEF parts, n, E
  <2>3. FlattenSeq(parts) \in Seq(E)
    BY <2>1, <2>2, FlattenType
  <2> QED BY <2>3 DEF HookEvents, parts, E
<1>3. \A hook : Reports(FailureOf(hook, boundary), {"injected-cancel", "injected-crash"})
  BY OpenEnds DEF FailureOf, Reports, Labels, StopCodes
<1>4. Reports(NoFailure, {"injected-cancel", "injected-crash"})
  BY DEF Reports
<1> QED BY <1>2, <1>3, <1>4 DEF HookFailure

-----------------------------------------------------------------------------
\* The failures the harness can find in the operations.
Outcomes == {NoFailure} \cup {Failure(code, kind, label) :
                                 code \in StopCodes \cup {"K0100", "K0107"},
                                 kind \in Found, label \in Labels}

\* They are what the harness reports.
LEMMA OutcomesReport == \A f : f \in Outcomes <=> Reports(f, Found)
BY DEF Outcomes, Reports

Stores   == [acked : BOOLEAN, pending : BOOLEAN, durable : BOOLEAN]
Networks == [inFlight : BOOLEAN, dropped : BOOLEAN]

Terminals ==
  [obligations : Seq(Held), storage : Stores, network : Networks,
   transfers : Seq({"obligation-transfer"} \X Labels), failure : Outcomes]

\* The facades keep their flags.
LEMMA FacadeTypes ==
  /\ \A a : \A s \in Stores : NoteAction(s, a) \in Stores /\ StorageAfter(s, a) \in Stores
  /\ \A a : \A n \in Networks : NetworkAfter(n, a) \in Networks
<1>1. \A a : \A s \in Stores : NoteAction(s, a) \in Stores /\ StorageAfter(s, a) \in Stores
  BY DEF Stores, NoteAction, StorageAfter
<1>2. \A a : \A n \in Networks : NetworkAfter(n, a) \in Networks
  BY DEF Networks, NetworkAfter
<1> QED BY <1>1, <1>2

\* A turn of the harness's fold keeps the types.
LEMMA AppliedType ==
  ASSUME NEW h \in Terminals, NEW o \in Ops, NEW opts
  PROVE  Applied(h, o, opts) \in Terminals
<1>1. /\ h.obligations \in Seq(Held) /\ h.storage \in Stores /\ h.network \in Networks
      /\ h.transfers \in Seq({"obligation-transfer"} \X Labels) /\ h.failure \in Outcomes
  BY DEF Terminals
<1>2. o.op \in {"create", "discharge", "transfer", "unresolved"} => o.of \in Bindings
  BY OpFields
<1>3. ASSUME NEW g \in Terminals, NEW f, NEW kinds, kinds \subseteq Found, Reports(f, kinds)
      PROVE  FailWith(g, f) \in Terminals
  <2>1. FirstFailure(g.failure, f) \in Outcomes
    <3>1. Reports(g.failure, Found)
      BY OutcomesReport DEF Terminals
    <3> QED BY <1>3, <3>1, ReportsMore, ReportsFirst, OutcomesReport
  <2> QED BY <2>1 DEF FailWith, Terminals
<1>4. CASE o.op = "create"
  <2>1. Append(h.obligations, [binding |-> o.of, closed |-> FALSE]) \in Seq(Held)
    BY <1>1, <1>2, <1>4 DEF Held
  <2>2. Applied(h, o, opts) =
          [h EXCEPT !.obligations = Append(h.obligations, [binding |-> o.of, closed |-> FALSE])]
    BY <1>4 DEF Applied
  <2> QED BY <2>1, <2>2 DEF Terminals
<1>5. CASE o.op = "discharge"
  <2>1. /\ NoteAction(h.storage, o.by) \in Stores
        /\ Close(h.obligations, o.of, o.by, Declared) \in Seq(Held)
    BY <1>1, FacadeTypes, CloseType
  <2>2. Applied(h, o, opts) =
          [h EXCEPT !.storage = NoteAction(h.storage, o.by),
                    !.obligations = Close(h.obligations, o.of, o.by, Declared)]
    BY <1>5 DEF Applied, Terminals
  <2> QED BY <2>1, <2>2 DEF Terminals
<1>6. CASE o.op = "transfer"
  <2> DEFINE E == {"obligation-transfer"} \X Labels
  <2>1. <<"obligation-transfer", o.of>> \in E
    BY <1>2, <1>6 DEF Labels
  <2>2. Applied(h, o, opts) =
          [h EXCEPT !.transfers = Append(h.transfers, <<"obligation-transfer", o.of>>)]
    BY <1>6 DEF Applied
  <2> HIDE DEF E
  <2>3. Append(h.transfers, <<"obligation-transfer", o.of>>) \in Seq(E)
    BY <1>1, <2>1 DEF E
  <2> QED BY <2>2, <2>3 DEF Terminals, E
<1>7. CASE o.op = "unresolved"
  <2>1. Reports(Failure("K0100", "unresolved", o.of), {"unresolved"})
    BY <1>2, <1>7 DEF Reports, Labels
  <2>2. {"unresolved"} \subseteq Found
    BY DEF Found
  <2> QED BY <1>3, <1>7, <2>1, <2>2 DEF Applied
<1>8. CASE o.op = "effect"
  <2>1. Reports(ScheduleFailure(o.of, opts, h.obligations), {"scheduler-interleaving-leak"})
    BY <1>1, ReportedTypes
  <2>2. {"scheduler-interleaving-leak"} \subseteq Found
    BY DEF Found
  <2> QED BY <1>3, <1>8, <2>1, <2>2 DEF Applied
<1>9. CASE o.op = "storage"
  <2> DEFINE g == [h EXCEPT !.storage = StorageAfter(h.storage, o.of)]
  <2>1. g \in Terminals
    BY <1>1, FacadeTypes DEF Terminals
  <2>2. Reports(StorageFailure(StorageAfter(h.storage, o.of), o.of), {"lost-message"})
    BY <1>1, ReportedTypes
  <2>3. {"lost-message"} \subseteq Found
    BY DEF Found
  <2>4. Applied(h, o, opts) = FailWith(g, StorageFailure(StorageAfter(h.storage, o.of), o.of))
    BY <1>9 DEF Applied
  <2> HIDE DEF g
  <2> QED BY <1>3, <2>1, <2>2, <2>3, <2>4
<1>10. CASE o.op = "network"
  <2> DEFINE g == [h EXCEPT !.network = NetworkAfter(h.network, o.of)]
  <2>1. g \in Terminals
    BY <1>1, FacadeTypes DEF Terminals
  <2>2. Reports(NetworkFailure(h.network, o.of), {"network-delivery-failed"})
    BY <1>1, ReportedTypes
  <2>3. {"network-delivery-failed"} \subseteq Found
    BY DEF Found
  <2>4. Applied(h, o, opts) = FailWith(g, NetworkFailure(h.network, o.of))
    BY <1>10 DEF Applied
  <2> HIDE DEF g
  <2> QED BY <1>3, <2>1, <2>2, <2>3, <2>4
<1>11. CASE o.op \notin {"create", "discharge", "transfer", "unresolved", "effect", "storage",
                         "network"}
  BY <1>11 DEF Applied
<1> QED BY <1>4, <1>5, <1>6, <1>7, <1>8, <1>9, <1>10, <1>11

\* At the start it has them.
LEMMA NewTerminalType == NewTerminal \in Terminals
BY DEF NewTerminal, Terminals, NewStorage, NewNetwork, Stores, Networks, Outcomes

-----------------------------------------------------------------------------
\* What every operation prints in the harness.
LEMMA PartTypes ==
  ASSUME NEW p \in Seq(Ops), NEW opts \in Options, NEW i \in 1 .. Len(p)
  PROVE  Printed(p, i, opts) \in Seq(PlainEvents)
<1> DEFINE n == Len(p)
           E == PlainEvents
<1>1. n \in Nat /\ DOMAIN p = 1 .. n /\ p[i] \in Ops
  OBVIOUS
<1>2. opts.scheduler \in Schedulers
  BY DEF Options
<1>3. ASSUME p[i].op = "effect"
      PROVE  InstrumentedCall(p, i, opts) \in Seq(E)
  <2> DEFINE calls == EffectsOn(p, p[i].of)
             parts == [k \in 1 .. Cardinality(calls) |-> BoundaryEvents(p[i].of, opts)]
  <2>1. Cardinality(calls) \in Nat
    <3>1. calls \subseteq 1 .. n
      BY <1>1 DEF EffectsOn
    <3>2. IsFiniteSet(1 .. n)
      BY <1>1, FS_Interval
    <3> HIDE DEF calls
    <3> QED BY <3>1, <3>2, FS_Subset, FS_CardinalityType
  <2>2. BoundaryEvents(p[i].of, opts) \in Seq(E)
    BY <1>1, <1>2, <1>3, OpFields, PrintedTypes
  <2> HIDE DEF calls, E
  <2>3. parts \in [1 .. Cardinality(calls) -> Seq(E)]
    BY <2>2
  <2> HIDE DEF parts
  <2>4. FlattenSeq(parts) \in Seq(E)
    BY <2>1, <2>3, FlattenType
  <2>5. << >> \in Seq(E)
    OBVIOUS
  <2> QED BY <2>4, <2>5 DEF InstrumentedCall, calls, parts
<1>4. /\ p[i].op = "storage" => StorageEvents(p[i].of) \in Seq(E)
      /\ p[i].op = "network" => FacadeNetworkEvents(p[i].of) \in Seq(E)
  BY <1>1, <1>2, OpFields, PrintedTypes
<1>5. p[i].of \in OwnedPolicies => <<"boundary", p[i].of>> \in E
  BY DEF OwnedPolicies, Policies, PlainEvents, Plain, Labels
<1> HIDE DEF E
<1>6. << >> \in Seq(E) /\ (p[i].of \in OwnedPolicies => << <<"boundary", p[i].of>> >> \in Seq(E))
  BY <1>5
<1>7. Printed(p, i, opts) \in Seq(E)
  BY <1>3, <1>4, <1>6 DEF Printed
<1> QED BY <1>7 DEF E

\* What the target function prints in the harness.
LEMMA TargetTypes ==
  ASSUME NEW p \in Seq(Ops), NEW opts \in Options
  PROVE  TargetEvents(p, opts) \in Seq(PlainEvents)
<1> DEFINE n == Len(p)
           E == PlainEvents
<1>1. n \in Nat /\ DOMAIN p = 1 .. n
  OBVIOUS
<1>2. \A i \in 1 .. n : Printed(p, i, opts) \in Seq(E)
  BY PartTypes
<1>3. [i \in DOMAIN p |-> Printed(p, i, opts)] \in [1 .. n -> Seq(E)]
  BY <1>1, <1>2
<1> HIDE DEF n, E
<1>4. FlattenSeq([i \in DOMAIN p |-> Printed(p, i, opts)]) \in Seq(E)
  BY <1>1, <1>3, FlattenType
<1> QED BY <1>4 DEF TargetEvents, E

\* What the harness reports at the end.
LEMMA TerminalReports ==
  ASSUME NEW p \in Seq(Ops), NEW opts, Terminal(p, opts) \in Terminals
  PROVE  Reports(TerminalFailure(p, opts), Shared)
<1> DEFINE h == Terminal(p, opts)
<1>1. h.obligations \in Seq(Held) /\ Reports(h.failure, Shared)
  <2>1. Reports(h.failure, Found) /\ Found \subseteq Shared
    BY OutcomesReport DEF Terminals, Found, Shared, Reported
  <2> QED BY <2>1, ReportsMore DEF Terminals
<1>2. Reports(CancelAtEnd(h, p, opts), Shared)
  <2> DEFINE effects == {i \in DOMAIN p : p[i].op = "effect"}
  <2>1. OpenAt(h.obligations) # {} =>
          Reports(Failure("K0100", "injected-cancel", FirstOpen(h.obligations)), Shared)
    BY <1>1, OpenEnds DEF Reports, Shared, Reported, Labels
  <2>2. effects # {} =>
          Reports(Failure("K0100", "injected-cancel", p[LeastOf(effects)].of), Shared)
    <3> SUFFICES ASSUME effects # {}
                 PROVE  Reports(Failure("K0100", "injected-cancel", p[LeastOf(effects)].of), Shared)
      OBVIOUS
    <3>1. \E i \in effects : \A j \in effects : i <= j
      <4>1. effects \in SUBSET Nat
        OBVIOUS
      <4> QED BY <4>1, LeastNatural
    <3>2. LeastOf(effects) \in effects
      BY <3>1 DEF LeastOf
    <3>3. p[LeastOf(effects)] \in Ops /\ p[LeastOf(effects)].op = "effect"
      BY <3>2
    <3>4. p[LeastOf(effects)].of \in Labels
      BY <3>3, OpFields DEF Labels
    <3> HIDE DEF effects
    <3> QED BY <3>4 DEF Reports, Shared, Reported
  <2>3. Reports(NoFailure, Shared)
    BY DEF Reports
  <2> QED BY <2>1, <2>2, <2>3 DEF CancelAtEnd
<1>3. Reports(LeftOpen(h.obligations), Shared)
  <2>1. Reports(LeftOpen(h.obligations), {"obligation-left-open"})
    BY <1>1, ReportedTypes
  <2>2. {"obligation-left-open"} \subseteq Shared
    BY DEF Shared, Reported
  <2> QED BY <2>1, <2>2, ReportsMore
<1> HIDE DEF h
<1>4. Reports(FirstFailure(FirstFailure(h.failure, CancelAtEnd(h, p, opts)),
                           LeftOpen(h.obligations)), Shared)
  BY <1>1, <1>2, <1>3, ReportsFirst
<1> QED BY <1>4 DEF TerminalFailure, h

\* A trace ends with the events of the failure and of the scheduler; before them nothing but
\* these events is told.
Ended(trace, told, f, opts) ==
  \E body \in Seq(told) : trace = body \o f.events \o PortfolioEvents(opts)

\* The harness's trace does.
LEMMA HarnessEnded ==
  ASSUME NEW p \in Seq(Ops), NEW opts \in Options, Terminal(p, opts) \in Terminals
  PROVE  Ended(HarnessEvents(p, opts), PlainEvents, TerminalFailure(p, opts), opts)
<1> DEFINE E == PlainEvents
           body == TargetEvents(p, opts) \o Terminal(p, opts).transfers
<1>1. TargetEvents(p, opts) \in Seq(E)
  BY TargetTypes
<1>2. Terminal(p, opts).transfers \in Seq({"obligation-transfer"} \X Labels)
  BY DEF Terminals
<1>3. Terminal(p, opts).transfers \in Seq(E)
  <2>1. {"obligation-transfer"} \X Labels \subseteq E
    BY DEF PlainEvents, Plain
  <2> HIDE DEF E
  <2> QED BY <1>2, <2>1
<1> HIDE DEF E
<1>4. body \in Seq(E)
  BY <1>1, <1>3, JoinType
<1> QED BY <1>4 DEF Ended, HarnessEvents, E

-----------------------------------------------------------------------------
(***************************************************************************)
(* The inductive invariant: the types of the run, and how its two traces   *)
(* end.                                                                    *)
(***************************************************************************)

AllEvents == EventKinds \X Labels

Codes == StopCodes \cup {"none", "K0100", "K0107", "K0116", "K0117"}

ScenarioInv ==
  /\ shape \in Shapes /\ options \in shape.options
  /\ program \in Seq(Ops) /\ Len(program) <= shape.length
  /\ \A i \in DOMAIN program : program[i] \in shape.ops
  /\ obligations \in Seq(Held) /\ storage \in Stores /\ network \in Networks
  /\ injected \in BOOLEAN /\ opaque \in BOOLEAN
  /\ Terminal(program, options) \in Terminals

TraceInv ==
  /\ events \in Seq(AllEvents) /\ harness \in Seq(AllEvents)
  /\ failure \in [code : Codes, events : Seq(AllEvents)]
  /\ stage \in {"execute", "check", "compare", "done"}
  /\ agreement \in {"none", "semantic-only", "coverage-incomplete", "partial-boundary",
                    "matched", "diverged"}
  /\ guarantee \in {"none", "exact", "partial", "not_replayable"}
  /\ (stage = "execute") <=> (agreement = "none")
  /\ stage \in {"check", "compare"} => agreement = "semantic-only"
  /\ stage \in {"execute", "check"} => harness = << >>
  /\ harness # << >> => stage \in {"compare", "done"}
  /\ stage = "execute" => events \in Seq(ToldEvents) /\ Reports(failure, Reported)
  /\ stage \in {"check", "compare"} \/ agreement = "matched" =>
       Reports(failure, Reported) /\ Ended(events, ToldEvents, failure, options)
  /\ stage = "compare" \/ agreement \in {"matched", "diverged"} =>
       harness = HarnessEvents(program, options)
  /\ agreement = "matched" => events = harness

AgreeInv == ScenarioInv /\ TraceInv

\* The events of every kind are events.
LEMMA EventSets ==
  /\ PlainEvents \subseteq AllEvents /\ ToldEvents \subseteq AllEvents
  /\ Reported \X Labels \subseteq AllEvents /\ Shared \X Labels \subseteq AllEvents
  /\ {"portfolio"} \X Labels \subseteq AllEvents
<1>1. Boundaries \subseteq Labels
  BY DEF Labels
<1>2. /\ Plain \subseteq EventKinds /\ Hooked \subseteq EventKinds /\ Reported \subseteq EventKinds
      /\ "portfolio" \in EventKinds /\ Shared \subseteq Reported
  BY DEF Plain, Hooked, Reported, Shared, EventKinds
<1> HIDE DEF AllEvents
<1>3. \A kinds \in SUBSET EventKinds : \A labels \in SUBSET Labels : kinds \X labels \subseteq AllEvents
  BY DEF AllEvents
<1> QED BY <1>1, <1>2, <1>3 DEF PlainEvents, ToldEvents, HookedEvents

\* Sequences of some events are sequences of more.
LEMMA SeqMore ==
  ASSUME NEW some, NEW more, some \subseteq more, NEW s \in Seq(some)
  PROVE  s \in Seq(more)
OBVIOUS

\* What is reported is a failure with its events.
LEMMA ReportedIsFailure ==
  ASSUME NEW f, Reports(f, Reported)
  PROVE  f \in [code : Codes, events : Seq(AllEvents)]
<1>1. f.events \in Seq(AllEvents)
  <2>1. f.events \in Seq(Reported \X Labels)
    BY ReportedEvents
  <2> QED BY <2>1, EventSets, SeqMore
<1>2. CASE f = NoFailure
  BY <1>1, <1>2 DEF NoFailure, Codes
<1>3. CASE f # NoFailure
  BY <1>1, <1>3 DEF Reports, Failure, Codes
<1> QED BY <1>2, <1>3

\* A trace that has ended is one of events.
LEMMA EndedType ==
  ASSUME NEW t, NEW told, told \subseteq AllEvents, NEW f, f.events \in Seq(AllEvents),
         NEW opts \in Options, Ended(t, told, f, opts)
  PROVE  t \in Seq(AllEvents)
<1>1. PICK body \in Seq(told) : t = body \o f.events \o PortfolioEvents(opts)
  BY DEF Ended
<1>2. body \in Seq(AllEvents)
  BY SeqMore
<1>3. PortfolioEvents(opts) \in Seq(AllEvents)
  <2>1. PortfolioEvents(opts) \in Seq({"portfolio"} \X Labels)
    BY PrintedTypes DEF Options
  <2> QED BY <2>1, EventSets, SeqMore
<1> QED BY <1>1, <1>2, <1>3, JoinType

\* The options of a shape are options.
LEMMA OptionsType ==
  ASSUME ScenarioInv
  PROVE  options \in Options
BY ShapesAssumption DEF ScenarioInv, Shape

\* An operation keeps the invariant when it keeps the types, tells and reports.
LEMMA DrawKeepsAgree ==
  ASSUME AgreeInv, NEW o, Draw(o), harness' = harness,
         obligations' \in Seq(Held), storage' \in Stores, network' \in Networks,
         injected' \in BOOLEAN, opaque' \in BOOLEAN,
         events' \in Seq(ToldEvents), Reports(failure', Reported)
  PROVE  AgreeInv'
<1>1. /\ stage = "execute" /\ o \in shape.ops /\ o \in Ops /\ Len(program) < shape.length
      /\ program' = Append(program, o)
      /\ shape' = shape /\ options' = options /\ stage' = stage /\ agreement' = agreement
      /\ guarantee' = guarantee
  BY DEF Draw, result, Ops, AgreeInv, ScenarioInv
<1> DEFINE n == Len(program)
<1>2. /\ n \in Nat /\ DOMAIN program = 1 .. n /\ DOMAIN program' = 1 .. n + 1
      /\ \A k \in 1 .. n : program'[k] = program[k]
      /\ program'[n + 1] = o /\ Len(program') = n + 1
      /\ program' \in Seq(Ops)
  BY <1>1 DEF AgreeInv, ScenarioInv
<1> HIDE DEF n
<1>3. Terminal(program', options) \in Terminals
  <2>1. Terminal(program', options) = Applied(Terminal(program, options), o, options)
    BY <1>2, TerminalRule
  <2>2. Terminal(program, options) \in Terminals
    BY DEF AgreeInv, ScenarioInv
  <2> QED BY <1>1, <2>1, <2>2, AppliedType
<1>4. ScenarioInv'
  <2>1. shape.length \in Nat
    BY ShapesAssumption DEF AgreeInv, ScenarioInv, Shape
  <2>2. Len(program') <= shape.length
    BY <1>1, <1>2, <2>1 DEF n
  <2>3. \A i \in DOMAIN program' : program'[i] \in shape.ops
    <3>1. \A i \in 1 .. n + 1 : i \in 1 .. n \/ i = n + 1
      BY <1>2
    <3>2. \A i \in 1 .. n : program'[i] \in shape.ops
      BY <1>2 DEF AgreeInv, ScenarioInv
    <3> QED BY <1>1, <1>2, <3>1, <3>2
  <2> QED BY <1>1, <1>2, <1>3, <2>2, <2>3 DEF AgreeInv, ScenarioInv
<1>5. events' \in Seq(AllEvents)
  BY EventSets, SeqMore
<1>6. failure' \in [code : Codes, events : Seq(AllEvents)]
  BY ReportedIsFailure
<1>7. TraceInv'
  BY <1>1, <1>5, <1>6 DEF AgreeInv, TraceInv
<1> QED BY <1>4, <1>7 DEF AgreeInv

\* Every operation keeps the types, tells what it may tell and reports what it may report.
LEMMA OperationKeepsAgree ==
  ASSUME AgreeInv, Execute
  PROVE  AgreeInv'
<1>1. /\ harness' = harness /\ stage = "execute" /\ obligations \in Seq(Held)
      /\ storage \in Stores /\ network \in Networks /\ injected \in BOOLEAN /\ opaque \in BOOLEAN
      /\ events \in Seq(ToldEvents) /\ Reports(failure, Reported) /\ options \in Options
  BY OptionsType DEF Execute, ExecuteOperation, ExecuteCreate, ExecuteTransfer, ExecuteUnresolved,
     ExecuteDischarge, ExecuteEffect, ExecuteStorage, ExecuteNetwork, ExecuteExternal,
     ExecuteStop, Draw, AgreeInv, ScenarioInv, TraceInv
<1>2. \A e : e \in PlainEvents => e \in ToldEvents
  BY DEF ToldEvents
<1>3. \A t : t \in Seq(PlainEvents) => events \o t \in Seq(ToldEvents)
  <2> SUFFICES ASSUME NEW t \in Seq(PlainEvents) PROVE events \o t \in Seq(ToldEvents)
    OBVIOUS
  <2>1. t \in Seq(ToldEvents)
    BY <1>2, SeqMore
  <2> QED BY <1>1, <2>1, JoinType
<1>4. ASSUME NEW f, NEW kinds, kinds \subseteq Reported, Reports(f, kinds)
      PROVE  Reports(FirstFailure(failure, f), Reported)
  BY <1>1, <1>4, ReportsMore, ReportsFirst
<1>5. ASSUME NEW b \in Bindings, ExecuteCreate(b) PROVE AgreeInv'
  <2>1. [binding |-> b, closed |-> FALSE] \in Held
    BY DEF Held
  <2>2. obligations' \in Seq(Held)
    BY <1>1, <1>5, <2>1 DEF ExecuteCreate
  <2> QED BY <1>1, <1>5, <2>2, DrawKeepsAgree DEF ExecuteCreate
<1>6. ASSUME NEW b \in Bindings, ExecuteTransfer(b) PROVE AgreeInv'
  <2>1. <<"obligation-transfer", b>> \in ToldEvents
    BY DEF ToldEvents, PlainEvents, Plain, Labels
  <2>2. events' \in Seq(ToldEvents)
    BY <1>1, <1>6, <2>1 DEF ExecuteTransfer
  <2> QED BY <1>1, <1>6, <2>2, DrawKeepsAgree DEF ExecuteTransfer
<1>7. ASSUME NEW b \in Bindings, ExecuteUnresolved(b) PROVE AgreeInv'
  <2>1. Reports(Failure("K0100", "unresolved", b), {"unresolved"})
    BY DEF Reports, Labels
  <2>2. Reports(failure', Reported)
    BY <1>4, <1>7, <2>1 DEF ExecuteUnresolved, Reported
  <2> QED BY <1>1, <1>7, <2>2, DrawKeepsAgree DEF ExecuteUnresolved
<1>8. ASSUME NEW b \in Bindings, NEW a \in Declared \cup Exits, ExecuteDischarge(b, a)
      PROVE  AgreeInv'
  <2>1. obligations' \in Seq(Held) /\ storage' \in Stores
    BY <1>1, <1>8, CloseType, FacadeTypes DEF ExecuteDischarge
  <2> QED BY <1>1, <1>8, <2>1, DrawKeepsAgree DEF ExecuteDischarge
<1>9. ASSUME NEW boundary \in Boundaries, ExecuteEffect(boundary) PROVE AgreeInv'
  <2> DEFINE printed == BoundaryEvents(boundary, options)
             told    == IF injected THEN << >> ELSE HookEvents(boundary)
             late    == ScheduleFailure(boundary, options, obligations)
             hook    == IF injected THEN NoFailure ELSE HookFailure(boundary)
  <2>1. /\ Draw(Effect(boundary)) /\ events' = events \o printed \o told
        /\ failure' = FirstFailure(FirstFailure(failure, late), hook) /\ injected' = TRUE
        /\ UNCHANGED <<obligations, storage, network, opaque>>
    BY <1>9 DEF ExecuteEffect
  <2>2. printed \in Seq(PlainEvents)
    BY <1>1, PrintedTypes DEF Options
  <2>3. told \in Seq(ToldEvents)
    BY <1>1, HookTypes
  <2>4. Reports(late, {"scheduler-interleaving-leak"})
    BY <1>1, ReportedTypes
  <2>5. Reports(hook, {"injected-cancel", "injected-crash"})
    BY <1>1, HookTypes DEF Reports
  <2> HIDE DEF printed, told, late, hook
  <2>6. events' \in Seq(ToldEvents)
    <3>1. events \o printed \in Seq(ToldEvents)
      BY <1>3, <2>2
    <3> QED BY <2>1, <2>3, <3>1, JoinType
  <2>7. Reports(failure', Reported)
    <3>1. Reports(FirstFailure(failure, late), Reported)
      BY <1>4, <2>4 DEF Reported
    <3>2. Reports(hook, Reported)
      BY <2>5, ReportsMore DEF Reported
    <3> QED BY <2>1, <3>1, <3>2, ReportsFirst
  <2> QED BY <1>1, <2>1, <2>6, <2>7, DrawKeepsAgree
<1>10. ASSUME NEW action \in StorageActions, ExecuteStorage(action) PROVE AgreeInv'
  <2>1. StorageEvents(action) \in Seq(PlainEvents)
    BY <1>1, PrintedTypes DEF Options
  <2>2. Reports(StorageFailure(StorageAfter(storage, action), action), {"lost-message"})
    BY ReportedTypes, <1>1
  <2>3. Reports(failure', Reported) /\ events' \in Seq(ToldEvents) /\ storage' \in Stores
    BY <1>1, <1>3, <1>4, <1>10, <2>1, <2>2, FacadeTypes DEF ExecuteStorage, Reported
  <2> QED BY <1>1, <1>10, <2>3, DrawKeepsAgree DEF ExecuteStorage
<1>11. ASSUME NEW action \in NetworkActions, ExecuteNetwork(action) PROVE AgreeInv'
  <2>1. NetworkEvents(network, action) \in Seq(PlainEvents)
    BY <1>1, PrintedTypes DEF Options
  <2>2. Reports(NetworkFailure(network, action), {"network-delivery-failed"})
    BY ReportedTypes, <1>1
  <2>3. Reports(failure', Reported) /\ events' \in Seq(ToldEvents) /\ network' \in Networks
    BY <1>1, <1>3, <1>4, <1>11, <2>1, <2>2, FacadeTypes DEF ExecuteNetwork, Reported
  <2> QED BY <1>1, <1>11, <2>3, DrawKeepsAgree DEF ExecuteNetwork
<1>12. ASSUME NEW policy \in Policies, ExecuteExternal(policy) PROVE AgreeInv'
  <2>1. opaque' \in BOOLEAN
    BY <1>1, <1>12 DEF ExecuteExternal
  <2>2. <<"boundary", policy>> \in ToldEvents
    BY DEF ToldEvents, PlainEvents, Plain, Labels
  <2>3. Append(events, <<"boundary", policy>>) \in Seq(ToldEvents)
    BY <1>1, <2>2
  <2>4. events' \in Seq(ToldEvents)
    BY <1>1, <1>12, <2>3 DEF ExecuteExternal
  <2>5. Reports(Failure("K0107", "policy-required", policy), {"policy-required"})
    BY DEF Reports, Labels
  <2>6. Reports(FirstFailure(failure, Failure("K0107", "policy-required", policy)), Reported)
    BY <1>4, <2>5 DEF Reported
  <2>7. Reports(failure', Reported)
    BY <1>1, <1>12, <2>6 DEF ExecuteExternal
  <2> QED BY <1>1, <1>12, <2>1, <2>4, <2>7, DrawKeepsAgree DEF ExecuteExternal
<1>13. ASSUME NEW code \in StopCodes, ExecuteStop(code) PROVE AgreeInv'
  <2>1. Reports(Failure(code, "stop", code), {"stop"})
    BY DEF Reports, Labels
  <2>2. Reports(failure', Reported)
    BY <1>4, <1>13, <2>1 DEF ExecuteStop, Reported
  <2> QED BY <1>1, <1>13, <2>2, DrawKeepsAgree DEF ExecuteStop
<1> QED
  BY <1>5, <1>6, <1>7, <1>8, <1>9, <1>10, <1>11, <1>12, <1>13 DEF Execute, ExecuteOperation

\* The end of the scenario ends the trace.
LEMMA FinishKeepsAgree ==
  ASSUME AgreeInv, FinishExecution
  PROVE  AgreeInv'
<1> DEFINE verdict == FirstFailure(failure, LeftOpen(obligations))
<1>1. /\ stage = "execute" /\ stage' = "check" /\ agreement' = "semantic-only"
      /\ failure' = verdict /\ events' = events \o verdict.events \o PortfolioEvents(options)
      /\ guarantee' \in {"none", "exact", "partial", "not_replayable"}
      /\ harness' = harness
      /\ UNCHANGED <<shape, options, program, obligations, storage, network, injected, opaque>>
  BY DEF FinishExecution, Finish, FinishAs, GuaranteeOf
<1>2. Reports(verdict, Reported)
  <2>1. Reports(failure, Reported) /\ obligations \in Seq(Held)
    BY <1>1 DEF AgreeInv, ScenarioInv, TraceInv
  <2>2. Reports(LeftOpen(obligations), {"obligation-left-open"})
    BY <2>1, ReportedTypes
  <2>3. Reports(LeftOpen(obligations), Reported)
    BY <2>2, ReportsMore DEF Reported
  <2> QED BY <2>1, <2>3, ReportsFirst
<1> HIDE DEF verdict
<1>3. Ended(events', ToldEvents, verdict, options)
  BY <1>1 DEF Ended, AgreeInv, TraceInv
<1>4. verdict \in [code : Codes, events : Seq(AllEvents)]
  BY <1>2, ReportedIsFailure
<1>5. events' \in Seq(AllEvents)
  <2>1. options \in Options /\ ToldEvents \subseteq AllEvents /\ verdict.events \in Seq(AllEvents)
    BY <1>4, OptionsType, EventSets DEF AgreeInv
  <2> QED BY <1>3, <2>1, EndedType
<1>6. ScenarioInv'
  BY <1>1 DEF AgreeInv, ScenarioInv
<1>7. TraceInv'
  BY <1>1, <1>2, <1>3, <1>4, <1>5 DEF AgreeInv, TraceInv
<1> QED BY <1>6, <1>7 DEF AgreeInv

\* The generated harness prints events.
LEMMA HarnessTypes ==
  ASSUME ScenarioInv
  PROVE  /\ Ended(HarnessEvents(program, options), PlainEvents, TerminalFailure(program, options),
                  options)
         /\ Reports(TerminalFailure(program, options), Shared)
         /\ HarnessEvents(program, options) \in Seq(AllEvents)
<1>1. program \in Seq(Ops) /\ options \in Options /\ Terminal(program, options) \in Terminals
  BY OptionsType DEF ScenarioInv
<1>2. Ended(HarnessEvents(program, options), PlainEvents, TerminalFailure(program, options),
            options)
  BY <1>1, HarnessEnded
<1>3. Reports(TerminalFailure(program, options), Shared)
  BY <1>1, TerminalReports
<1>4. TerminalFailure(program, options).events \in Seq(AllEvents)
  <2>1. TerminalFailure(program, options).events \in Seq(Shared \X Labels)
    BY <1>3, ReportedEvents
  <2> QED BY <2>1, EventSets, SeqMore
<1>5. PlainEvents \subseteq AllEvents
  BY EventSets
<1> QED BY <1>1, <1>2, <1>3, <1>4, <1>5, EndedType

\* The comparison of the two engines.
LEMMA ComparisonKeepsAgree ==
  ASSUME AgreeInv, CheckAgreement
  PROVE  AgreeInv'
<1>1. /\ ScenarioInv /\ TraceInv
      /\ UNCHANGED <<shape, options, program, obligations, storage, network, injected, opaque>>
  BY DEF AgreeInv, CheckAgreement, SemanticOnly, SkipHarness, CoverageIncomplete, LifecycleOnly,
         BoundaryPartial, RunHarness, Matched, Diverged, Settled, engine
<1>2. ScenarioInv'
  BY <1>1 DEF ScenarioInv
<1>3. CASE SemanticOnly \/ SkipHarness \/ LifecycleOnly \/ BoundaryPartial
  <2>1. /\ stage = "check" /\ stage' = "done" /\ UNCHANGED <<failure, events, harness>>
        /\ agreement' \in {agreement, "semantic-only", "partial-boundary"}
        /\ guarantee' \in {guarantee, "partial"}
    BY <1>3 DEF SemanticOnly, SkipHarness, LifecycleOnly, BoundaryPartial, WithHarness, Settled
  <2>2. TraceInv'
    BY <1>1, <2>1 DEF TraceInv
  <2> QED BY <1>2, <2>2 DEF AgreeInv
<1>4. CASE CoverageIncomplete
  <2>1. /\ stage = "check" /\ stage' = "done" /\ UNCHANGED <<events, harness>>
        /\ agreement' = "coverage-incomplete" /\ guarantee' = "partial"
        /\ failure' = [code |-> "K0116", events |-> << >>]
    BY <1>4 DEF CoverageIncomplete, WithHarness, Settled
  <2>2. failure' \in [code : Codes, events : Seq(AllEvents)]
    BY <2>1 DEF Codes
  <2>3. TraceInv'
    BY <1>1, <2>1, <2>2 DEF TraceInv
  <2> QED BY <1>2, <2>3 DEF AgreeInv
<1>5. CASE RunHarness
  <2>1. /\ stage = "check" /\ stage' = "compare" /\ harness' = HarnessEvents(program, options)
        /\ UNCHANGED <<events, failure, agreement, guarantee>>
    BY <1>5 DEF RunHarness, WithHarness, engine
  <2>2. harness' \in Seq(AllEvents)
    BY <1>1, <2>1, HarnessTypes
  <2>3. TraceInv'
    BY <1>1, <2>1, <2>2 DEF TraceInv
  <2> QED BY <1>2, <2>3 DEF AgreeInv
<1>6. CASE Matched
  <2>1. /\ stage = "compare" /\ stage' = "done" /\ events = harness
        /\ UNCHANGED <<events, failure, harness>> /\ agreement' = "matched"
        /\ guarantee' \in {"not_replayable", "exact"}
    BY <1>6 DEF Matched, Settled
  <2>2. TraceInv'
    BY <1>1, <2>1 DEF TraceInv
  <2> QED BY <1>2, <2>2 DEF AgreeInv
<1>7. CASE Diverged
  <2>1. /\ stage = "compare" /\ stage' = "done" /\ harness' = harness /\ agreement' = "diverged"
        /\ guarantee' = "not_replayable" /\ events' = events \o harness
        /\ failure' = FirstFailure(failure, [code |-> "K0117", events |-> harness])
    BY <1>7 DEF Diverged, Settled
  <2>2. /\ events \in Seq(AllEvents) /\ harness \in Seq(AllEvents)
        /\ failure \in [code : Codes, events : Seq(AllEvents)]
    BY <1>1 DEF TraceInv
  <2>3. events' \in Seq(AllEvents)
    BY <2>1, <2>2, JoinType
  <2>4. failure' \in [code : Codes, events : Seq(AllEvents)]
    <3>1. [code |-> "K0117", events |-> harness] \in [code : Codes, events : Seq(AllEvents)]
      BY <2>2 DEF Codes
    <3> QED BY <2>1, <2>2, <3>1 DEF FirstFailure
  <2>5. TraceInv'
    BY <1>1, <2>1, <2>3, <2>4 DEF TraceInv
  <2> QED BY <1>2, <2>5 DEF AgreeInv
<1> QED BY <1>3, <1>4, <1>5, <1>6, <1>7 DEF CheckAgreement

\* Every step keeps the invariant.
LEMMA AgreeInvInductive == AgreeInv /\ [Next]_vars => AgreeInv'
<1>1. ASSUME AgreeInv, UNCHANGED vars PROVE AgreeInv'
  <2>1. UNCHANGED <<shape, options, program, events, obligations, storage, network, failure,
                    injected, opaque, stage, agreement, guarantee, harness>>
    BY <1>1 DEF vars, semanticVars, engine, result
  <2>2. ScenarioInv'
    BY <1>1, <2>1 DEF AgreeInv, ScenarioInv
  <2>3. TraceInv'
    BY <1>1, <2>1 DEF AgreeInv, TraceInv
  <2> QED BY <2>2, <2>3 DEF AgreeInv
<1> QED BY <1>1, OperationKeepsAgree, FinishKeepsAgree, ComparisonKeepsAgree DEF Next

\* It holds at the start.
LEMMA AgreeInvInitial == Init => AgreeInv
<1> SUFFICES ASSUME Init PROVE AgreeInv
  OBVIOUS
<1>1. /\ shape \in Shapes /\ options \in shape.options /\ program = << >> /\ events = << >>
      /\ obligations = << >> /\ storage = NewStorage /\ network = NewNetwork
      /\ failure = NoFailure /\ injected = FALSE /\ opaque = FALSE /\ stage = "execute"
      /\ agreement = "none" /\ guarantee = "none" /\ harness = << >>
  BY DEF Init, SemanticInit
<1>2. shape.length \in Nat
  BY <1>1, ShapesAssumption DEF Shape
<1>3. Terminal(program, options) \in Terminals
  BY <1>1, TerminalStart, NewTerminalType
<1>4. ScenarioInv
  <2>1. program \in Seq(Ops) /\ Len(program) = 0 /\ DOMAIN program = {} /\ obligations \in Seq(Held)
    BY <1>1
  <2>2. storage \in Stores /\ network \in Networks
    BY <1>1 DEF NewStorage, NewNetwork, Stores, Networks
  <2>3. Len(program) <= shape.length /\ \A i \in DOMAIN program : program[i] \in shape.ops
    BY <1>2, <2>1
  <2> QED BY <1>1, <1>3, <2>1, <2>2, <2>3 DEF ScenarioInv
<1>5. Reports(failure, Reported) /\ failure \in [code : Codes, events : Seq(AllEvents)]
  BY <1>1, ReportedIsFailure DEF Reports
<1>6. TraceInv
  BY <1>1, <1>5 DEF TraceInv
<1> QED BY <1>4, <1>6 DEF AgreeInv

\* Traces and failures have the types that are checked.
LEMMA AgreeTypes == AgreeInv => TypeOK
<1> SUFFICES ASSUME AgreeInv PROVE TypeOK
  OBVIOUS
<1>1. \A t \in Seq(AllEvents) : IsTrace(t)
  BY DEF AllEvents, IsTrace
<1>2. IsTrace(events) /\ IsTrace(harness)
  BY <1>1 DEF AgreeInv, TraceInv
<1>3. IsFailure(failure)
  <2>1. failure \in [code : Codes, events : Seq(AllEvents)]
    BY DEF AgreeInv, TraceInv
  <2> QED BY <1>1, <2>1 DEF IsFailure, Codes
<1>4. \A i \in DOMAIN obligations : obligations[i] \in [binding : Bindings, closed : BOOLEAN]
  <2>1. obligations \in Seq(Held)
    BY DEF AgreeInv, ScenarioInv
  <2>2. \A i \in DOMAIN obligations : obligations[i] \in Held
    BY <2>1
  <2> QED BY <2>2 DEF Held
<1>5. /\ shape \in Shapes /\ options \in shape.options
      /\ Len(program) <= shape.length /\ \A i \in DOMAIN program : program[i] \in shape.ops
      /\ storage \in Stores /\ network \in Networks /\ injected \in BOOLEAN /\ opaque \in BOOLEAN
  BY DEF AgreeInv, ScenarioInv
<1>6. /\ stage \in {"execute", "check", "compare", "done"}
      /\ agreement \in {"none", "semantic-only", "coverage-incomplete", "partial-boundary",
                        "matched", "diverged"}
      /\ guarantee \in {"none", "exact", "partial", "not_replayable"}
      /\ (stage = "execute") <=> (agreement = "none")
      /\ harness # << >> => stage \in {"compare", "done"}
  BY DEF AgreeInv, TraceInv
<1> QED BY <1>2, <1>3, <1>4, <1>5, <1>6 DEF TypeOK, Stores, Networks

\* The types of a run, for scenarios of any length: TypeOK.
THEOREM AgreementTypeCorrect == Spec => []TypeOK
BY AgreeInvInitial, AgreeInvInductive, AgreeTypes, PTL DEF Spec

-----------------------------------------------------------------------------
(***************************************************************************)
(* What two equal traces say.  Both end with the scheduler's event, and    *)
(* before it comes the failure: its event is of a kind that is told        *)
(* nowhere else, but for the cancellation of an effect.                    *)
(***************************************************************************)

\* The event before the last one of a trace that has ended.
LEMMA LastButOne ==
  ASSUME NEW S, NEW body \in Seq(S), NEW told \in Seq(S), NEW last \in S,
         NEW t, t = body \o told \o << last >>
  PROVE  /\ Len(t) = Len(body) + Len(told) + 1
         /\ Len(told) = 1 => t[Len(t) - 1] = told[1]
         /\ Len(told) = 0 /\ Len(body) # 0 => t[Len(t) - 1] = body[Len(body)]
<1> DEFINE both == body \o told
<1>1. both \in Seq(S) /\ Len(both) = Len(body) + Len(told)
  OBVIOUS
<1>2. \A i \in 1 .. Len(both) :
        both[i] = IF i <= Len(body) THEN body[i] ELSE told[i - Len(body)]
  OBVIOUS
<1>3. Len(told) \in Nat /\ Len(body) \in Nat
  OBVIOUS
<1> DEFINE tail == << last >>
<1>4. t = both \o tail /\ tail \in Seq(S) /\ Len(tail) = 1
  OBVIOUS
<1> HIDE DEF both, tail
<1>5. Len(t) = Len(both) + 1
  BY <1>1, <1>4
<1>6. \A i \in 1 .. Len(both) : t[i] = both[i]
  BY <1>1, <1>4
<1> QED BY <1>1, <1>2, <1>3, <1>5, <1>6

\* Equal traces tell the same failure, or a cancellation only the harness takes for one.
LEMMA EndsAgree ==
  ASSUME NEW t, NEW opts, NEW f, NEW g,
         Ended(t, ToldEvents, f, opts), Reports(f, Reported),
         Ended(t, PlainEvents, g, opts), Reports(g, Shared)
  PROVE  \/ f.events = g.events
         \/ /\ f = NoFailure
            /\ \E boundary \in Boundaries : g.events = << <<"injected-cancel", boundary>> >>
<1> DEFINE last == <<"portfolio", opts.scheduler>>
<1>0. PortfolioEvents(opts) = << last >>
  BY DEF PortfolioEvents
<1> HIDE DEF last
<1>1. PICK told : told \in Seq(ToldEvents) /\ t = told \o f.events \o << last >>
  BY <1>0 DEF Ended
<1>2. PICK plain : plain \in Seq(PlainEvents) /\ t = plain \o g.events \o << last >>
  BY <1>0 DEF Ended
<1>3. /\ told \in Seq(AllEvents) /\ plain \in Seq(AllEvents)
      /\ Len(told) \in Nat /\ Len(plain) \in Nat
  BY <1>1, <1>2, EventSets, SeqMore
<1>4. /\ f = NoFailure => f.events = << >>
      /\ f # NoFailure => \E e \in Reported \X Labels : f.events = << e >>
      /\ g = NoFailure => g.events = << >>
      /\ g # NoFailure => \E e \in Shared \X Labels : g.events = << e >>
  BY ReportedEvents
<1>5. f.events \in Seq(AllEvents) /\ g.events \in Seq(AllEvents)
  <2>1. f.events \in Seq(Reported \X Labels) /\ g.events \in Seq(Shared \X Labels)
    BY ReportedEvents
  <2> QED BY <2>1, EventSets, SeqMore
<1> DEFINE S == AllEvents \cup {last}
<1>6. /\ told \in Seq(S) /\ plain \in Seq(S) /\ f.events \in Seq(S) /\ g.events \in Seq(S)
      /\ last \in S
  <2>1. AllEvents \subseteq S
    OBVIOUS
  <2> HIDE DEF S
  <2>2. \A q \in Seq(AllEvents) : q \in Seq(S)
    BY <2>1, SeqMore
  <2> QED BY <1>3, <1>5, <2>2 DEF S
<1> HIDE DEF S
<1>7. /\ /\ Len(t) = Len(told) + Len(f.events) + 1
         /\ Len(f.events) = 1 => t[Len(t) - 1] = f.events[1]
         /\ Len(f.events) = 0 /\ Len(told) # 0 => t[Len(t) - 1] = told[Len(told)]
      /\ /\ Len(t) = Len(plain) + Len(g.events) + 1
         /\ Len(g.events) = 1 => t[Len(t) - 1] = g.events[1]
         /\ Len(g.events) = 0 /\ Len(plain) # 0 => t[Len(t) - 1] = plain[Len(plain)]
  <2>1. \A body \in Seq(S), said \in Seq(S) :
          t = body \o said \o << last >> =>
            /\ Len(t) = Len(body) + Len(said) + 1
            /\ Len(said) = 1 => t[Len(t) - 1] = said[1]
            /\ Len(said) = 0 /\ Len(body) # 0 => t[Len(t) - 1] = body[Len(body)]
    BY <1>6, LastButOne
  <2> QED BY <1>1, <1>2, <1>6, <2>1
<1>8. \A e : Len(<< e >>) = 1 /\ << e >>[1] = e /\ Len(<< >>) = 0
  OBVIOUS
<1>9. CASE f # NoFailure /\ g # NoFailure
  <2>1. PICK e : f.events = << e >>
    BY <1>4, <1>9
  <2>2. PICK d : g.events = << d >>
    BY <1>4, <1>9
  <2>3. e = d
    BY <1>7, <1>8, <2>1, <2>2
  <2> QED BY <2>1, <2>2, <2>3
<1>10. CASE f # NoFailure /\ g = NoFailure
  <2>1. PICK e : e \in Reported \X Labels /\ f.events = << e >>
    BY <1>4, <1>10
  <2>2. Len(f.events) = 1 /\ f.events[1] = e /\ Len(g.events) = 0
    BY <1>4, <1>8, <1>10, <2>1
  <2>3. Len(plain) = Len(told) + 1
    BY <1>3, <1>7, <2>2
  <2>4. plain[Len(plain)] = e /\ plain[Len(plain)] \in PlainEvents
    <3>1. plain[Len(plain)] = e
      BY <1>3, <1>7, <2>2, <2>3
    <3>2. plain \in Seq(PlainEvents) /\ Len(plain) # 0
      BY <1>2, <1>3, <2>3
    <3>3. plain[Len(plain)] \in PlainEvents
      BY <3>2
    <3> QED BY <3>1, <3>3
  <2>5. e[1] \in Reported /\ e[1] \in Plain
    BY <2>1, <2>4 DEF PlainEvents
  <2> QED BY <2>5 DEF Reported, Plain
<1>11. CASE f = NoFailure /\ g # NoFailure
  <2>1. PICK e : e \in Shared \X Labels /\ g.events = << e >>
    BY <1>4, <1>11
  <2>2. Len(g.events) = 1 /\ g.events[1] = e /\ Len(f.events) = 0
    BY <1>4, <1>8, <1>11, <2>1
  <2>3. Len(told) = Len(plain) + 1
    BY <1>3, <1>7, <2>2
  <2>4. told[Len(told)] = e /\ told[Len(told)] \in ToldEvents
    <3>1. told[Len(told)] = e
      BY <1>3, <1>7, <2>2, <2>3
    <3>2. told \in Seq(ToldEvents) /\ Len(told) # 0
      BY <1>1, <1>3, <2>3
    <3>3. told[Len(told)] \in ToldEvents
      BY <3>2
    <3> QED BY <3>1, <3>3
  <2>5. e[1] \in Shared /\ (e[1] \in Plain \/ (e[1] \in Hooked /\ e[2] \in Boundaries))
        /\ e = <<e[1], e[2]>>
    BY <2>1, <2>4 DEF ToldEvents, PlainEvents, HookedEvents
  <2>6. e[1] = "injected-cancel" /\ e[2] \in Boundaries
    BY <2>5 DEF Shared, Reported, Plain, Hooked
  <2> QED BY <1>11, <2>1, <2>5, <2>6
<1>12. CASE f = NoFailure /\ g = NoFailure
  BY <1>4, <1>12
<1> QED BY <1>9, <1>10, <1>11, <1>12

\* When the traces agree the two engines have found the same failure: VerdictConfirmed, for
\* scenarios of any length and any options.
LEMMA AgreeConfirms == AgreeInv => VerdictConfirmed
<1> SUFFICES ASSUME AgreeInv, agreement = "matched"
             PROVE  VerdictConfirmed
  BY DEF VerdictConfirmed
<1>1. /\ Reports(failure, Reported) /\ Ended(events, ToldEvents, failure, options)
      /\ events = HarnessEvents(program, options) /\ ScenarioInv
  BY DEF AgreeInv, TraceInv
<1>2. /\ Ended(events, PlainEvents, TerminalFailure(program, options), options)
      /\ Reports(TerminalFailure(program, options), Shared)
  BY <1>1, HarnessTypes
<1> QED BY <1>1, <1>2, EndsAgree DEF VerdictConfirmed

\* The engines never agree on a trace and differ on the verdict: VerdictConfirmed.
THEOREM MatchedVerdictIsConfirmed == Spec => []VerdictConfirmed
BY AgreeInvInitial, AgreeInvInductive, AgreeConfirms, PTL DEF Spec

-----------------------------------------------------------------------------
(***************************************************************************)
(* Which obligations the harness leaves open.  Every creation after a      *)
(* point of the program has a declared discharge after it, or is still     *)
(* open: this is what one operation preserves.                             *)
(***************************************************************************)

\* The operations from the i-th on that are among these.
At(p, i, ops)  == {j \in i .. Len(p) : p[j] \in ops}
Closings(b)    == {Discharge(b, a) : a \in Declared}
OpenOf(obl, b) == {k \in OpenAt(obl) : obl[k].binding = b}

Accounted(p, obl) ==
  \A b \in Bindings : \A i \in Nat \ {0} :
    Cardinality(At(p, i, {Create(b)})) <= Cardinality(At(p, i, Closings(b)))
                                            + Cardinality(OpenOf(obl, b))

\* So many of them.
LEMMA CountType ==
  ASSUME NEW p \in Seq(Ops), NEW i \in Nat \ {0}, NEW ops
  PROVE  /\ IsFiniteSet(At(p, i, ops)) /\ Cardinality(At(p, i, ops)) \in Nat
         /\ At(p, i, ops) \subseteq 1 .. Len(p)
<1>1. At(p, i, ops) \subseteq 1 .. Len(p) /\ Len(p) \in Nat /\ IsFiniteSet(1 .. Len(p))
  BY FS_Interval DEF At
<1> QED BY <1>1, FS_Subset, FS_CardinalityType

\* One more operation counts from every point before it.
LEMMA OneMore ==
  ASSUME NEW p \in Seq(Ops), NEW o \in Ops, NEW i \in Nat \ {0}, NEW ops
  PROVE  Cardinality(At(Append(p, o), i, ops))
           = Cardinality(At(p, i, ops)) + IF i <= Len(p) + 1 /\ o \in ops THEN 1 ELSE 0
<1> DEFINE n == Len(p)
           q == Append(p, o)
           s == At(p, i, ops)
           t == At(q, i, ops)
<1>1. n \in Nat /\ Len(q) = n + 1 /\ q[n + 1] = o /\ \A j \in 1 .. n : q[j] = p[j]
  OBVIOUS
<1>2. IsFiniteSet(s) /\ Cardinality(s) \in Nat /\ n + 1 \notin s
  <2>1. n + 1 \notin 1 .. n
    BY <1>1
  <2> QED BY <2>1, CountType
<1>3. \A j : j \in t <=> j \in s \/ (j = n + 1 /\ i <= n + 1 /\ o \in ops)
  <2> SUFFICES ASSUME NEW j
               PROVE  j \in t <=> j \in s \/ (j = n + 1 /\ i <= n + 1 /\ o \in ops)
    OBVIOUS
  <2>1. j \in i .. n + 1 <=> j \in i .. n \/ (j = n + 1 /\ i <= n + 1)
    BY <1>1
  <2>2. j \in i .. n => q[j] = p[j] /\ j # n + 1
    BY <1>1
  <2>3. j \in t <=> j \in i .. n + 1 /\ q[j] \in ops
    BY <1>1 DEF At
  <2>4. j \in s <=> j \in i .. n /\ p[j] \in ops
    BY DEF At
  <2> HIDE DEF q, s, t, n
  <2> QED BY <1>1, <2>1, <2>2, <2>3, <2>4
<1> HIDE DEF s, t
<1>4. CASE i <= n + 1 /\ o \in ops
  <2>1. t = s \cup {n + 1}
    BY <1>3, <1>4
  <2> QED BY <1>2, <1>4, <2>1, FS_AddElement DEF s, t, n, q
<1>5. CASE ~(i <= n + 1 /\ o \in ops)
  <2>1. t = s
    BY <1>3, <1>5
  <2> QED BY <1>2, <1>5, <2>1 DEF s, t, n, q
<1> QED BY <1>4, <1>5

\* The obligations of a binding that are open are so many.
LEMMA OpenCount ==
  ASSUME NEW obl \in Seq(Held), NEW b
  PROVE  /\ OpenOf(obl, b) \in SUBSET (1 .. Len(obl)) /\ IsFiniteSet(OpenOf(obl, b))
         /\ Cardinality(OpenOf(obl, b)) \in Nat
<1>1. OpenOf(obl, b) \subseteq 1 .. Len(obl) /\ Len(obl) \in Nat /\ IsFiniteSet(1 .. Len(obl))
  BY FS_Interval DEF OpenOf, OpenAt
<1> QED BY <1>1, FS_Subset, FS_CardinalityType

\* A creation opens one more.
LEMMA CreateOpens ==
  ASSUME NEW obl \in Seq(Held), NEW b, NEW c \in Bindings
  PROVE  LET new == Append(obl, [binding |-> c, closed |-> FALSE])
         IN  Cardinality(OpenOf(new, b)) =
               Cardinality(OpenOf(obl, b)) + IF b = c THEN 1 ELSE 0
<1> DEFINE n == Len(obl)
           one == [binding |-> c, closed |-> FALSE]
           new == Append(obl, one)
           s == OpenOf(obl, b)
           t == OpenOf(new, b)
<1>1. one \in Held /\ one.binding = c /\ one.closed = FALSE
  BY DEF Held
<1> HIDE DEF one
<1>2. /\ n \in Nat /\ DOMAIN obl = 1 .. n /\ DOMAIN new = 1 .. n + 1
      /\ new[n + 1] = one /\ \A k \in 1 .. n : new[k] = obl[k]
  BY <1>1
<1>3. IsFiniteSet(s) /\ Cardinality(s) \in Nat /\ s \subseteq 1 .. n
  BY OpenCount
<1>4. n + 1 \notin s /\ \A k : k \in 1 .. n + 1 <=> k \in 1 .. n \/ k = n + 1
  BY <1>2, <1>3
<1> HIDE DEF n, new
<1>5. \A k : k \in t <=> k \in s \/ (k = n + 1 /\ b = c)
  BY <1>1, <1>2, <1>4 DEF OpenOf, OpenAt
<1> HIDE DEF s, t
<1>6. CASE b = c
  <2>1. t = s \cup {n + 1}
    BY <1>5, <1>6
  <2>2. Cardinality(t) = Cardinality(s) + 1
    BY <1>3, <1>4, <2>1, FS_AddElement
  <2> QED BY <1>6, <2>2 DEF s, t, new, one
<1>7. CASE b # c
  <2>1. t = s
    BY <1>5, <1>7
  <2> QED BY <1>3, <1>7, <2>1 DEF s, t, new, one
<1> QED BY <1>6, <1>7

\* A discharge closes at most one, of its binding, and only by an accepted action.
LEMMA CloseCloses ==
  ASSUME NEW obl \in Seq(Held), NEW b, NEW c, NEW a, NEW accepted
  PROVE  LET new == Close(obl, c, a, accepted)
         IN  /\ Cardinality(OpenOf(new, b)) \in Nat
             /\ Cardinality(OpenOf(obl, b)) <=
                  Cardinality(OpenOf(new, b)) + IF b = c /\ a \in accepted THEN 1 ELSE 0
<1> DEFINE open == OpenOf(obl, c)
           at == GreatestOf(open)
           new == Close(obl, c, a, accepted)
<1>1. open = {i \in OpenAt(obl) : obl[i].binding = c}
  BY DEF OpenOf
<1>2. new = IF open # {} /\ a \in accepted THEN [obl EXCEPT ![at].closed = TRUE] ELSE obl
  BY <1>1 DEF Close
<1>3. new \in Seq(Held)
  BY CloseType
<1>4. /\ IsFiniteSet(OpenOf(obl, b)) /\ Cardinality(OpenOf(obl, b)) \in Nat
      /\ IsFiniteSet(OpenOf(new, b)) /\ Cardinality(OpenOf(new, b)) \in Nat
  <2> HIDE DEF new
  <2> QED BY <1>3, OpenCount
<1>5. CASE open = {} \/ a \notin accepted
  <2>1. new = obl
    BY <1>2, <1>5
  <2> QED BY <1>4, <2>1
<1>6. CASE open # {} /\ a \in accepted
  <2>1. open \in SUBSET (1 .. Len(obl)) /\ Len(obl) \in Nat
    BY OpenCount
  <2>2. at \in open
    <3> HIDE DEF open
    <3> QED BY <1>6, <2>1, EndPositions
  <2>3. at \in DOMAIN obl /\ obl[at].binding = c
    BY <2>2 DEF OpenOf, OpenAt
  <2>4. DOMAIN obl = 1 .. Len(obl) /\ \A k \in DOMAIN obl : obl[k] \in Held
    OBVIOUS
  <2> HIDE DEF at, open
  <2>5. new = [obl EXCEPT ![at].closed = TRUE]
    BY <1>2, <1>6
  <2> HIDE DEF new
  <2>6. /\ DOMAIN new = DOMAIN obl
        /\ \A k \in DOMAIN obl : k # at => new[k] = obl[k]
        /\ new[at].binding = c
    BY <2>3, <2>4, <2>5 DEF Held
  <2>7. \A k \in OpenOf(obl, b) : k # at => k \in OpenOf(new, b)
    BY <2>6 DEF OpenOf, OpenAt
  <2>8. CASE b = c
    <3> DEFINE more == OpenOf(new, b) \cup {at}
    <3>1. OpenOf(obl, b) \subseteq more
      BY <2>7
    <3> DEFINE same == OpenOf(new, b)
    <3>0. more = same \cup {at} /\ IsFiniteSet(same) /\ Cardinality(same) \in Nat
      BY <1>4
    <3> HIDE DEF more, same
    <3>2. IsFiniteSet(more) /\ Cardinality(more) \in Nat
          /\ Cardinality(more) <= Cardinality(same) + 1
      <4>1. CASE at \in same
        <5>1. more = same
          BY <3>0, <4>1
        <5>2. IsFiniteSet(more) /\ Cardinality(more) = Cardinality(same)
          BY <3>0, <5>1, Zenon
        <5>3. Cardinality(same) \in Nat
          BY <3>0
        <5> QED BY <5>2, <5>3
      <4>2. CASE at \notin same
        <5>1. IsFiniteSet(more) /\ Cardinality(more) = Cardinality(same) + 1
          BY <3>0, <4>2, FS_AddElement
        <5> QED BY <3>0, <5>1
      <4> QED BY <4>1, <4>2
    <3>3. Cardinality(OpenOf(obl, b)) <= Cardinality(more)
      BY <3>1, <3>2, FS_Subset
    <3>4. Cardinality(OpenOf(obl, b)) <= Cardinality(OpenOf(new, b)) + 1
      BY <1>4, <3>2, <3>3 DEF same
    <3> QED BY <1>4, <1>6, <2>8, <3>4 DEF new
  <2>9. CASE b # c
    <3>1. at \notin OpenOf(obl, b)
      BY <2>3, <2>9 DEF OpenOf
    <3>2. OpenOf(obl, b) \subseteq OpenOf(new, b)
      BY <2>7, <3>1
    <3>3. Cardinality(OpenOf(obl, b)) <= Cardinality(OpenOf(new, b))
      BY <1>4, <3>2, FS_Subset
    <3> QED BY <1>4, <2>9, <3>3 DEF new
  <2> QED BY <2>8, <2>9
<1> QED BY <1>5, <1>6

\* What a turn of the fold does to the obligations.
LEMMA AppliedObligations ==
  ASSUME NEW h \in Terminals, NEW o \in Ops, NEW opts
  PROVE  Applied(h, o, opts).obligations =
           CASE o.op = "create"    -> Append(h.obligations, [binding |-> o.of, closed |-> FALSE])
             [] o.op = "discharge" -> Close(h.obligations, o.of, o.by, Declared)
             [] OTHER              -> h.obligations
<1>1. \A f : FailWith(h, f).obligations = h.obligations
  BY DEF FailWith, Terminals
<1>2. \A s, f : /\ FailWith([h EXCEPT !.storage = s], f).obligations = h.obligations
                /\ FailWith([h EXCEPT !.network = s], f).obligations = h.obligations
  BY DEF FailWith, Terminals
<1>3. CASE o.op = "create"
  BY <1>3 DEF Applied, Terminals
<1>4. CASE o.op = "discharge"
  BY <1>4 DEF Applied, Terminals
<1>5. CASE o.op = "transfer"
  BY <1>5 DEF Applied, Terminals
<1>6. CASE o.op = "unresolved" \/ o.op = "effect"
  BY <1>1, <1>6 DEF Applied
<1>7. CASE o.op = "storage"
  BY <1>2, <1>7 DEF Applied, Terminals
<1>8. CASE o.op = "network"
  BY <1>2, <1>8 DEF Applied, Terminals
<1>9. CASE o.op \notin {"create", "discharge", "transfer", "unresolved", "effect", "storage",
                        "network"}
  BY <1>9 DEF Applied
<1> QED BY <1>3, <1>4, <1>5, <1>6, <1>7, <1>8, <1>9

\* It leaves the creations accounted for.
LEMMA AppliedAccounts ==
  ASSUME NEW p \in Seq(Ops), NEW h \in Terminals, NEW o \in Ops, NEW opts,
         Accounted(p, h.obligations)
  PROVE  Accounted(Append(p, o), Applied(h, o, opts).obligations)
<1> DEFINE q   == Append(p, o)
           obl == h.obligations
           new == Applied(h, o, opts).obligations
<1>1. obl \in Seq(Held)
  BY DEF Terminals
<1> SUFFICES ASSUME NEW b \in Bindings, NEW i \in Nat \ {0}
             PROVE  Cardinality(At(q, i, {Create(b)})) <=
                      Cardinality(At(q, i, Closings(b))) + Cardinality(OpenOf(new, b))
  BY DEF Accounted
<1> DEFINE made   == Cardinality(At(p, i, {Create(b)}))
           closed == Cardinality(At(p, i, Closings(b)))
           left   == Cardinality(OpenOf(obl, b))
           later  == Cardinality(OpenOf(new, b))
           here   == i <= Len(p) + 1
<1>2. made \in Nat /\ closed \in Nat /\ left \in Nat /\ made <= closed + left
  BY <1>1, CountType, OpenCount DEF Accounted
<1>3. /\ Cardinality(At(q, i, {Create(b)})) = made + IF here /\ o \in {Create(b)} THEN 1 ELSE 0
      /\ Cardinality(At(q, i, Closings(b))) = closed + IF here /\ o \in Closings(b) THEN 1 ELSE 0
  BY OneMore
<1>4. /\ o.op = "create" => (o \in {Create(b)} <=> b = o.of)
      /\ o.op # "create" => o \notin {Create(b)}
      /\ o.op = "discharge" => (o \in Closings(b) <=> b = o.of /\ o.by \in Declared)
      /\ o.op # "discharge" => o \notin Closings(b)
  <2>1. o = Op(o.op, o.of, o.by) /\ (o.op = "create" => o.by = "-")
    BY OpFields
  <2> QED BY <2>1 DEF Create, Discharge, Closings, Op
<1>5. later \in Nat /\ left <= later + IF o \in Closings(b) THEN 1 ELSE 0
  <2>1. CASE o.op = "create"
    <3>1. later = left + IF b = o.of THEN 1 ELSE 0
      <4>1. o.of \in Bindings /\ new = Append(obl, [binding |-> o.of, closed |-> FALSE])
        BY <2>1, OpFields, AppliedObligations
      <4> HIDE DEF obl, new
      <4> QED BY <1>1, <4>1, CreateOpens
    <3> QED BY <1>2, <1>4, <2>1, <3>1
  <2>2. CASE o.op = "discharge"
    <3>1. new = Close(obl, o.of, o.by, Declared)
      BY <2>2, AppliedObligations
    <3> QED BY <1>1, <1>4, <2>2, <3>1, CloseCloses
  <2>3. CASE o.op \notin {"create", "discharge"}
    <3>1. new = obl
      BY <2>3, AppliedObligations
    <3> QED BY <1>2, <1>4, <2>3, <3>1
  <2> QED BY <2>1, <2>2, <2>3
<1>6. o \in {Create(b)} => later = left + 1 /\ o \notin Closings(b)
  <2> SUFFICES ASSUME o = Create(b) PROVE later = left + 1 /\ o \notin Closings(b)
    OBVIOUS
  <2>1. o.op = "create" /\ o.of = b
    BY DEF Create, Op
  <2>2. new = Append(obl, [binding |-> b, closed |-> FALSE])
    <3>1. new = Append(obl, [binding |-> o.of, closed |-> FALSE])
      BY <2>1, AppliedObligations
    <3> HIDE DEF obl, new
    <3> QED BY <2>1, <3>1
  <2>3. o \notin Closings(b)
    <3> HIDE DEF obl, new
    <3> QED BY <2>1 DEF Closings, Discharge, Op
  <2> HIDE DEF obl, new
  <2>4. later = left + 1
    BY <1>1, <2>2, CreateOpens
  <2> QED BY <2>3, <2>4
<1> HIDE DEF made, closed, left, later, here
<1>7. ~here => made = 0
  <2> SUFFICES ASSUME ~here PROVE made = 0
    OBVIOUS
  <2>1. i .. Len(p) = {}
    BY DEF here
  <2>2. At(p, i, {Create(b)}) = {}
    BY <2>1 DEF At
  <2> QED BY <2>2, FS_EmptySet DEF made
<1>8. CASE here
  BY <1>2, <1>3, <1>5, <1>6, <1>8 DEF later
<1>9. CASE ~here
  BY <1>2, <1>3, <1>5, <1>7, <1>9 DEF later
<1> QED BY <1>8, <1>9

\* Nothing is open at the start, and nothing was created.
LEMMA StartAccounts == Accounted(<< >>, << >>)
<1> SUFFICES ASSUME NEW b \in Bindings, NEW i \in Nat \ {0}
             PROVE  Cardinality(At(<< >>, i, {Create(b)})) <=
                      Cardinality(At(<< >>, i, Closings(b))) + Cardinality(OpenOf(<< >>, b))
  BY DEF Accounted
<1>1. \A ops : At(<< >>, i, ops) = {}
  BY DEF At
<1>2. OpenOf(<< >>, b) = {}
  BY DEF OpenOf, OpenAt
<1>3. /\ Cardinality(At(<< >>, i, {Create(b)})) = 0 /\ Cardinality(At(<< >>, i, Closings(b))) = 0
      /\ Cardinality(OpenOf(<< >>, b)) = 0
  BY Zenon, <1>1, <1>2, FS_EmptySet
<1> QED BY <1>3

\* Types, traces and verdicts as before, and every creation accounted for.
ClosedInv == AgreeInv /\ Accounted(program, Terminal(program, options).obligations)

\* Every step keeps the account.
LEMMA ClosedInvInductive == ClosedInv /\ [Next]_vars => ClosedInv'
<1> SUFFICES ASSUME ClosedInv, [Next]_vars PROVE ClosedInv'
  OBVIOUS
<1>1. AgreeInv'
  BY AgreeInvInductive DEF ClosedInv
<1>2. CASE UNCHANGED <<program, options>>
  BY <1>1, <1>2 DEF ClosedInv
<1>3. CASE Execute
  <2>1. PICK o : Draw(o)
    BY <1>3 DEF Execute, ExecuteOperation, ExecuteCreate, ExecuteTransfer, ExecuteUnresolved,
       ExecuteDischarge, ExecuteEffect, ExecuteStorage, ExecuteNetwork, ExecuteExternal,
       ExecuteStop
  <2>2. /\ program \in Seq(Ops) /\ o \in Ops /\ program' = Append(program, o)
        /\ options' = options /\ Terminal(program, options) \in Terminals
    BY <2>1 DEF Draw, ClosedInv, AgreeInv, ScenarioInv, Ops
  <2>3. Terminal(program', options) = Applied(Terminal(program, options), o, options)
    <3> DEFINE n == Len(program)
    <3>1. /\ n \in Nat /\ DOMAIN program = 1 .. n /\ DOMAIN program' = 1 .. n + 1
          /\ \A k \in 1 .. n : program'[k] = program[k]
          /\ program'[n + 1] = o
      BY <2>2
    <3> HIDE DEF n
    <3> QED BY <3>1, TerminalRule
  <2>4. Accounted(Append(program, o), Applied(Terminal(program, options), o, options).obligations)
    BY <2>2, AppliedAccounts DEF ClosedInv
  <2> QED BY <1>1, <2>2, <2>3, <2>4 DEF ClosedInv
<1>4. CASE FinishExecution
  BY <1>2, <1>4 DEF FinishExecution, Finish, FinishAs
<1>5. CASE CheckAgreement
  BY <1>2, <1>5 DEF CheckAgreement, SemanticOnly, SkipHarness, CoverageIncomplete, LifecycleOnly,
         BoundaryPartial, RunHarness, Matched, Diverged, Settled
<1>6. CASE UNCHANGED vars
  BY <1>2, <1>6 DEF vars, semanticVars
<1> QED BY <1>3, <1>4, <1>5, <1>6 DEF Next

\* A harness that tells nothing, or a cancellation of an effect, has closed everything.
LEMMA QuietIsClosed ==
  ASSUME NEW p \in Seq(Ops), NEW opts, Terminal(p, opts) \in Terminals,
         \/ TerminalFailure(p, opts).events = << >>
         \/ \E boundary \in Boundaries :
              TerminalFailure(p, opts).events = << <<"injected-cancel", boundary>> >>
  PROVE  OpenAt(Terminal(p, opts).obligations) = {}
<1> DEFINE h == Terminal(p, opts)
           obl == h.obligations
           late == FirstFailure(CancelAtEnd(h, p, opts), LeftOpen(obl))
<1>1. obl \in Seq(Held) /\ Reports(h.failure, Found)
  BY OutcomesReport DEF Terminals
<1>2. TerminalFailure(p, opts) = FirstFailure(h.failure, late)
  BY DEF TerminalFailure, FirstFailure
<1> HIDE DEF h
<1>3. ASSUME OpenAt(obl) # {} PROVE FALSE
  <2>1. h.failure = NoFailure
    <3> SUFFICES ASSUME h.failure # NoFailure PROVE FALSE
      OBVIOUS
    <3>1. PICK e : e \in Found \X Labels /\ h.failure.events = << e >>
      BY <1>1, ReportedEvents
    <3>2. TerminalFailure(p, opts).events = << e >>
      BY <1>2, <3>1 DEF FirstFailure
    <3>3. << e >> # << >> /\ e[1] # "injected-cancel"
      BY <3>1 DEF Found
    <3>4. \A d : << e >> = << d >> => e = d
      OBVIOUS
    <3> QED BY <3>2, <3>3, <3>4
  <2>2. TerminalFailure(p, opts) = late
    BY <1>2, <2>1 DEF FirstFailure
  <2>3. late \in {Failure("K0100", "injected-cancel", FirstOpen(obl)),
                  Failure("K0100", "obligation-left-open", FirstOpen(obl))}
    BY <1>3 DEF CancelAtEnd, LeftOpen, FirstFailure, NoFailure, Failure
  <2>4. FirstOpen(obl) \notin Boundaries
    BY <1>1, <1>3, OpenEnds, BindingsAssumption
  <2>5. late.events \in {<< <<"injected-cancel", FirstOpen(obl)>> >>,
                         << <<"obligation-left-open", FirstOpen(obl)>> >>}
    BY <2>3 DEF Failure
  <2> HIDE DEF late, obl
  <2>6. \A d, e : << d >> = << e >> => d = e
    OBVIOUS
  <2>7. late.events # << >>
    <3>1. \A e : << e >> # << >>
      OBVIOUS
    <3> QED BY <2>5, <3>1
  <2>8. PICK boundary \in Boundaries : late.events = << <<"injected-cancel", boundary>> >>
    BY <2>2, <2>7
  <2>9. <<"injected-cancel", boundary>> \in {<<"injected-cancel", FirstOpen(obl)>>,
                                             <<"obligation-left-open", FirstOpen(obl)>>}
    BY <2>5, <2>6, <2>8
  <2> QED BY <2>4, <2>9
<1> QED BY <1>3 DEF h

\* Traces that agree on a run that passes leave nothing open in the account.
LEMMA ClosedMatches == ClosedInv => MatchedPassClosesAll
<1> SUFFICES ASSUME ClosedInv, agreement = "matched", failure = NoFailure,
                    NEW b \in Bindings, NEW i \in DOMAIN program
             PROVE  Cardinality({j \in i .. Len(program) : program[j] = Create(b)}) <=
                      Cardinality({j \in i .. Len(program) :
                                     program[j] \in {Discharge(b, a) : a \in Declared}})
  BY DEF MatchedPassClosesAll, ClosedByDeclared
<1> DEFINE obl == Terminal(program, options).obligations
<1>1. /\ program \in Seq(Ops) /\ Terminal(program, options) \in Terminals
      /\ Accounted(program, obl) /\ VerdictConfirmed
  BY AgreeConfirms DEF ClosedInv, AgreeInv, ScenarioInv
<1>2. OpenAt(obl) = {}
  <2>1. \/ TerminalFailure(program, options).events = << >>
        \/ \E boundary \in Boundaries :
             TerminalFailure(program, options).events = << <<"injected-cancel", boundary>> >>
    BY <1>1 DEF VerdictConfirmed, NoFailure
  <2> QED BY <1>1, <2>1, QuietIsClosed
<1>3. Cardinality(OpenOf(obl, b)) = 0
  <2>1. OpenOf(obl, b) = {}
    BY <1>2 DEF OpenOf
  <2> QED BY <2>1, FS_EmptySet
<1>4. i \in Nat \ {0}
  BY <1>1
<1>5. Cardinality(At(program, i, Closings(b))) \in Nat
  BY <1>1, <1>4, CountType
<1>6. Cardinality(At(program, i, {Create(b)})) <= Cardinality(At(program, i, Closings(b)))
  <2>1. Cardinality(At(program, i, {Create(b)})) <=
          Cardinality(At(program, i, Closings(b))) + Cardinality(OpenOf(obl, b))
    BY <1>1, <1>4 DEF Accounted
  <2> QED BY <1>3, <1>5, <2>1
<1>7. At(program, i, {Create(b)}) = {j \in i .. Len(program) : program[j] = Create(b)}
  BY DEF At
<1> QED BY <1>6, <1>7 DEF At, Closings

\* A run that passes on the evidence of both engines leaves no obligation open:
\* MatchedPassClosesAll, for scenarios of any length and any options.
THEOREM MatchedPassIsClosed == Spec => []MatchedPassClosesAll
<1>1. Init => ClosedInv
  <2> SUFFICES ASSUME Init PROVE ClosedInv
    OBVIOUS
  <2>1. program = << >> /\ Terminal(program, options) = NewTerminal
    BY TerminalStart DEF Init, SemanticInit
  <2>2. Accounted(program, Terminal(program, options).obligations)
    BY <2>1, StartAccounts DEF NewTerminal
  <2> QED BY <2>2, AgreeInvInitial DEF ClosedInv
<1> QED BY <1>1, ClosedInvInductive, ClosedMatches, PTL DEF Spec

-----------------------------------------------------------------------------
\* Joining is associative.
LEMMA JoinAssociates ==
  ASSUME NEW S, NEW one \in Seq(S), NEW two \in Seq(S), NEW three \in Seq(S)
  PROVE  (one \o two) \o three = one \o (two \o three)
OBVIOUS

\* Flattening one part more.
LEMMA FlattenSnoc ==
  ASSUME NEW S, NEW n \in Nat, NEW seqs \in [1 .. n + 1 -> Seq(S)]
  PROVE  FlattenSeq(seqs) = FlattenSeq([i \in 1 .. n |-> seqs[i]]) \o seqs[n + 1]
<1> DEFINE less == [i \in 1 .. n |-> seqs[i]]
           F(s, m) == CHOOSE f : f = [i \in 1 .. m |-> IF i = 1 THEN s[i] ELSE f[i - 1] \o s[i]]
<1>1. /\ seqs \in Seq(Seq(S)) /\ Len(seqs) = n + 1 /\ n + 1 # 0
      /\ less \in Seq(Seq(S)) /\ Len(less) = n
  OBVIOUS
<1>2. \A k \in 1 .. n : less[k] = seqs[k]
  OBVIOUS
<1> HIDE DEF less
<1>3. FlattenSeq(seqs) = F(seqs, n + 1)[n + 1]
  BY <1>1 DEF FlattenSeq
<1>4. \A s : \A m \in Nat : \A k \in 1 .. m :
        F(s, m)[k] = IF k = 1 THEN s[k] ELSE F(s, m)[k - 1] \o s[k]
  <2> SUFFICES ASSUME NEW s, NEW m \in Nat, NEW k \in 1 .. m
               PROVE  F(s, m)[k] = IF k = 1 THEN s[k] ELSE F(s, m)[k - 1] \o s[k]
    OBVIOUS
  <2> DEFINE f == F(s, m)
  <2>1. f = [i \in 1 .. m |-> IF i = 1 THEN s[i] ELSE f[i - 1] \o s[i]]
    BY FlattenExists
  <2> HIDE DEF f
  <2>2. f[k] = IF k = 1 THEN s[k] ELSE f[k - 1] \o s[k]
    BY <2>1
  <2> QED BY <2>2 DEF f
<1>5. CASE n = 0
  <2>1. F(seqs, n + 1)[1] = seqs[1]
    BY <1>4, <1>5
  <2>2. FlattenSeq(less) = << >>
    BY <1>1, <1>5 DEF FlattenSeq
  <2>3. seqs[1] \in Seq(S)
    BY <1>5
  <2>4. << >> \o seqs[1] = seqs[1]
    BY <2>3
  <2> QED BY <1>3, <1>5, <2>1, <2>2, <2>4 DEF less
<1>6. CASE n # 0
  <2> DEFINE f == F(seqs, n + 1)
             g == F(less, n)
  <2>1. FlattenSeq(less) = g[n]
    BY <1>1, <1>6 DEF FlattenSeq
  <2>2. \A k \in 1 .. n + 1 : f[k] = IF k = 1 THEN seqs[k] ELSE f[k - 1] \o seqs[k]
    <3> HIDE DEF F
    <3>1. n + 1 \in Nat
      OBVIOUS
    <3> QED BY <1>4, <3>1
  <2>3. \A k \in 1 .. n : g[k] = IF k = 1 THEN seqs[k] ELSE g[k - 1] \o seqs[k]
    <3> HIDE DEF F
    <3> QED BY <1>2, <1>4
  <2> HIDE DEF f, g
  <2> DEFINE Bad == {k \in 1 .. n : f[k] # g[k]}
  <2>4. ASSUME Bad # {} PROVE FALSE
    <3>1. PICK k \in Bad : \A j \in Bad : k <= j
      <4>1. Bad \in SUBSET Nat
        OBVIOUS
      <4> QED BY <2>4, <4>1, LeastNatural
    <3>2. k \in 1 .. n /\ k \in 1 .. n + 1 /\ f[k] # g[k]
      BY <3>1
    <3>3. k # 1
      BY <2>2, <2>3, <3>2
    <3>4. k - 1 \in 1 .. n /\ k - 1 \notin Bad
      BY <3>1, <3>2, <3>3
    <3>5. f[k - 1] = g[k - 1]
      BY <3>4
    <3> HIDE DEF Bad
    <3> QED BY <2>2, <2>3, <3>2, <3>3, <3>5
  <2>5. f[n] = g[n]
    BY <1>6, <2>4
  <2>6. f[n + 1] = f[n] \o seqs[n + 1]
    <3>1. n + 1 \in 1 .. n + 1 /\ n + 1 # 1 /\ (n + 1) - 1 = n
      BY <1>6
    <3> HIDE DEF Bad
    <3> QED BY <2>2, <3>1
  <2> QED BY <1>3, <2>1, <2>5, <2>6 DEF f, less
<1> QED BY <1>5, <1>6

\* The first m of the parts.
Parts(seqs, m) == [i \in 1 .. m |-> seqs[i]]

\* The parts are joined one by one.
LEMMA FlattenStep ==
  ASSUME NEW S, NEW n \in Nat, NEW seqs \in [1 .. n -> Seq(S)], NEW m \in Nat, m < n
  PROVE  FlattenSeq(Parts(seqs, m + 1)) = FlattenSeq(Parts(seqs, m)) \o seqs[m + 1]
<1> DEFINE part == Parts(seqs, m + 1)
<1>1. \A i \in 1 .. m + 1 : i \in 1 .. n
  OBVIOUS
<1>2. part \in [1 .. m + 1 -> Seq(S)] /\ part[m + 1] = seqs[m + 1]
  BY <1>1 DEF Parts
<1>3. [i \in 1 .. m |-> part[i]] = Parts(seqs, m)
  BY DEF Parts
<1> HIDE DEF part
<1>4. FlattenSeq(part) = FlattenSeq([i \in 1 .. m |-> part[i]]) \o part[m + 1]
  BY <1>2, FlattenSnoc
<1> QED BY <1>2, <1>3, <1>4 DEF part

\* All of the parts, and none of them.
LEMMA PartsEnds ==
  ASSUME NEW T, NEW n \in Nat, NEW seqs \in [1 .. n -> T]
  PROVE  Parts(seqs, n) = seqs /\ FlattenSeq(Parts(seqs, 0)) = << >>
<1>1. Parts(seqs, 0) = << >>
  BY DEF Parts
<1>2. FlattenSeq(<< >>) = << >>
  BY DEF FlattenSeq
<1>3. Parts(seqs, n) = seqs
  BY DEF Parts
<1> QED BY <1>1, <1>2, <1>3

\* Some sequences over S that can be joined.
Joinable(C, S) ==
  /\ C \subseteq Seq(S)
  /\ << >> \in C
  /\ \A one, other \in C : one \o other \in C

\* Flattening parts of such a set gives one of them.
LEMMA FlattenKeeps ==
  ASSUME NEW S, NEW C, Joinable(C, S), NEW n \in Nat, NEW seqs \in [1 .. n -> C]
  PROVE  FlattenSeq(seqs) \in C
<1> DEFINE Bad == {m \in 0 .. n : FlattenSeq(Parts(seqs, m)) \notin C}
<1>0. seqs \in [1 .. n -> Seq(S)]
  BY DEF Joinable
<1>1. ASSUME Bad # {} PROVE FALSE
  <2>1. PICK m \in Bad : \A k \in Bad : m <= k
    <3>1. Bad \in SUBSET Nat
      OBVIOUS
    <3> QED BY <1>1, <3>1, LeastNatural
  <2>2. m \in 0 .. n /\ FlattenSeq(Parts(seqs, m)) \notin C
    BY <2>1
  <2>3. m # 0
    BY <2>2, PartsEnds DEF Joinable
  <2>4. PICK k \in Nat : m = k + 1
    <3>1. m - 1 \in Nat /\ m = (m - 1) + 1
      BY <2>2, <2>3
    <3> QED BY <3>1
  <2>5. k \in 0 .. n /\ ~(m <= k) /\ m \in 1 .. n /\ k < n
    BY <2>2, <2>4
  <2>6. FlattenSeq(Parts(seqs, k)) \in C
    BY <2>1, <2>5
  <2>7. FlattenSeq(Parts(seqs, m)) = FlattenSeq(Parts(seqs, k)) \o seqs[m]
    BY <1>0, <2>4, <2>5, FlattenStep
  <2> QED BY <2>2, <2>5, <2>6, <2>7 DEF Joinable
<1>2. FlattenSeq(Parts(seqs, n)) \in C
  BY <1>1
<1> QED BY <1>2, PartsEnds

\* Parts that are empty from some point on add nothing.
LEMMA FlattenTail ==
  ASSUME NEW S, NEW n \in Nat, NEW seqs \in [1 .. n -> Seq(S)], NEW l \in 0 .. n,
         \A i \in 1 .. n : i > l => seqs[i] = << >>
  PROVE  FlattenSeq(seqs) = FlattenSeq(Parts(seqs, l))
<1> DEFINE Bad == {m \in l .. n : FlattenSeq(Parts(seqs, m)) # FlattenSeq(Parts(seqs, l))}
<1>0. Joinable(Seq(S), S)
  BY JoinType DEF Joinable
<1>1. ASSUME Bad # {} PROVE FALSE
  <2>1. PICK m \in Bad : \A k \in Bad : m <= k
    <3>1. Bad \in SUBSET Nat
      OBVIOUS
    <3> QED BY <1>1, <3>1, LeastNatural
  <2>2. m \in l .. n /\ FlattenSeq(Parts(seqs, m)) # FlattenSeq(Parts(seqs, l))
    BY <2>1
  <2>3. m # l
    BY <2>2
  <2>4. PICK k \in Nat : m = k + 1
    <3>1. m - 1 \in Nat /\ m = (m - 1) + 1
      BY <2>2, <2>3
    <3> QED BY <3>1
  <2>5. k \in l .. n /\ ~(m <= k) /\ m \in 1 .. n /\ k < n /\ m > l
    BY <2>2, <2>3, <2>4
  <2>6. FlattenSeq(Parts(seqs, k)) = FlattenSeq(Parts(seqs, l))
    BY <2>1, <2>5
  <2>7. FlattenSeq(Parts(seqs, m)) = FlattenSeq(Parts(seqs, k)) \o seqs[m]
    BY <2>4, <2>5, FlattenStep
  <2>8. FlattenSeq(Parts(seqs, k)) \in Seq(S)
    <3>1. Parts(seqs, k) \in [1 .. k -> Seq(S)]
      BY <2>5 DEF Parts
    <3> HIDE DEF Bad
    <3> QED BY <3>1, FlattenType
  <2>9. seqs[m] = << >>
    BY <2>5
  <2>10. \A s \in Seq(S) : s \o << >> = s
    OBVIOUS
  <2> HIDE DEF Bad
  <2> QED BY <2>2, <2>6, <2>7, <2>8, <2>9, <2>10
<1>2. FlattenSeq(Parts(seqs, n)) = FlattenSeq(Parts(seqs, l))
  <2>1. n \in l .. n /\ n \notin Bad
    BY <1>1
  <2> QED BY <2>1
<1> QED BY <1>2, PartsEnds

\* A part between members of such a set.
Between(C, part, whole) == \E a, c \in C : whole = a \o part \o c

\* Parts of such a set, but for one of them.
LEMMA FlattenSplit ==
  ASSUME NEW S, NEW C, Joinable(C, S), NEW n \in Nat, NEW seqs \in [1 .. n -> Seq(S)],
         NEW l \in 1 .. n, \A i \in 1 .. n : i # l => seqs[i] \in C
  PROVE  Between(C, seqs[l], FlattenSeq(seqs))
<1> DEFINE a == FlattenSeq(Parts(seqs, l - 1))
           Bad == {m \in l .. n : ~\E c \in C : FlattenSeq(Parts(seqs, m)) = a \o seqs[l] \o c}
<1>1. a \in C
  <2>1. Parts(seqs, l - 1) \in [1 .. l - 1 -> C] /\ l - 1 \in Nat
    BY DEF Parts
  <2> QED BY <2>1, FlattenKeeps
<1>2. FlattenSeq(Parts(seqs, l)) = a \o seqs[l]
  <2>1. PICK k \in Nat : l = k + 1
    <3>1. l - 1 \in Nat /\ l = (l - 1) + 1
      OBVIOUS
    <3> QED BY <3>1
  <2>2. k < n /\ l - 1 = k
    BY <2>1
  <2> QED BY <2>1, <2>2, FlattenStep
<1>3. a \in Seq(S) /\ seqs[l] \in Seq(S) /\ a \o seqs[l] \in Seq(S) /\ << >> \in C
  BY <1>1, JoinType DEF Joinable
<1> HIDE DEF a
<1>4. ASSUME Bad # {} PROVE FALSE
  <2>1. PICK m \in Bad : \A k \in Bad : m <= k
    <3>1. Bad \in SUBSET Nat
      OBVIOUS
    <3> QED BY <1>4, <3>1, LeastNatural
  <2>2. m \in l .. n /\ ~\E c \in C : FlattenSeq(Parts(seqs, m)) = a \o seqs[l] \o c
    BY <2>1
  <2>3. m # l
    <3>1. \A s \in Seq(S) : s \o << >> = s
      OBVIOUS
    <3>2. FlattenSeq(Parts(seqs, l)) = a \o seqs[l] \o << >>
      BY <1>2, <1>3, <3>1
    <3> HIDE DEF Bad
    <3> QED BY <1>3, <2>2, <3>2
  <2>4. PICK k \in Nat : m = k + 1
    <3>1. m - 1 \in Nat /\ m = (m - 1) + 1
      BY <2>2, <2>3
    <3> QED BY <3>1
  <2>5. k \in l .. n /\ ~(m <= k) /\ m \in 1 .. n /\ k < n /\ m # l
    BY <2>2, <2>3, <2>4
  <2>6. PICK c \in C : FlattenSeq(Parts(seqs, k)) = a \o seqs[l] \o c
    BY <2>1, <2>5
  <2>7. FlattenSeq(Parts(seqs, m)) = FlattenSeq(Parts(seqs, k)) \o seqs[m]
    BY <2>4, <2>5, FlattenStep
  <2> HIDE DEF Bad
  <2>8. seqs[m] \in C /\ c \o seqs[m] \in C
    BY <2>5, <2>6 DEF Joinable
  <2>9. c \in Seq(S) /\ seqs[m] \in Seq(S)
    BY <2>8 DEF Joinable
  <2>10. FlattenSeq(Parts(seqs, m)) = a \o seqs[l] \o (c \o seqs[m])
    <3> DEFINE b == a \o seqs[l]
               e == seqs[m]
    <3>1. b \in Seq(S) /\ c \in Seq(S) /\ e \in Seq(S)
      BY <1>3, <2>9
    <3>2. FlattenSeq(Parts(seqs, m)) = (b \o c) \o e
      BY <2>6, <2>7
    <3> HIDE DEF b, e
    <3>3. FlattenSeq(Parts(seqs, m)) = b \o (c \o e)
      BY <3>1, <3>2, JoinAssociates
    <3> QED BY <3>3 DEF b, e
  <2> QED BY <2>2, <2>8, <2>10
<1>5. \E c \in C : FlattenSeq(Parts(seqs, n)) = a \o seqs[l] \o c
  <2>1. n \in l .. n
    OBVIOUS
  <2>2. n \notin Bad
    <3> HIDE DEF Bad
    <3> QED BY <1>4
  <2> QED BY <2>1, <2>2
<1> HIDE DEF Bad
<1>6. Parts(seqs, n) = seqs
  BY PartsEnds
<1> HIDE DEF a
<1> QED BY <1>1, <1>5, <1>6 DEF Between

-----------------------------------------------------------------------------
\* What an operation adds to the target's trace, wherever it is printed.
Gives(o, opts) ==
  CASE o.op = "effect"                             -> BoundaryEvents(o.of, opts)
    [] o.op = "storage"                            -> StorageEvents(o.of)
    [] o.op = "network"                            -> FacadeNetworkEvents(o.of)
    [] o.op = "external" /\ o.of \in OwnedPolicies -> << <<"boundary", o.of>> >>
    [] OTHER                                       -> << >>

\* An operation more, at the end.
LEMMA Appended ==
  ASSUME NEW p \in Seq(Ops), NEW o \in Ops
  PROVE  /\ Len(p) \in Nat /\ DOMAIN p = 1 .. Len(p) /\ DOMAIN Append(p, o) = 1 .. Len(p) + 1
         /\ \A k \in 1 .. Len(p) : Append(p, o)[k] = p[k] /\ p[k] \in Ops
         /\ Append(p, o)[Len(p) + 1] = o
         /\ Append(p, o) \in Seq(Ops) /\ Len(Append(p, o)) = Len(p) + 1
OBVIOUS

\* The calls of an effect, when one operation more is there.
LEMMA CallsGrow ==
  ASSUME NEW p \in Seq(Ops), NEW o \in Ops, NEW b
  PROVE  EffectsOn(Append(p, o), b) =
           EffectsOn(p, b) \cup (IF o = Effect(b) THEN {Len(p) + 1} ELSE {})
<1> DEFINE n == Len(p)
           q == Append(p, o)
<1>1. /\ n \in Nat /\ DOMAIN p = 1 .. n /\ DOMAIN q = 1 .. n + 1
      /\ \A k \in 1 .. n : q[k] = p[k]
      /\ q[n + 1] = o
  BY Appended
<1> HIDE DEF n, q
<1>2. \A k : k \in 1 .. n + 1 <=> k \in 1 .. n \/ k = n + 1
  BY <1>1
<1>3. EffectsOn(q, b) = EffectsOn(p, b) \cup (IF o = Effect(b) THEN {n + 1} ELSE {})
  BY <1>1, <1>2 DEF EffectsOn
<1> QED BY <1>3 DEF n, q

\* An effect operation is the effect on its boundary.
LEMMA EffectIs ==
  ASSUME NEW o \in Ops, o.op = "effect"
  PROVE  o = Effect(o.of) /\ o.of \in Boundaries /\ \A b : o = Effect(b) => b = o.of
<1>1. o = Op(o.op, o.of, o.by) /\ o.by = "-" /\ o.of \in Boundaries
  BY OpFields
<1> QED BY <1>1 DEF Effect, Op

\* The operations before print what they printed, but the effect that is repeated.
LEMMA PrintedStays ==
  ASSUME NEW p \in Seq(Ops), NEW o \in Ops, NEW opts, NEW i \in 1 .. Len(p),
         p[i].op = "effect" => p[i] # o
  PROVE  Printed(Append(p, o), i, opts) = Printed(p, i, opts)
<1> DEFINE q == Append(p, o)
<1>1. q[i] = p[i] /\ p[i] \in Ops
  BY Appended
<1>2. CASE p[i].op = "effect"
  <2>1. EffectsOn(q, p[i].of) = EffectsOn(p, p[i].of)
    <3>1. p[i] = Effect(p[i].of)
      BY <1>1, <1>2, EffectIs
    <3>2. o # Effect(p[i].of)
      BY <1>2, <3>1
    <3>3. EffectsOn(q, p[i].of) = EffectsOn(p, p[i].of) \cup {}
      BY <3>2, CallsGrow
    <3> QED BY <3>3
  <2> HIDE DEF q
  <2>2. InstrumentedCall(q, i, opts) = InstrumentedCall(p, i, opts)
    BY <1>1, <2>1 DEF InstrumentedCall
  <2> QED BY <1>1, <1>2, <2>2 DEF Printed, q
<1>3. CASE p[i].op # "effect"
  <2> HIDE DEF q
  <2> QED BY <1>1, <1>3 DEF Printed, q
<1> QED BY <1>2, <1>3

\* The prints of a number of calls.
Copies(b, n, opts) == FlattenSeq([k \in 1 .. n |-> BoundaryEvents(b, opts)])

\* One call more.
LEMMA CopiesGrow ==
  ASSUME NEW b \in Boundaries, NEW opts \in Options, NEW n \in Nat
  PROVE  /\ Copies(b, n, opts) \in Seq(PlainEvents)
         /\ Copies(b, n + 1, opts) = Copies(b, n, opts) \o BoundaryEvents(b, opts)
         /\ Copies(b, 1, opts) = BoundaryEvents(b, opts)
<1> DEFINE E == PlainEvents
           one == BoundaryEvents(b, opts)
           copies(m) == [k \in 1 .. m |-> one]
<1>1. one \in Seq(E)
  BY PrintedTypes DEF Options
<1> HIDE DEF one, E
<1>2. \A m \in Nat : copies(m) \in [1 .. m -> Seq(E)]
  BY <1>1
<1>3. \A m \in Nat : [k \in 1 .. m |-> copies(m + 1)[k]] = copies(m) /\ copies(m + 1)[m + 1] = one
  OBVIOUS
<1> HIDE DEF copies
<1>4. \A m \in Nat : FlattenSeq(copies(m + 1)) = FlattenSeq(copies(m)) \o one
  <2> SUFFICES ASSUME NEW m \in Nat
               PROVE  FlattenSeq(copies(m + 1)) = FlattenSeq(copies(m)) \o one
    OBVIOUS
  <2>1. m + 1 \in Nat /\ copies(m + 1) \in [1 .. m + 1 -> Seq(E)]
    BY <1>2
  <2>2. FlattenSeq(copies(m + 1))
          = FlattenSeq([k \in 1 .. m |-> copies(m + 1)[k]]) \o copies(m + 1)[m + 1]
    BY <2>1, FlattenSnoc
  <2> QED BY <1>3, <2>2
<1>5. FlattenSeq(copies(n)) \in Seq(E)
  BY <1>2, FlattenType
<1>6. FlattenSeq(copies(1)) = one
  <2>1. FlattenSeq(copies(0)) = << >>
    <3>1. copies(0) = << >>
      BY DEF copies
    <3> QED BY <3>1 DEF FlattenSeq
  <2>2. FlattenSeq(copies(0 + 1)) = FlattenSeq(copies(0)) \o one
    BY <1>4
  <2>3. \A s \in Seq(E) : << >> \o s = s
    OBVIOUS
  <2>4. 0 + 1 = 1
    OBVIOUS
  <2> QED BY <1>1, <2>1, <2>2, <2>3, <2>4
<1> QED BY <1>4, <1>5, <1>6 DEF Copies, copies, one, E

-----------------------------------------------------------------------------
\* The parts of the target's trace.
TargetParts(p, opts) == [i \in DOMAIN p |-> Printed(p, i, opts)]

\* They are sequences of plain events.
LEMMA TargetPartTypes ==
  ASSUME NEW p \in Seq(Ops), NEW opts \in Options
  PROVE  /\ TargetParts(p, opts) \in [1 .. Len(p) -> Seq(PlainEvents)]
         /\ TargetEvents(p, opts) = FlattenSeq(TargetParts(p, opts))
<1>1. DOMAIN p = 1 .. Len(p)
  OBVIOUS
<1>2. \A i \in 1 .. Len(p) : Printed(p, i, opts) \in Seq(PlainEvents)
  BY PartTypes
<1> QED BY <1>1, <1>2 DEF TargetParts, TargetEvents

\* What an operation that repeats no effect prints is printed at the end.
LEMMA TargetGrowsAtEnd ==
  ASSUME NEW p \in Seq(Ops), NEW o \in Ops, NEW opts \in Options,
         o.op = "effect" => \A i \in 1 .. Len(p) : p[i] # o
  PROVE  TargetEvents(Append(p, o), opts) = TargetEvents(p, opts) \o Gives(o, opts)
<1> DEFINE n == Len(p)
           q == Append(p, o)
           parts == TargetParts(q, opts)
<1>1. /\ n \in Nat /\ DOMAIN p = 1 .. n /\ DOMAIN q = 1 .. n + 1 /\ Len(q) = n + 1
      /\ \A k \in 1 .. n : q[k] = p[k] /\ p[k] \in Ops
      /\ q[n + 1] = o /\ q \in Seq(Ops)
  BY Appended
<1>2. \A k \in 1 .. n : Printed(q, k, opts) = Printed(p, k, opts)
  <2> SUFFICES ASSUME NEW k \in 1 .. n PROVE Printed(q, k, opts) = Printed(p, k, opts)
    OBVIOUS
  <2>1. p[k].op = "effect" => p[k] # o
    BY <1>1
  <2> QED BY <2>1, PrintedStays
<1>3. Printed(q, n + 1, opts) = Gives(o, opts)
  <2>1. CASE o.op = "effect"
    <3>1. o = Effect(o.of) /\ o.of \in Boundaries
      BY <2>1, EffectIs
    <3>2. EffectsOn(p, o.of) = {}
      BY <1>1, <2>1, <3>1 DEF EffectsOn
    <3>3. EffectsOn(q, o.of) = {n + 1}
      BY <3>1, <3>2, CallsGrow
    <3>4. LeastOf({n + 1}) = n + 1
      <4>1. \A i \in {n + 1} : (\A j \in {n + 1} : i <= j) <=> i = n + 1
        BY <1>1
      <4> QED BY <4>1 DEF LeastOf
    <3>5. Cardinality({n + 1}) = 1
      BY FS_Singleton
    <3> HIDE DEF q, n
    <3>6. InstrumentedCall(q, n + 1, opts) = Copies(o.of, 1, opts)
      BY <1>1, <3>3, <3>4, <3>5 DEF InstrumentedCall, Copies
    <3>7. Copies(o.of, 1, opts) = BoundaryEvents(o.of, opts)
      BY <1>1, <3>1, CopiesGrow
    <3> QED BY <1>1, <2>1, <3>6, <3>7 DEF Printed, Gives
  <2>2. CASE o.op # "effect"
    <3> HIDE DEF q, n
    <3> QED BY <1>1, <2>2 DEF Printed, Gives
  <2> QED BY <2>1, <2>2
<1>4. parts \in [1 .. n + 1 -> Seq(PlainEvents)] /\ TargetEvents(q, opts) = FlattenSeq(parts)
  BY <1>1, TargetPartTypes
<1>5. [i \in 1 .. n |-> parts[i]] = TargetParts(p, opts) /\ parts[n + 1] = Gives(o, opts)
  <2> HIDE DEF q, n
  <2>1. \A i \in 1 .. n : parts[i] = Printed(p, i, opts)
    BY <1>1, <1>2 DEF TargetParts
  <2>2. parts[n + 1] = Gives(o, opts)
    BY <1>1, <1>3 DEF TargetParts
  <2> HIDE DEF parts
  <2> QED BY <1>1, <2>1, <2>2 DEF TargetParts
<1> HIDE DEF parts, q, n
<1>6. FlattenSeq(parts) = FlattenSeq([i \in 1 .. n |-> parts[i]]) \o parts[n + 1]
  BY <1>1, <1>4, FlattenSnoc
<1>7. TargetEvents(p, opts) = FlattenSeq(TargetParts(p, opts))
  BY TargetPartTypes
<1> QED BY <1>4, <1>5, <1>6, <1>7 DEF q

\* Operations that print something when they run.
PrintsOp(o) == o.op \in {"effect", "storage", "network", "external"}

\* The first of the calls of an effect, and their number.
LEMMA FirstCall ==
  ASSUME NEW p \in Seq(Ops), NEW b, EffectsOn(p, b) # {}
  PROVE  /\ LeastOf(EffectsOn(p, b)) \in EffectsOn(p, b)
         /\ LeastOf(EffectsOn(p, b)) \in 1 .. Len(p)
         /\ \A i \in EffectsOn(p, b) : LeastOf(EffectsOn(p, b)) <= i
         /\ IsFiniteSet(EffectsOn(p, b)) /\ Cardinality(EffectsOn(p, b)) \in Nat
<1> DEFINE S == EffectsOn(p, b)
<1>1. S \in SUBSET (1 .. Len(p)) /\ Len(p) \in Nat
  BY DEF EffectsOn
<1> HIDE DEF S
<1>2. S # {}
  BY DEF S
<1>3. \E i \in S : \A j \in S : i <= j
  <2>1. S \in SUBSET Nat
    BY <1>1
  <2> QED BY <1>2, <2>1, LeastNatural
<1>4. LeastOf(S) \in S /\ \A j \in S : LeastOf(S) <= j
  BY <1>3 DEF LeastOf
<1>5. IsFiniteSet(S) /\ Cardinality(S) \in Nat
  <2>1. IsFiniteSet(1 .. Len(p))
    BY <1>1, FS_Interval
  <2> QED BY <1>1, <2>1, FS_Subset, FS_CardinalityType
<1> QED BY <1>1, <1>4, <1>5 DEF S

\* Operations that print nothing, and calls that are not the first one.
LEMMA SilentCall ==
  ASSUME NEW p, NEW i, NEW opts,
         \/ ~PrintsOp(p[i])
         \/ p[i].op = "effect" /\ i # LeastOf(EffectsOn(p, p[i].of))
  PROVE  Printed(p, i, opts) = << >>
BY DEF Printed, InstrumentedCall, PrintsOp

\* What an effect prints that is repeated with nothing else printed since its first call comes
\* at the end as well.
LEMMA TargetGrowsAtCall ==
  ASSUME NEW p \in Seq(Ops), NEW o \in Ops, NEW opts \in Options,
         o.op = "effect", EffectsOn(p, o.of) # {},
         \A j \in 1 .. Len(p) :
           j > LeastOf(EffectsOn(p, o.of)) /\ PrintsOp(p[j]) => p[j] = o
  PROVE  TargetEvents(Append(p, o), opts) = TargetEvents(p, opts) \o Gives(o, opts)
<1> DEFINE n == Len(p)
           q == Append(p, o)
           b == o.of
           calls == EffectsOn(p, b)
           l == LeastOf(calls)
           old == TargetParts(p, opts)
           new == TargetParts(q, opts)
           E == PlainEvents
<1>1. /\ n \in Nat /\ DOMAIN p = 1 .. n /\ DOMAIN q = 1 .. n + 1 /\ Len(q) = n + 1
      /\ \A k \in 1 .. n : q[k] = p[k] /\ p[k] \in Ops
      /\ q[n + 1] = o /\ q \in Seq(Ops)
  BY Appended
<1>2. o = Effect(b) /\ b \in Boundaries
  BY EffectIs
<1>3. l \in calls /\ l \in 1 .. n /\ (\A i \in calls : l <= i)
      /\ IsFiniteSet(calls) /\ Cardinality(calls) \in Nat
  BY FirstCall
<1>4. EffectsOn(q, b) = calls \cup {n + 1}
  BY <1>2, CallsGrow
<1>5. LeastOf(calls \cup {n + 1}) = l
  <2>1. \A i \in calls \cup {n + 1} : l <= i
    BY <1>1, <1>3
  <2>2. \A i \in calls \cup {n + 1} : (\A j \in calls \cup {n + 1} : i <= j) => i = l
    <3>1. l \in calls \cup {n + 1} /\ l \in Nat
      BY <1>3
    <3>2. \A i \in calls \cup {n + 1} : i \in Nat
      BY <1>1 DEF EffectsOn
    <3> HIDE DEF calls, l, n
    <3>3. \A i, j \in Nat : i <= j /\ j <= i => i = j
      OBVIOUS
    <3> QED BY <2>1, <3>1, <3>2, <3>3
  <2> HIDE DEF l, calls, n
  <2> QED BY <1>3, <2>1, <2>2 DEF LeastOf
<1>6. Cardinality(calls \cup {n + 1}) = Cardinality(calls) + 1
  <2>1. n + 1 \notin calls
    BY <1>1 DEF EffectsOn
  <2> HIDE DEF calls, n
  <2> QED BY <1>3, <2>1, FS_AddElement
<1>7. p[l] = o /\ q[l] = o
  <2>1. p[l] = Effect(b)
    BY <1>3 DEF EffectsOn
  <2> QED BY <1>1, <1>2, <1>3, <2>1
<1> DEFINE c == Cardinality(calls)
<1>8. Printed(p, l, opts) = Copies(b, c, opts)
  <2> HIDE DEF l, calls
  <2> QED BY <1>7 DEF Printed, InstrumentedCall, Copies, calls, l
<1>9. Printed(q, l, opts) = Copies(b, c + 1, opts)
  <2>1. InstrumentedCall(q, l, opts) = Copies(b, c + 1, opts)
    <3> HIDE DEF q, calls, l, n, b
    <3>1. q[l].of = b
      BY <1>7 DEF b
    <3> QED BY <1>4, <1>5, <1>6, <3>1 DEF InstrumentedCall, Copies
  <2> HIDE DEF q, l, calls
  <2> QED BY <1>7, <2>1 DEF Printed
<1>10. EffectsOn(p, b) = calls /\ LeastOf(EffectsOn(q, b)) = l
  BY <1>4, <1>5
<1>11. \A k \in 1 .. n : k > l => old[k] = << >>
  <2> SUFFICES ASSUME NEW k \in 1 .. n, k > l PROVE Printed(p, k, opts) = << >>
    BY <1>1 DEF TargetParts
  <2>1. PrintsOp(p[k]) => p[k] = o
    OBVIOUS
  <2>2. k # l
    BY <1>3
  <2> HIDE DEF l, calls, n
  <2> QED BY <1>10, <2>1, <2>2, SilentCall DEF l
<1>12. \A k \in 1 .. n + 1 : k > l => new[k] = << >>
  <2> SUFFICES ASSUME NEW k \in 1 .. n + 1, k > l PROVE Printed(q, k, opts) = << >>
    BY <1>1 DEF TargetParts
  <2>1. k = n + 1 => q[k] = o
    BY <1>1
  <2>2. k # n + 1 => k \in 1 .. n /\ q[k] = p[k]
    BY <1>1
  <2>3. PrintsOp(q[k]) => q[k] = o
    BY <2>1, <2>2
  <2>4. k # l
    BY <1>3
  <2> HIDE DEF q, l, calls, n
  <2> QED BY <1>10, <2>3, <2>4, SilentCall
<1>13. \A k \in 1 .. n : k < l => Printed(q, k, opts) = Printed(p, k, opts)
  <2> SUFFICES ASSUME NEW k \in 1 .. n, k < l PROVE Printed(q, k, opts) = Printed(p, k, opts)
    OBVIOUS
  <2>1. p[k] # o
    <3>1. k \notin calls
      BY <1>3
    <3> HIDE DEF l
    <3> QED BY <1>1, <1>2, <3>1 DEF EffectsOn
  <2> HIDE DEF l, calls
  <2> QED BY <2>1, PrintedStays
<1>14. /\ old \in [1 .. n -> Seq(E)] /\ TargetEvents(p, opts) = FlattenSeq(old)
       /\ new \in [1 .. n + 1 -> Seq(E)] /\ TargetEvents(q, opts) = FlattenSeq(new)
  BY <1>1, TargetPartTypes
<1>15. old[l] = Copies(b, c, opts) /\ new[l] = Copies(b, c + 1, opts)
  <2> HIDE DEF l, calls, q, n
  <2> QED BY <1>1, <1>3, <1>8, <1>9 DEF TargetParts
<1>16. PICK m \in Nat : l = m + 1
  <2>1. l - 1 \in Nat /\ l = (l - 1) + 1
    BY <1>3
  <2> QED BY <2>1
<1>17. m < n /\ m < n + 1 /\ l \in 0 .. n /\ l \in 0 .. n + 1 /\ n + 1 \in Nat
  BY <1>1, <1>3, <1>16
<1>18. Parts(new, m) = Parts(old, m)
  <2>1. \A k \in 1 .. m : k \in 1 .. n /\ k \in 1 .. n + 1 /\ k < l
    BY <1>1, <1>16, <1>17
  <2> HIDE DEF l, q, n
  <2>2. \A k \in 1 .. m : new[k] = old[k]
    BY <1>1, <1>13, <2>1 DEF TargetParts
  <2> HIDE DEF new, old
  <2> QED BY <2>2 DEF Parts
<1> DEFINE front == FlattenSeq(Parts(old, m))
           copies == Copies(b, c, opts)
           one == BoundaryEvents(b, opts)
<1>19. front \in Seq(E)
  <2>1. \A k \in 1 .. m : k \in 1 .. n
    BY <1>1, <1>17
  <2> HIDE DEF old, n, E
  <2>2. Parts(old, m) \in [1 .. m -> Seq(E)]
    BY <1>14, <2>1 DEF Parts
  <2> QED BY <2>2, FlattenType
<1> HIDE DEF old, new, l, n, E, q
<1>20. TargetEvents(p, opts) = front \o old[l]
  <2>1. FlattenSeq(old) = FlattenSeq(Parts(old, l))
    BY <1>1, <1>11, <1>14, <1>17, FlattenTail
  <2> QED BY <1>1, <1>14, <1>16, <1>17, <2>1, FlattenStep
<1>21. TargetEvents(q, opts) = front \o new[l]
  <2>1. FlattenSeq(new) = FlattenSeq(Parts(new, l))
    BY <1>12, <1>14, <1>17, FlattenTail
  <2> QED BY <1>14, <1>16, <1>17, <1>18, <2>1, FlattenStep
<1>22. /\ copies \in Seq(E) /\ one \in Seq(E)
       /\ new[l] = copies \o one /\ old[l] = copies
  <2>1. /\ Copies(b, c, opts) \in Seq(E)
        /\ Copies(b, c + 1, opts) = Copies(b, c, opts) \o BoundaryEvents(b, opts)
    BY <1>2, <1>3, CopiesGrow DEF E
  <2>2. one \in Seq(E)
    BY <1>2, PrintedTypes DEF Options, E
  <2> QED BY <1>15, <2>1, <2>2
<1>23. Gives(o, opts) = one
  BY DEF Gives
<1> HIDE DEF front, copies, one
<1>24. front \o (copies \o one) = (front \o copies) \o one
  BY <1>19, <1>22, JoinAssociates
<1> QED BY <1>20, <1>21, <1>22, <1>23, <1>24 DEF q

-----------------------------------------------------------------------------
(***************************************************************************)
(* The orderly scenarios, for any sequence of operations: what Orderly     *)
(* excludes, and what is true of a scenario of one operation more.         *)
(***************************************************************************)
Late(p) == \E i, j \in DOMAIN p : i < j /\ p[i].op = "transfer" /\ PrintsOp(p[j])

Divided(p) ==
  \E i, j, k \in DOMAIN p :
    /\ i < j /\ j < k /\ PrintsOp(p[j])
    /\ p[i].op = "effect" /\ p[i] = p[k] /\ p[j] # p[i]

Awaits(p, i) ==
  \E s \in 1 .. i - 1 :
    /\ p[s] = Network("send")
    /\ \A j \in s + 1 .. i - 1 : p[j] \notin {Network("receive")} \cup ({Network("drop")} \ {p[i]})

Lost(p) == \E i \in DOMAIN p : p[i].op = "network" /\ p[i].of # "send" /\ ~Awaits(p, i)

InOrder(p) == ~Late(p) /\ ~Divided(p) /\ ~Lost(p)

\* The scenario of the run is orderly when nothing of that is in it.
LEMMA OrderlyIsInOrder == Orderly <=> InOrder(program)
<1>1. \A i : InFlight(i) <=> Awaits(program, i)
  BY DEF InFlight, Awaits
<1>2. \A j : Prints(j) <=> PrintsOp(program[j])
  BY DEF Prints, PrintsOp
<1> QED BY <1>1, <1>2 DEF Orderly, InOrder, Late, Divided, Lost

\* A message is sent, and none of these operations follows.
Pending(p, ops) ==
  \E s \in 1 .. Len(p) : p[s] = Network("send") /\ \A j \in s + 1 .. Len(p) : p[j] \notin ops

\* One operation more ends it or starts it.
LEMMA PendingGrows ==
  ASSUME NEW p \in Seq(Ops), NEW o \in Ops, NEW ops, Network("send") \notin ops
  PROVE  Pending(Append(p, o), ops) <=> o = Network("send") \/ (o \notin ops /\ Pending(p, ops))
<1> DEFINE q == Append(p, o)
           n == Len(p)
<1>1. /\ n \in Nat /\ Len(q) = n + 1
      /\ \A k \in 1 .. n : q[k] = p[k]
      /\ q[n + 1] = o
  BY Appended
<1> HIDE DEF q, n
<1>2. \A s \in 1 .. n : (\A j \in s + 1 .. n + 1 : q[j] \notin ops)
                          <=> o \notin ops /\ \A j \in s + 1 .. n : p[j] \notin ops
  <2> SUFFICES ASSUME NEW s \in 1 .. n
               PROVE  (\A j \in s + 1 .. n + 1 : q[j] \notin ops)
                        <=> o \notin ops /\ \A j \in s + 1 .. n : p[j] \notin ops
    OBVIOUS
  <2>1. /\ n + 1 \in s + 1 .. n + 1
        /\ \A j \in s + 1 .. n : j \in s + 1 .. n + 1 /\ j \in 1 .. n
        /\ \A j \in s + 1 .. n + 1 : j = n + 1 \/ j \in s + 1 .. n
    BY <1>1
  <2> QED BY <1>1, <2>1
<1>3. CASE o = Network("send")
  <2>1. n + 1 \in 1 .. n + 1 /\ \A j \in (n + 1) + 1 .. n + 1 : q[j] \notin ops
    BY <1>1
  <2> QED BY <1>1, <1>3, <2>1 DEF Pending, q
<1>4. CASE o # Network("send")
  <2>1. ASSUME Pending(q, ops) PROVE o \notin ops /\ Pending(p, ops)
    <3>1. PICK s \in 1 .. n + 1 : q[s] = Network("send") /\ \A j \in s + 1 .. n + 1 : q[j] \notin ops
      BY <1>1, <2>1 DEF Pending
    <3>2. s \in 1 .. n
      BY <1>1, <1>4, <3>1
    <3> QED BY <1>1, <1>2, <3>1, <3>2 DEF Pending, n
  <2>2. ASSUME o \notin ops, Pending(p, ops) PROVE Pending(q, ops)
    <3>1. PICK s \in 1 .. n : p[s] = Network("send") /\ \A j \in s + 1 .. n : p[j] \notin ops
      BY <2>2 DEF Pending, n
    <3>2. s \in 1 .. n + 1 /\ q[s] = Network("send")
      BY <1>1, <3>1
    <3> QED BY <1>1, <1>2, <2>2, <3>1, <3>2 DEF Pending
  <2> QED BY <1>4, <2>1, <2>2 DEF q
<1> QED BY <1>3, <1>4

\* The operations that end the wait of a network operation.
Enders(o) == {Network("receive")} \cup ({Network("drop")} \ {o})

\* What a network operation waits for, and what of it is lost.
LEMMA LostGrows ==
  ASSUME NEW p \in Seq(Ops), NEW o \in Ops
  PROVE  Lost(Append(p, o)) <=>
           Lost(p) \/ (o.op = "network" /\ o.of # "send" /\ ~Pending(p, Enders(o)))
<1> DEFINE q == Append(p, o)
           n == Len(p)
<1>1. /\ n \in Nat /\ DOMAIN p = 1 .. n /\ DOMAIN q = 1 .. n + 1
      /\ \A k \in 1 .. n : q[k] = p[k]
      /\ q[n + 1] = o
  BY Appended
<1> HIDE DEF q
<1>2. ASSUME NEW i \in 1 .. n PROVE Awaits(q, i) <=> Awaits(p, i)
  <2>1. \A s \in 1 .. i - 1 : q[s] = p[s] /\ \A j \in s + 1 .. i - 1 : q[j] = p[j]
    BY <1>1
  <2> QED BY <1>1, <2>1 DEF Awaits
<1>3. Awaits(q, n + 1) <=> Pending(p, Enders(o))
  <2>1. (n + 1) - 1 = n
    BY <1>1
  <2>2. \A s \in 1 .. n : q[s] = p[s] /\ \A j \in s + 1 .. n : q[j] = p[j]
    BY <1>1
  <2> QED BY <1>1, <2>1, <2>2 DEF Awaits, Pending, Enders
<1>4. \A i \in 1 .. n + 1 : i \in 1 .. n \/ i = n + 1
  BY <1>1
<1>5. \A i \in 1 .. n : i \in 1 .. n + 1
  BY <1>1
<1>6. n + 1 \in 1 .. n + 1
  BY <1>1
<1> HIDE DEF n
<1> QED BY <1>1, <1>2, <1>3, <1>4, <1>5, <1>6 DEF Lost, q

\* What has been in order for one operation more was in order, the operation prints nothing
\* after a transfer, and repeats an effect only right after it.
LEMMA InOrderBefore ==
  ASSUME NEW p \in Seq(Ops), NEW o \in Ops, InOrder(Append(p, o))
  PROVE  /\ InOrder(p)
         /\ PrintsOp(o) => \A i \in 1 .. Len(p) : p[i].op # "transfer"
         /\ o.op = "effect" => \A i, j \in 1 .. Len(p) :
                                 i < j /\ p[i] = o /\ PrintsOp(p[j]) => p[j] = o
         /\ o.op = "network" /\ o.of # "send" => Pending(p, Enders(o))
<1> DEFINE q == Append(p, o)
           n == Len(p)
<1>1. /\ n \in Nat /\ DOMAIN p = 1 .. n /\ DOMAIN q = 1 .. n + 1
      /\ \A k \in 1 .. n : q[k] = p[k]
      /\ q[n + 1] = o
  BY Appended
<1>2. \A k \in 1 .. n : k \in 1 .. n + 1 /\ k < n + 1
  BY <1>1
<1>3. n + 1 \in 1 .. n + 1
  BY <1>1
<1>4. ~Late(q) /\ ~Divided(q) /\ ~Lost(q)
  BY DEF InOrder
<1>5. ~Lost(p) /\ (o.op = "network" /\ o.of # "send" => Pending(p, Enders(o)))
  BY <1>4, LostGrows
<1> HIDE DEF q, n
<1>6. ~Late(p) /\ (PrintsOp(o) => \A i \in 1 .. n : p[i].op # "transfer")
  BY <1>1, <1>2, <1>3, <1>4 DEF Late
<1>7. ~Divided(p)
  BY <1>1, <1>2, <1>4 DEF Divided
<1>8. o.op = "effect" => \A i, j \in 1 .. n : i < j /\ p[i] = o /\ PrintsOp(p[j]) => p[j] = o
  <2> SUFFICES ASSUME o.op = "effect", NEW i \in 1 .. n, NEW j \in 1 .. n,
                      i < j, p[i] = o, PrintsOp(p[j]), p[j] # o
               PROVE  FALSE
    OBVIOUS
  <2>1. /\ i \in DOMAIN q /\ j \in DOMAIN q /\ n + 1 \in DOMAIN q /\ j < n + 1
        /\ q[i] = o /\ q[j] = p[j] /\ q[n + 1] = o
    BY <1>1, <1>2, <1>3
  <2> QED BY <1>4, <2>1 DEF Divided
<1> QED BY <1>5, <1>6, <1>7, <1>8 DEF InOrder, n

-----------------------------------------------------------------------------
(***************************************************************************)
(* What the semantic engine tells of an operation, and where: the first    *)
(* events of the operations that tell something are in the trace in their  *)
(* order.  The state of the message is told when there is one.             *)
(***************************************************************************)
Tells(o, n, opts) ==
  CASE o.op = "effect"                             -> BoundaryEvents(o.of, opts)
    [] o.op = "storage"                            -> StorageEvents(o.of)
    [] o.op = "network"                            -> NetworkEvents(n, o.of)
    [] o.op = "external" /\ o.of \in OwnedPolicies -> << <<"boundary", o.of>> >>
    [] o.op = "transfer"                           -> << <<"obligation-transfer", o.of>> >>
    [] OTHER                                       -> << >>

HeadOf(o) ==
  CASE o.op = "effect"   -> <<"deterministic", o.of>>
    [] o.op = "storage"  -> <<"storage", o.of>>
    [] o.op = "network"  -> <<"network", o.of>>
    [] o.op = "external" -> <<"boundary", o.of>>
    [] OTHER             -> <<"obligation-transfer", o.of>>

\* Operations of which the trace tells something, when the replay owns every call.
Telling(o) == PrintsOp(o) \/ o.op = "transfer"
Owned(o)   == o.op = "external" => o.of \in OwnedPolicies

\* The first event of an operation.
LEMMA TellsHead ==
  ASSUME NEW o \in Ops, NEW n, NEW opts \in Options, Owned(o)
  PROVE  /\ Tells(o, n, opts) \in Seq(PlainEvents)
         /\ Telling(o) => Tells(o, n, opts) # << >> /\ Tells(o, n, opts)[1] = HeadOf(o)
         /\ ~Telling(o) => Tells(o, n, opts) = << >>
<1> DEFINE E == PlainEvents
<1>1. opts.scheduler \in Schedulers
  BY DEF Options
<1>2. /\ o.op = "effect" => BoundaryEvents(o.of, opts) \in Seq(E)
      /\ o.op = "storage" => StorageEvents(o.of) \in Seq(E)
      /\ o.op = "network" => NetworkEvents(n, o.of) \in Seq(E)
  BY <1>1, OpFields, PrintedTypes
<1>3. /\ o.op = "external" => << <<"boundary", o.of>> >> \in Seq(E)
      /\ o.op = "transfer" => << <<"obligation-transfer", o.of>> >> \in Seq(E)
  <2>1. o.op \in {"external", "transfer"} => o.of \in Labels
    BY OpFields DEF Labels
  <2>2. /\ o.op = "external" => <<"boundary", o.of>> \in E
        /\ o.op = "transfer" => <<"obligation-transfer", o.of>> \in E
    BY <2>1 DEF PlainEvents, Plain
  <2> HIDE DEF E
  <2> QED BY <2>2
<1>4. \A e, rest : rest \in Seq(E) /\ e \in E =>
                     << e >> \o rest # << >> /\ (<< e >> \o rest)[1] = e
  <2> HIDE DEF E
  <2> SUFFICES ASSUME NEW rest \in Seq(E), NEW e \in E
               PROVE  << e >> \o rest # << >> /\ (<< e >> \o rest)[1] = e
    OBVIOUS
  <2>1. << e >> \in Seq(E) /\ Len(<< e >>) = 1 /\ << e >>[1] = e
    OBVIOUS
  <2>2. Len(<< e >> \o rest) = 1 + Len(rest) /\ Len(rest) \in Nat
    BY <2>1
  <2>3. (<< e >> \o rest)[1] = << e >>[1]
    BY <2>1, <2>2
  <2> QED BY <2>1, <2>2, <2>3
<1>5. o.op = "effect" =>
        BoundaryEvents(o.of, opts) # << >> /\ BoundaryEvents(o.of, opts)[1] = HeadOf(o)
  <2> SUFFICES ASSUME o.op = "effect"
               PROVE  BoundaryEvents(o.of, opts) # << >> /\ BoundaryEvents(o.of, opts)[1] = HeadOf(o)
    OBVIOUS
  <2> DEFINE e == <<"deterministic", o.of>>
             end == IF Injects("cancel", opts) THEN "cancelled" ELSE "completed"
             choice == IF opts.scheduler = "round-robin" THEN << >>
                       ELSE << <<"choice", opts.scheduler>> >>
             three == << <<"task", "enqueued">>, <<"task", "polled">>, <<"task", end>> >>
             rest == IF o.of # "task" THEN << >> ELSE three \o choice
  <2>1. o.of \in Boundaries
    BY OpFields
  <2>2. e \in E /\ <<"task", "enqueued">> \in E /\ <<"task", "polled">> \in E /\ <<"task", end>> \in E
        /\ <<"choice", opts.scheduler>> \in E
    BY <1>1, <2>1 DEF PlainEvents, Plain, Labels
  <2>3. BoundaryEvents(o.of, opts) = << e >> \o rest
    BY DEF BoundaryEvents
  <2> HIDE DEF E, e, end
  <2>4. choice \in Seq(E) /\ three \in Seq(E) /\ << >> \in Seq(E)
    BY <2>2
  <2> HIDE DEF choice, three
  <2>5. rest \in Seq(E)
    BY <2>4, JoinType
  <2> HIDE DEF rest
  <2>6. << e >> \o rest # << >> /\ (<< e >> \o rest)[1] = e
    BY <1>4, <2>2, <2>5
  <2>7. HeadOf(o) = e
    BY DEF HeadOf, e
  <2> QED BY <2>3, <2>6, <2>7
<1>6. o.op = "network" =>
        NetworkEvents(n, o.of) # << >> /\ NetworkEvents(n, o.of)[1] = HeadOf(o)
  <2> SUFFICES ASSUME o.op = "network"
               PROVE  NetworkEvents(n, o.of) # << >> /\ NetworkEvents(n, o.of)[1] = HeadOf(o)
    OBVIOUS
  <2> DEFINE e == <<"network", o.of>>
             state == <<"network-state", o.of>>
             rest == IF Applies(n, o.of) THEN << state >> ELSE << >>
  <2>1. e \in E /\ state \in E
    BY OpFields DEF PlainEvents, Plain, Labels
  <2>2. NetworkEvents(n, o.of) = << e >> \o rest
    BY DEF NetworkEvents, StateEvent
  <2> HIDE DEF E, e, state
  <2>3. rest \in Seq(E)
    BY <2>1
  <2> HIDE DEF rest
  <2>4. << e >> \o rest # << >> /\ (<< e >> \o rest)[1] = e
    BY <1>4, <2>1, <2>3
  <2>5. HeadOf(o) = e
    BY DEF HeadOf, e
  <2> QED BY <2>2, <2>4, <2>5
<1>7. o.op = "storage" => StorageEvents(o.of) # << >> /\ StorageEvents(o.of)[1] = HeadOf(o)
  BY DEF StorageEvents, HeadOf
<1>8. \A e : << e >> # << >> /\ << e >>[1] = e
  OBVIOUS
<1> HIDE DEF E
<1>9. /\ o.op = "effect" => Tells(o, n, opts) = BoundaryEvents(o.of, opts)
      /\ o.op = "storage" => Tells(o, n, opts) = StorageEvents(o.of)
      /\ o.op = "network" => Tells(o, n, opts) = NetworkEvents(n, o.of)
      /\ o.op = "external" => Tells(o, n, opts) = << <<"boundary", o.of>> >>
      /\ o.op = "transfer" => Tells(o, n, opts) = << <<"obligation-transfer", o.of>> >>
      /\ o.op \notin {"effect", "storage", "network", "external", "transfer"} =>
           Tells(o, n, opts) = << >>
  BY DEF Tells, Owned
<1>10. << >> \in Seq(E)
  OBVIOUS
<1>11. Tells(o, n, opts) \in Seq(E)
  BY <1>2, <1>3, <1>9, <1>10
<1>12. Telling(o) => Tells(o, n, opts) # << >> /\ Tells(o, n, opts)[1] = HeadOf(o)
  <2>1. /\ o.op = "external" => HeadOf(o) = <<"boundary", o.of>>
        /\ o.op = "transfer" => HeadOf(o) = <<"obligation-transfer", o.of>>
    BY DEF HeadOf
  <2> QED BY <1>5, <1>6, <1>7, <1>8, <1>9, <2>1 DEF Telling, PrintsOp
<1> QED BY <1>9, <1>11, <1>12 DEF E, Telling, PrintsOp

\* The operations of p that tell something have their first events in t, in order.
Placed(p, t, at) ==
  /\ \A i \in 1 .. Len(p) : Telling(p[i]) => at[i] \in 1 .. Len(t) /\ t[at[i]] = HeadOf(p[i])
  /\ \A i, j \in 1 .. Len(p) : i < j /\ Telling(p[i]) /\ Telling(p[j]) => at[i] < at[j]

Traced(p, t) == \E at : Placed(p, t, at)

\* Two traces joined.
LEMMA JoinFacts ==
  ASSUME NEW S, NEW one \in Seq(S), NEW other \in Seq(S)
  PROVE  /\ one \o other \in Seq(S) /\ Len(one) \in Nat /\ Len(other) \in Nat
         /\ Len(one \o other) = Len(one) + Len(other)
         /\ \A x \in 1 .. Len(one) : (one \o other)[x] = one[x]
         /\ \A x \in 1 .. Len(other) : (one \o other)[Len(one) + x] = other[x]
         /\ \A x \in 1 .. Len(one) + Len(other) :
              x \notin 1 .. Len(one) => /\ x - Len(one) \in 1 .. Len(other)
                                        /\ (one \o other)[x] = other[x - Len(one)]
OBVIOUS

\* They are traced when one operation more tells its events.
LEMMA TracedGrows ==
  ASSUME NEW p \in Seq(Ops), NEW o \in Ops, NEW S, NEW t \in Seq(S), NEW more \in Seq(S),
         Traced(p, t), Telling(o) => more # << >> /\ more[1] = HeadOf(o)
  PROVE  Traced(Append(p, o), t \o more)
<1> DEFINE q == Append(p, o)
           n == Len(p)
           m == Len(t)
           u == t \o more
<1>1. PICK at : Placed(p, t, at)
  BY DEF Traced
<1> DEFINE new == [k \in 1 .. n + 1 |-> IF k = n + 1 THEN m + 1 ELSE at[k]]
<1>2. /\ n \in Nat /\ Len(q) = n + 1
      /\ \A k \in 1 .. n : q[k] = p[k]
      /\ q[n + 1] = o
  BY Appended
<1>3. /\ m \in Nat /\ Len(u) = m + Len(more) /\ Len(more) \in Nat
      /\ \A x \in 1 .. m : u[x] = t[x]
      /\ \A x \in 1 .. Len(more) : u[m + x] = more[x]
  BY JoinFacts
<1>4. new[n + 1] = m + 1 /\ \A k \in 1 .. n : new[k] = at[k]
  BY <1>2
<1>5. Telling(o) => Len(more) >= 1 /\ u[m + 1] = HeadOf(o)
  <2> SUFFICES ASSUME Telling(o) PROVE Len(more) >= 1 /\ u[m + 1] = HeadOf(o)
    OBVIOUS
  <2>1. more # << >> /\ more[1] = HeadOf(o)
    OBVIOUS
  <2>2. Len(more) >= 1
    BY <2>1
  <2> QED BY <1>3, <2>1, <2>2
<1>6. \A i \in 1 .. n + 1 : i \in 1 .. n \/ i = n + 1
  BY <1>2
<1> HIDE DEF q, n, m, u, new
<1>7. \A i \in 1 .. n : Telling(p[i]) => at[i] \in 1 .. m /\ t[at[i]] = HeadOf(p[i])
  BY <1>1 DEF Placed, n, m
<1>8. \A i \in 1 .. n + 1 : Telling(q[i]) => new[i] \in 1 .. Len(u) /\ u[new[i]] = HeadOf(q[i])
  <2> SUFFICES ASSUME NEW i \in 1 .. n + 1, Telling(q[i])
               PROVE  new[i] \in 1 .. Len(u) /\ u[new[i]] = HeadOf(q[i])
    OBVIOUS
  <2>1. CASE i \in 1 .. n
    <3>1. new[i] = at[i] /\ at[i] \in 1 .. m /\ t[at[i]] = HeadOf(p[i]) /\ q[i] = p[i]
      BY <1>2, <1>4, <1>7, <2>1
    <3>2. at[i] \in 1 .. Len(u) /\ u[at[i]] = t[at[i]]
      BY <1>3, <3>1
    <3> QED BY <3>1, <3>2
  <2>2. CASE i = n + 1
    <3>1. Len(more) >= 1 /\ u[m + 1] = HeadOf(o) /\ q[i] = o /\ new[i] = m + 1
      BY <1>2, <1>4, <1>5, <2>2
    <3>2. m + 1 \in 1 .. Len(u)
      BY <1>3, <3>1
    <3> QED BY <3>1, <3>2
  <2> QED BY <1>6, <2>1, <2>2
<1>9. \A i, j \in 1 .. n + 1 : i < j /\ Telling(q[i]) /\ Telling(q[j]) => new[i] < new[j]
  <2> SUFFICES ASSUME NEW i \in 1 .. n + 1, NEW j \in 1 .. n + 1, i < j, Telling(q[i]), Telling(q[j])
               PROVE  new[i] < new[j]
    OBVIOUS
  <2>1. i \in 1 .. n /\ q[i] = p[i] /\ new[i] = at[i] /\ at[i] \in 1 .. m
    <3>1. i \in 1 .. n
      BY <1>2
    <3> QED BY <1>2, <1>4, <1>7, <3>1
  <2>2. CASE j \in 1 .. n
    <3>1. q[j] = p[j] /\ new[j] = at[j]
      BY <1>2, <1>4, <2>2
    <3> QED BY <1>1, <2>1, <2>2, <3>1 DEF Placed, n
  <2>3. CASE j = n + 1
    BY <1>3, <1>4, <2>1, <2>3
  <2> QED BY <1>6, <2>2, <2>3
<1>10. Placed(q, u, new)
  BY <1>2, <1>8, <1>9 DEF Placed
<1> QED BY <1>10 DEF Traced, q, u

\* A network action whose state change is not told.
LostSeen(t) ==
  \E x \in 1 .. Len(t) :
    t[x][1] = "network" /\ ~(x + 1 <= Len(t) /\ t[x + 1][1] = "network-state")

\* No state change is told later.
LEMMA LostStaysSeen ==
  ASSUME NEW S, NEW t \in Seq(S), NEW more \in Seq(S), LostSeen(t),
         more # << >> => more[1][1] # "network-state"
  PROVE  LostSeen(t \o more)
<1> DEFINE u == t \o more
           m == Len(t)
<1>1. PICK x \in 1 .. m :
        t[x][1] = "network" /\ ~(x + 1 <= m /\ t[x + 1][1] = "network-state")
  BY DEF LostSeen
<1>2. /\ m \in Nat /\ Len(u) = m + Len(more) /\ Len(more) \in Nat
      /\ \A y \in 1 .. m : u[y] = t[y]
      /\ \A y \in 1 .. Len(more) : u[m + y] = more[y]
  BY JoinFacts
<1>3. Len(more) >= 1 => more # << >>
  OBVIOUS
<1> HIDE DEF u, m
<1>4. x \in 1 .. Len(u) /\ u[x] = t[x]
  BY <1>2
<1>5. ASSUME x + 1 <= Len(u) PROVE u[x + 1][1] # "network-state"
  <2>1. CASE x + 1 <= m
    <3>1. x + 1 \in 1 .. m
      BY <1>2, <2>1
    <3> QED BY <1>1, <1>2, <2>1, <3>1
  <2>2. CASE x = m
    <3>1. Len(more) >= 1 /\ 1 \in 1 .. Len(more)
      BY <1>2, <1>5, <2>2
    <3>2. u[m + 1] = more[1]
      BY <1>2, <3>1
    <3> QED BY <1>3, <2>2, <3>1, <3>2
  <2>3. x + 1 <= m \/ x = m
    BY <1>2
  <2> QED BY <2>1, <2>2, <2>3
<1> QED BY <1>1, <1>4, <1>5 DEF LostSeen, u

\* A network action at the end of a trace.
LEMMA LostAtEnd ==
  ASSUME NEW S, NEW t \in Seq(S), NEW e \in S, e[1] = "network"
  PROVE  LostSeen(t \o << e >>)
<1> DEFINE u == t \o << e >>
           m == Len(t) + 1
<1>1. << e >> \in Seq(S) /\ Len(<< e >>) = 1 /\ << e >>[1] = e /\ 1 \in 1 .. 1
  OBVIOUS
<1>2. m \in 1 .. m /\ Len(u) = m /\ u[m] = e /\ ~(m + 1 <= m)
  BY <1>1, JoinFacts
<1> HIDE DEF u, m
<1> QED BY <1>2 DEF LostSeen, u

-----------------------------------------------------------------------------
(***************************************************************************)
(* What the harness never prints: a transfer before something else, other  *)
(* events between two effects on one boundary, and a network action        *)
(* without the state of the message.                                       *)
(***************************************************************************)
On(b) == {<<"deterministic", b>>} \cup ({"task", "choice"} \X Labels)

Spoken(o) ==
  CASE o.op = "effect"  -> On(o.of)
    [] o.op = "storage" -> {"storage"} \X Labels
    [] o.op = "network" -> {"network", "network-state"} \X Labels
    [] OTHER            -> {"boundary"} \X Labels

\* The prints of a call.
LEMMA CallSpeaks ==
  ASSUME NEW b \in Boundaries, NEW opts \in Options
  PROVE  BoundaryEvents(b, opts) \in Seq(On(b))
<1> DEFINE E == On(b)
           end == IF Injects("cancel", opts) THEN "cancelled" ELSE "completed"
           choice == IF opts.scheduler = "round-robin" THEN << >>
                     ELSE << <<"choice", opts.scheduler>> >>
<1>1. /\ <<"deterministic", b>> \in E /\ <<"task", "enqueued">> \in E /\ <<"task", "polled">> \in E
      /\ <<"task", end>> \in E /\ <<"choice", opts.scheduler>> \in E
  BY DEF On, Labels, Options
<1> HIDE DEF E, end
<1>2. << <<"deterministic", b>> >> \in Seq(E) /\ << >> \in Seq(E) /\ choice \in Seq(E)
  BY <1>1
<1>3. << <<"task", "enqueued">>, <<"task", "polled">>, <<"task", end>> >> \in Seq(E)
  BY <1>1
<1> HIDE DEF choice
<1>4. << <<"task", "enqueued">>, <<"task", "polled">>, <<"task", end>> >> \o choice \in Seq(E)
  BY <1>2, <1>3, JoinType
<1>5. BoundaryEvents(b, opts) =
        << <<"deterministic", b>> >> \o
          (IF b # "task" THEN << >>
           ELSE << <<"task", "enqueued">>, <<"task", "polled">>, <<"task", end>> >> \o choice)
  BY DEF BoundaryEvents, choice, end
<1>6. BoundaryEvents(b, opts) \in Seq(E)
  BY <1>2, <1>4, <1>5, JoinType
<1> QED BY <1>6 DEF E

\* The prints of an operation.
LEMMA PartSpeaks ==
  ASSUME NEW p \in Seq(Ops), NEW opts \in Options, NEW i \in 1 .. Len(p)
  PROVE  Printed(p, i, opts) \in Seq(Spoken(p[i]))
<1> DEFINE o == p[i]
<1>1. o \in Ops
  OBVIOUS
<1>2. CASE o.op = "effect"
  <2> DEFINE calls == EffectsOn(p, o.of)
             parts == [k \in 1 .. Cardinality(calls) |-> BoundaryEvents(o.of, opts)]
             E == On(o.of)
  <2>1. Cardinality(calls) \in Nat
    <3>1. calls \subseteq 1 .. Len(p)
      BY DEF EffectsOn
    <3>2. IsFiniteSet(1 .. Len(p))
      BY FS_Interval
    <3> HIDE DEF calls
    <3> QED BY <3>1, <3>2, FS_Subset, FS_CardinalityType
  <2>2. BoundaryEvents(o.of, opts) \in Seq(E)
    BY <1>1, <1>2, OpFields, CallSpeaks
  <2> HIDE DEF calls, E, o
  <2>3. parts \in [1 .. Cardinality(calls) -> Seq(E)]
    BY <2>2
  <2>4. FlattenSeq(parts) \in Seq(E) /\ << >> \in Seq(E)
    BY <2>1, <2>3, FlattenType
  <2>5. Printed(p, i, opts) = InstrumentedCall(p, i, opts)
    BY <1>2 DEF Printed, o
  <2>6. InstrumentedCall(p, i, opts) \in {<< >>, FlattenSeq(parts)}
    BY DEF InstrumentedCall, calls, o
  <2>7. Spoken(o) = E
    BY <1>2 DEF Spoken, E
  <2> HIDE DEF parts
  <2> QED BY <2>4, <2>5, <2>6, <2>7 DEF o
<1>3. CASE o.op = "storage"
  <2>1. Printed(p, i, opts) = << <<"storage", o.of>> >>
    BY <1>3 DEF Printed, StorageEvents
  <2>2. <<"storage", o.of>> \in Spoken(o)
    BY <1>1, <1>3, OpFields DEF Spoken, Labels
  <2> QED BY <2>1, <2>2
<1>4. CASE o.op = "network"
  <2>1. Printed(p, i, opts) = << <<"network", o.of>>, <<"network-state", o.of>> >>
    BY <1>4 DEF Printed, FacadeNetworkEvents, StateEvent
  <2>2. <<"network", o.of>> \in Spoken(o) /\ <<"network-state", o.of>> \in Spoken(o)
    BY <1>1, <1>4, OpFields DEF Spoken, Labels
  <2> QED BY <2>1, <2>2
<1>5. CASE o.op \notin {"effect", "storage", "network"}
  <2>1. Printed(p, i, opts) \in {<< >>, << <<"boundary", o.of>> >>}
    BY <1>5 DEF Printed
  <2>2. CASE Printed(p, i, opts) = << >>
    BY <2>2
  <2>3. CASE Printed(p, i, opts) # << >>
    <3>1. o.op = "external" /\ Printed(p, i, opts) = << <<"boundary", o.of>> >>
      BY <1>5, <2>3 DEF Printed
    <3>2. <<"boundary", o.of>> \in Spoken(o)
      BY <1>1, <3>1, OpFields DEF Spoken, Labels
    <3> QED BY <3>1, <3>2
  <2> QED BY <2>2, <2>3
<1> QED BY <1>2, <1>3, <1>4, <1>5

\* No part tells a transfer, and only calls on a boundary tell what is told on it.
LEMMA SpokenKinds ==
  ASSUME NEW o \in Ops
  PROVE  /\ \A e \in Spoken(o) : e[1] # "obligation-transfer" /\ e \in PlainEvents
         /\ \A b \in Boundaries : o # Effect(b) => <<"deterministic", b>> \notin Spoken(o)
         /\ o.op # "network" => \A e \in Spoken(o) : e[1] # "network"
         /\ PrintsOp(o) => /\ HeadOf(o)[1] # "obligation-transfer"
                           /\ \A b \in Boundaries : o # Effect(b) => HeadOf(o) \notin On(b)
         /\ o.op = "transfer" => HeadOf(o)[1] = "obligation-transfer"
<1>1. /\ o.op = "effect" => o = Effect(o.of) /\ o.of \in Boundaries /\ o.of \in Labels
      /\ \A b : o = Effect(b) => o.op = "effect" /\ o.of = b
  BY OpFields, EffectIs DEF Labels, Effect, Op
<1>2. \A e \in Spoken(o) : e[1] # "obligation-transfer" /\ e \in PlainEvents
  BY <1>1 DEF Spoken, On, PlainEvents, Plain
<1>3. \A b \in Boundaries : o # Effect(b) => <<"deterministic", b>> \notin Spoken(o)
  BY <1>1 DEF Spoken, On
<1>4. o.op # "network" => \A e \in Spoken(o) : e[1] # "network"
  BY DEF Spoken, On
<1>5. PrintsOp(o) => HeadOf(o)[1] # "obligation-transfer"
  BY DEF PrintsOp, HeadOf
<1>6. PrintsOp(o) => \A b \in Boundaries : o # Effect(b) => HeadOf(o) \notin On(b)
  BY <1>1 DEF PrintsOp, HeadOf, On
<1>7. o.op = "transfer" => HeadOf(o)[1] = "obligation-transfer"
  BY DEF HeadOf
<1> QED BY <1>2, <1>3, <1>4, <1>5, <1>6, <1>7

-----------------------------------------------------------------------------
\* What the harness prints before the failure.
Body(p, opts) == TargetEvents(p, opts) \o Terminal(p, opts).transfers

\* Its two parts.
LEMMA BodyParts ==
  ASSUME NEW p \in Seq(Ops), NEW opts \in Options, Terminal(p, opts) \in Terminals
  PROVE  /\ TargetEvents(p, opts) \in Seq(PlainEvents)
         /\ Terminal(p, opts).transfers \in Seq(PlainEvents)
         /\ Body(p, opts) \in Seq(PlainEvents)
         /\ \A x \in 1 .. Len(Terminal(p, opts).transfers) :
              Terminal(p, opts).transfers[x][1] = "obligation-transfer"
<1> DEFINE E == PlainEvents
           told == Terminal(p, opts).transfers
           T == {"obligation-transfer"} \X Labels
<1>1. TargetEvents(p, opts) \in Seq(E)
  BY TargetTypes
<1>2. told \in Seq(T)
  BY DEF Terminals
<1>3. T \subseteq E
  BY DEF PlainEvents, Plain
<1> HIDE DEF E, told
<1>4. \A x \in 1 .. Len(told) : told[x] \in T
  BY <1>2
<1>5. told \in Seq(E)
  BY <1>2, <1>3, SeqMore
<1> QED BY <1>1, <1>4, <1>5, JoinType DEF Body, told, E

\* No transfer is printed by the target function.
LEMMA TargetTellsNoTransfer ==
  ASSUME NEW p \in Seq(Ops), NEW opts \in Options, NEW x \in 1 .. Len(TargetEvents(p, opts))
  PROVE  TargetEvents(p, opts)[x][1] # "obligation-transfer"
<1> DEFINE n == Len(p)
           N == {e \in PlainEvents : e[1] # "obligation-transfer"}
           parts == TargetParts(p, opts)
           t == TargetEvents(p, opts)
<1>1. n \in Nat /\ DOMAIN p = 1 .. n /\ \A i \in 1 .. n : p[i] \in Ops
  OBVIOUS
<1>2. \A i \in 1 .. n : Printed(p, i, opts) \in Seq(N)
  <2> SUFFICES ASSUME NEW i \in 1 .. n PROVE Printed(p, i, opts) \in Seq(N)
    OBVIOUS
  <2>1. Printed(p, i, opts) \in Seq(Spoken(p[i]))
    BY PartSpeaks
  <2>2. Spoken(p[i]) \subseteq N
    BY <1>1, SpokenKinds
  <2> QED BY <2>1, <2>2, SeqMore
<1> HIDE DEF N
<1>3. parts \in [1 .. n -> Seq(N)]
  BY <1>1, <1>2 DEF TargetParts
<1>4. t = FlattenSeq(parts)
  BY TargetPartTypes
<1> HIDE DEF parts, n, t
<1>5. t \in Seq(N)
  BY <1>1, <1>3, <1>4, FlattenType
<1>6. t[x] \in N
  BY <1>5 DEF t
<1> QED BY <1>6 DEF N, t

\* Nothing follows a transfer that is no transfer.
LEMMA BodyIsNotLate ==
  ASSUME NEW p \in Seq(Ops), NEW opts \in Options, Terminal(p, opts) \in Terminals,
         Traced(p, Body(p, opts))
  PROVE  ~Late(p)
<1> SUFFICES ASSUME NEW i \in DOMAIN p, NEW j \in DOMAIN p,
                    i < j, p[i].op = "transfer", PrintsOp(p[j])
             PROVE  FALSE
  BY DEF Late
<1> DEFINE t == Body(p, opts)
           one == TargetEvents(p, opts)
           other == Terminal(p, opts).transfers
<1>1. PICK at : Placed(p, t, at)
  BY DEF Traced
<1>2. i \in 1 .. Len(p) /\ j \in 1 .. Len(p) /\ p[i] \in Ops /\ p[j] \in Ops
  OBVIOUS
<1>3. /\ at[i] \in 1 .. Len(t) /\ t[at[i]] = HeadOf(p[i])
      /\ at[j] \in 1 .. Len(t) /\ t[at[j]] = HeadOf(p[j])
      /\ at[i] < at[j]
  BY <1>1, <1>2 DEF Placed, Telling
<1>4. t[at[i]][1] = "obligation-transfer" /\ t[at[j]][1] # "obligation-transfer"
  BY <1>2, <1>3, SpokenKinds
<1>5. one \in Seq(PlainEvents) /\ other \in Seq(PlainEvents) /\ t = one \o other
      /\ \A x \in 1 .. Len(other) : other[x][1] = "obligation-transfer"
  BY BodyParts DEF Body
<1>6. \A x \in 1 .. Len(one) : one[x][1] # "obligation-transfer"
  BY TargetTellsNoTransfer
<1> HIDE DEF t, one, other
<1>7. /\ Len(one) \in Nat /\ Len(other) \in Nat /\ Len(t) = Len(one) + Len(other)
      /\ \A x \in 1 .. Len(one) : t[x] = one[x]
      /\ \A x \in 1 .. Len(one) + Len(other) :
           x \notin 1 .. Len(one) => /\ x - Len(one) \in 1 .. Len(other)
                                     /\ t[x] = other[x - Len(one)]
  BY <1>5, JoinFacts
<1>8. at[i] \notin 1 .. Len(one)
  BY <1>4, <1>6, <1>7
<1>9. at[j] \notin 1 .. Len(one) /\ at[j] \in 1 .. Len(one) + Len(other)
  BY <1>3, <1>7, <1>8
<1>10. t[at[j]][1] = "obligation-transfer"
  BY <1>5, <1>7, <1>9
<1> QED BY <1>4, <1>10

\* Between two events on a boundary come only events on it when all of the parts but one are
\* without them and that one has no others.
LEMMA BlockIsWhole ==
  ASSUME NEW S, NEW a \in Seq(S), NEW m \in Seq(S), NEW c \in Seq(S), NEW e, NEW W,
         \A x \in 1 .. Len(a) : a[x] # e, \A x \in 1 .. Len(c) : c[x] # e,
         \A x \in 1 .. Len(m) : m[x] \in W,
         NEW t, t = a \o m \o c,
         NEW x \in 1 .. Len(t), NEW y \in 1 .. Len(t), NEW z \in 1 .. Len(t),
         x < y, y < z, t[x] = e, t[z] = e
  PROVE  t[y] \in W
<1> DEFINE u == a \o m
<1>1. /\ u \in Seq(S) /\ Len(a) \in Nat /\ Len(m) \in Nat /\ Len(u) = Len(a) + Len(m)
      /\ \A k \in 1 .. Len(a) : u[k] = a[k]
      /\ \A k \in 1 .. Len(a) + Len(m) :
           k \notin 1 .. Len(a) => k - Len(a) \in 1 .. Len(m) /\ u[k] = m[k - Len(a)]
  BY JoinFacts
<1>2. t = u \o c
  OBVIOUS
<1> DEFINE v == u \o c
<1> HIDE DEF u
<1>3. /\ Len(c) \in Nat /\ Len(t) = Len(u) + Len(c)
      /\ \A k \in 1 .. Len(u) : t[k] = u[k]
      /\ \A k \in 1 .. Len(u) + Len(c) :
           k \notin 1 .. Len(u) => k - Len(u) \in 1 .. Len(c) /\ t[k] = c[k - Len(u)]
  <2>0. u \in Seq(S)
    BY <1>1
  <2>1. /\ Len(c) \in Nat /\ Len(v) = Len(u) + Len(c)
        /\ \A k \in 1 .. Len(u) : v[k] = u[k]
        /\ \A k \in 1 .. Len(u) + Len(c) :
             k \notin 1 .. Len(u) => k - Len(u) \in 1 .. Len(c) /\ v[k] = c[k - Len(u)]
    BY <2>0, JoinFacts
  <2> HIDE DEF v
  <2>2. t = v
    BY <1>2 DEF v
  <2> QED BY <2>1, <2>2
<1>4. z \in 1 .. Len(u)
  BY <1>3
<1>5. x \notin 1 .. Len(a)
  BY <1>1, <1>3
<1>6. y \in 1 .. Len(u) /\ y \notin 1 .. Len(a)
  BY <1>1, <1>4, <1>5
<1>7. y - Len(a) \in 1 .. Len(m) /\ t[y] = m[y - Len(a)]
  BY <1>1, <1>3, <1>6
<1> QED BY <1>7

\* All the calls on a boundary are printed together.
LEMMA BodyIsNotDivided ==
  ASSUME NEW p \in Seq(Ops), NEW opts \in Options, Terminal(p, opts) \in Terminals,
         Traced(p, Body(p, opts))
  PROVE  ~Divided(p)
<1> SUFFICES ASSUME NEW i \in DOMAIN p, NEW j \in DOMAIN p, NEW k \in DOMAIN p,
                    i < j, j < k, PrintsOp(p[j]), p[i].op = "effect", p[i] = p[k], p[j] # p[i]
             PROVE  FALSE
  BY DEF Divided
<1> DEFINE b == p[i].of
           e == <<"deterministic", b>>
           E == PlainEvents
           n == Len(p)
           t == Body(p, opts)
           told == Terminal(p, opts).transfers
           parts == TargetParts(p, opts)
           l == LeastOf(EffectsOn(p, b))
           C == {s \in Seq(E) : \A x \in 1 .. Len(s) : s[x] # e}
<1>1. /\ n \in Nat /\ i \in 1 .. n /\ j \in 1 .. n /\ k \in 1 .. n
      /\ p[i] \in Ops /\ p[j] \in Ops /\ p[k] \in Ops /\ p \in Seq(Ops)
      /\ \A h \in 1 .. n : p[h] \in Ops
  OBVIOUS
<1>2. p[i] = Effect(b) /\ b \in Boundaries
  BY <1>1, EffectIs
<1>3. i \in EffectsOn(p, b)
  BY <1>2 DEF EffectsOn
<1>4. l \in 1 .. n /\ p[l] = Effect(b)
  <2>1. l \in 1 .. n /\ l \in EffectsOn(p, b)
    BY <1>3, FirstCall
  <2> QED BY <2>1 DEF EffectsOn
<1>5. parts \in [1 .. n -> Seq(E)] /\ TargetEvents(p, opts) = FlattenSeq(parts)
  BY TargetPartTypes
<1>6. Joinable(C, E)
  <2>1. C \subseteq Seq(E) /\ << >> \in C
    OBVIOUS
  <2>2. ASSUME NEW one \in C, NEW other \in C PROVE one \o other \in C
    <3>1. one \in Seq(E) /\ other \in Seq(E)
          /\ (\A x \in 1 .. Len(one) : one[x] # e) /\ (\A x \in 1 .. Len(other) : other[x] # e)
      OBVIOUS
    <3> HIDE DEF C, E, e
    <3>2. one \o other \in Seq(E) /\ \A x \in 1 .. Len(one \o other) : (one \o other)[x] # e
      BY <3>1, JoinFacts
    <3> QED BY <3>2 DEF C
  <2> HIDE DEF C, E
  <2> QED BY <2>1, <2>2 DEF Joinable
<1>7. \A h \in 1 .. n : h # l => parts[h] \in C
  <2> SUFFICES ASSUME NEW h \in 1 .. n, h # l PROVE parts[h] \in C
    OBVIOUS
  <2>1. parts[h] = Printed(p, h, opts) /\ parts[h] \in Seq(E)
    BY <1>5 DEF TargetParts
  <2>2. CASE p[h] = Effect(b)
    <3>1. p[h].op = "effect" /\ p[h].of = b
      BY <2>2 DEF Effect, Op
    <3>2. parts[h] = << >>
      BY <2>1, <3>1, SilentCall
    <3> QED BY <3>2
  <2>3. CASE p[h] # Effect(b)
    <3>1. parts[h] \in Seq(Spoken(p[h]))
      BY <2>1, PartSpeaks
    <3>2. e \notin Spoken(p[h])
      BY <1>1, <1>2, <2>3, SpokenKinds
    <3> HIDE DEF e, parts, E
    <3>3. \A x \in 1 .. Len(parts[h]) : parts[h][x] # e
      BY <3>1, <3>2
    <3> QED BY <2>1, <3>3
  <2> QED BY <2>2, <2>3
<1>8. parts[l] \in Seq(On(b)) /\ parts[l] \in Seq(E)
  <2>1. parts[l] = Printed(p, l, opts) /\ parts[l] \in Seq(E)
    BY <1>4, <1>5 DEF TargetParts
  <2>2. Spoken(p[l]) = On(b)
    BY <1>4 DEF Spoken, Effect, Op
  <2> QED BY <1>4, <2>1, <2>2, PartSpeaks
<1>9. told \in C
  <2>1. told \in Seq(E) /\ \A x \in 1 .. Len(told) : told[x][1] = "obligation-transfer"
    BY BodyParts
  <2>2. e[1] # "obligation-transfer"
    OBVIOUS
  <2> HIDE DEF e, told, E
  <2> QED BY <2>1, <2>2
<1>10. t = TargetEvents(p, opts) \o told
  BY DEF Body
<1>11. PICK at : Placed(p, t, at)
  BY DEF Traced
<1>12. /\ at[i] \in 1 .. Len(t) /\ t[at[i]] = HeadOf(p[i])
       /\ at[j] \in 1 .. Len(t) /\ t[at[j]] = HeadOf(p[j])
       /\ at[k] \in 1 .. Len(t) /\ t[at[k]] = HeadOf(p[k])
       /\ at[i] < at[j] /\ at[j] < at[k]
  BY <1>1, <1>11 DEF Placed, Telling, PrintsOp
<1>13. HeadOf(p[i]) = e /\ HeadOf(p[k]) = e
  BY DEF HeadOf
<1>14. HeadOf(p[j]) \notin On(b)
  BY <1>1, <1>2, SpokenKinds
<1> HIDE DEF C, E, n, parts, told, t, l, e
<1>15. PICK a \in C, c \in C : FlattenSeq(parts) = a \o parts[l] \o c
  <2>1. n \in Nat /\ l \in 1 .. n /\ parts \in [1 .. n -> Seq(E)]
    BY <1>1, <1>4, <1>5
  <2>2. Between(C, parts[l], FlattenSeq(parts))
    BY <2>1, <1>6, <1>7, FlattenSplit
  <2> QED BY <2>2 DEF Between
<1>16. c \o told \in C
  BY <1>6, <1>9 DEF Joinable
<1>17. a \in Seq(E) /\ c \in Seq(E) /\ told \in Seq(E) /\ c \o told \in Seq(E)
  BY <1>9, <1>16 DEF C
<1>18. t = a \o parts[l] \o (c \o told)
  <2> DEFINE one == a \o parts[l]
  <2>1. one \in Seq(E)
    BY <1>8, <1>17, JoinType
  <2>2. t = (one \o c) \o told
    BY <1>5, <1>10, <1>15
  <2> HIDE DEF one
  <2>3. (one \o c) \o told = one \o (c \o told)
    <3>1. c \in Seq(E) /\ told \in Seq(E)
      BY <1>17
    <3> QED BY <2>1, <3>1, JoinAssociates
  <2> QED BY <2>2, <2>3 DEF one
<1>19. \A x \in 1 .. Len(parts[l]) : parts[l][x] \in On(b)
  BY <1>8
<1>20. (\A x \in 1 .. Len(a) : a[x] # e) /\ (\A x \in 1 .. Len(c \o told) : (c \o told)[x] # e)
  BY <1>16 DEF C
<1> DEFINE m == parts[l]
           rest == c \o told
           x == at[i]
           y == at[j]
           z == at[k]
           W == On(b)
<1>21. /\ a \in Seq(E) /\ m \in Seq(E) /\ rest \in Seq(E) /\ t = a \o m \o rest
       /\ (\A h \in 1 .. Len(a) : a[h] # e) /\ (\A h \in 1 .. Len(rest) : rest[h] # e)
       /\ (\A h \in 1 .. Len(m) : m[h] \in W)
       /\ x \in 1 .. Len(t) /\ y \in 1 .. Len(t) /\ z \in 1 .. Len(t)
       /\ x < y /\ y < z /\ t[x] = e /\ t[z] = e
  BY <1>8, <1>12, <1>13, <1>17, <1>18, <1>19, <1>20
<1>22. y \in 1 .. Len(t) /\ t[y] = HeadOf(p[j]) /\ HeadOf(p[j]) \notin W
  BY <1>12, <1>14
<1> HIDE DEF m, rest, x, y, z, W
<1>23. t[y] \in W
  BY <1>21, BlockIsWhole
<1> QED BY <1>22, <1>23

\* Every network action is printed with the state.
LEMMA BodyTellsStates ==
  ASSUME NEW p \in Seq(Ops), NEW opts \in Options, Terminal(p, opts) \in Terminals
  PROVE  ~LostSeen(Body(p, opts))
<1> DEFINE E == PlainEvents
           n == Len(p)
           told == Terminal(p, opts).transfers
           parts == TargetParts(p, opts)
           C == {s \in Seq(E) : ~LostSeen(s)}
<1>1. n \in Nat /\ \A h \in 1 .. n : p[h] \in Ops
  OBVIOUS
<1>2. parts \in [1 .. n -> Seq(E)] /\ TargetEvents(p, opts) = FlattenSeq(parts)
  BY TargetPartTypes
<1>3. \A s \in Seq(E) : (\A x \in 1 .. Len(s) : s[x][1] # "network") => s \in C
  BY DEF LostSeen
<1>4. Joinable(C, E)
  <2>1. C \subseteq Seq(E) /\ << >> \in C
    <3>1. << >> \in Seq(E) /\ \A x \in 1 .. Len(<< >>) : << >>[x][1] # "network"
      OBVIOUS
    <3> QED BY <1>3, <3>1
  <2>2. ASSUME NEW one \in C, NEW other \in C PROVE one \o other \in C
    <3> DEFINE u == one \o other
    <3>1. /\ \A x \in 1 .. Len(one) : one[x][1] = "network" =>
               x + 1 <= Len(one) /\ one[x + 1][1] = "network-state"
          /\ \A x \in 1 .. Len(other) : other[x][1] = "network" =>
               x + 1 <= Len(other) /\ other[x + 1][1] = "network-state"
          /\ one \in Seq(E) /\ other \in Seq(E)
      BY DEF LostSeen
    <3> HIDE DEF C, E
    <3>2. /\ u \in Seq(E) /\ Len(one) \in Nat /\ Len(other) \in Nat
          /\ Len(u) = Len(one) + Len(other)
          /\ \A x \in 1 .. Len(one) : u[x] = one[x]
          /\ \A x \in 1 .. Len(other) : u[Len(one) + x] = other[x]
          /\ \A x \in 1 .. Len(one) + Len(other) :
               x \notin 1 .. Len(one) => x - Len(one) \in 1 .. Len(other) /\ u[x] = other[x - Len(one)]
      BY <3>1, JoinFacts
    <3> HIDE DEF u
    <3>3. ASSUME NEW x \in 1 .. Len(u), u[x][1] = "network"
          PROVE  x + 1 <= Len(u) /\ u[x + 1][1] = "network-state"
      <4>1. CASE x \in 1 .. Len(one)
        <5>1. x + 1 <= Len(one) /\ one[x + 1][1] = "network-state"
          BY <3>1, <3>2, <3>3, <4>1
        <5>2. x + 1 \in 1 .. Len(one)
          BY <3>2, <4>1, <5>1
        <5> QED BY <3>2, <5>1, <5>2
      <4>2. CASE x \notin 1 .. Len(one)
        <5>1. x - Len(one) \in 1 .. Len(other) /\ u[x] = other[x - Len(one)]
          BY <3>2, <4>2
        <5>2. /\ (x - Len(one)) + 1 <= Len(other)
              /\ other[(x - Len(one)) + 1][1] = "network-state"
          BY <3>1, <3>3, <5>1
        <5>3. (x - Len(one)) + 1 \in 1 .. Len(other)
          BY <3>2, <5>1, <5>2
        <5>4. u[Len(one) + ((x - Len(one)) + 1)] = other[(x - Len(one)) + 1]
          BY <3>2, <5>3
        <5>5. Len(one) + ((x - Len(one)) + 1) = x + 1 /\ x + 1 <= Len(u)
          BY <3>2, <5>2
        <5> QED BY <5>2, <5>4, <5>5
      <4> QED BY <4>1, <4>2
    <3>4. ~LostSeen(u)
      BY <3>3 DEF LostSeen
    <3> QED BY <3>2, <3>4 DEF C, u
  <2> HIDE DEF C, E
  <2> QED BY <2>1, <2>2 DEF Joinable
<1>5. \A h \in 1 .. n : parts[h] \in C
  <2> SUFFICES ASSUME NEW h \in 1 .. n PROVE parts[h] \in C
    OBVIOUS
  <2>1. parts[h] = Printed(p, h, opts) /\ parts[h] \in Seq(E)
    BY <1>2 DEF TargetParts
  <2>2. CASE p[h].op = "network"
    <3>1. parts[h] = << <<"network", p[h].of>>, <<"network-state", p[h].of>> >>
      BY <2>1, <2>2 DEF Printed, FacadeNetworkEvents, StateEvent
    <3> DEFINE s == << <<"network", p[h].of>>, <<"network-state", p[h].of>> >>
    <3>2. Len(s) = 2 /\ s[2][1] = "network-state"
      OBVIOUS
    <3> HIDE DEF s
    <3>3. ~LostSeen(s)
      BY <3>2 DEF LostSeen
    <3> QED BY <2>1, <3>1, <3>3 DEF s
  <2>3. CASE p[h].op # "network"
    <3>1. parts[h] \in Seq(Spoken(p[h]))
      BY <2>1, PartSpeaks
    <3>2. \A d \in Spoken(p[h]) : d[1] # "network"
      BY <1>1, <2>3, SpokenKinds
    <3> HIDE DEF parts, C
    <3>3. \A x \in 1 .. Len(parts[h]) : parts[h][x][1] # "network"
      BY <3>1, <3>2
    <3> QED BY <1>3, <2>1, <3>3
  <2> QED BY <2>2, <2>3
<1>6. told \in C
  <2>1. told \in Seq(E) /\ \A x \in 1 .. Len(told) : told[x][1] = "obligation-transfer"
    BY BodyParts
  <2> HIDE DEF told, C
  <2> QED BY <1>3, <2>1
<1> HIDE DEF C, E, n, parts, told
<1>7. parts \in [1 .. n -> C]
  BY <1>2, <1>5
<1>8. FlattenSeq(parts) \in C
  BY <1>1, <1>4, <1>7, FlattenKeeps
<1>9. FlattenSeq(parts) \o told \in C
  BY <1>4, <1>6, <1>8 DEF Joinable
<1> QED BY <1>2, <1>9 DEF Body, C, told

-----------------------------------------------------------------------------
\* Two events told one after the other.
LEMMA JoinTwo ==
  ASSUME NEW S, NEW d \in S, NEW e \in S
  PROVE  << d >> \o << e >> = << d, e >>
<1> DEFINE one == << d >>
           other == << e >>
           u == one \o other
<1>1. /\ one \in Seq(S) /\ Len(one) = 1 /\ one[1] = d
      /\ other \in Seq(S) /\ Len(other) = 1 /\ other[1] = e
  OBVIOUS
<1> HIDE DEF one, other
<1>2. /\ u \in Seq(S) /\ Len(u) = 2 /\ u[1] = d /\ u[2] = e
  <2>1. /\ u \in Seq(S) /\ Len(u) = Len(one) + Len(other)
        /\ \A x \in 1 .. Len(one) : u[x] = one[x]
        /\ \A x \in 1 .. Len(other) : u[Len(one) + x] = other[x]
    BY <1>1, JoinFacts
  <2>2. 1 \in 1 .. 1 /\ 1 + 1 = 2
    OBVIOUS
  <2> QED BY <1>1, <2>1, <2>2
<1> HIDE DEF u
<1>3. u = << d, e >>
  BY <1>2
<1> QED BY <1>3 DEF u, one, other
\* What a turn of the fold does to the rest of its state.
LEMMA AppliedRest ==
  ASSUME NEW h \in Terminals, NEW o \in Ops, NEW opts
  PROVE  /\ Applied(h, o, opts).storage =
              CASE o.op = "discharge" -> NoteAction(h.storage, o.by)
                [] o.op = "storage"   -> StorageAfter(h.storage, o.of)
                [] OTHER              -> h.storage
         /\ Applied(h, o, opts).network =
              IF o.op = "network" THEN NetworkAfter(h.network, o.of) ELSE h.network
         /\ Applied(h, o, opts).transfers =
              IF o.op = "transfer" THEN Append(h.transfers, <<"obligation-transfer", o.of>>)
              ELSE h.transfers
         /\ Applied(h, o, opts).failure =
              CASE o.op = "unresolved" ->
                     FirstFailure(h.failure, Failure("K0100", "unresolved", o.of))
                [] o.op = "effect"  ->
                     FirstFailure(h.failure, ScheduleFailure(o.of, opts, h.obligations))
                [] o.op = "storage" ->
                     FirstFailure(h.failure, StorageFailure(StorageAfter(h.storage, o.of), o.of))
                [] o.op = "network" ->
                     FirstFailure(h.failure, NetworkFailure(h.network, o.of))
                [] OTHER            -> h.failure
<1> DEFINE Rest(g) == <<g.storage, g.network, g.transfers, g.failure>>
<1>1. \A f : Rest(FailWith(h, f)) =
               <<h.storage, h.network, h.transfers, FirstFailure(h.failure, f)>>
  BY DEF FailWith, Terminals
<1>2. \A s, f :
        /\ Rest(FailWith([h EXCEPT !.storage = s], f)) =
             <<s, h.network, h.transfers, FirstFailure(h.failure, f)>>
        /\ Rest(FailWith([h EXCEPT !.network = s], f)) =
             <<h.storage, s, h.transfers, FirstFailure(h.failure, f)>>
  BY DEF FailWith, Terminals
<1>3. CASE o.op = "create"
  BY <1>3 DEF Applied, Terminals
<1>4. CASE o.op = "discharge"
  BY <1>4 DEF Applied, Terminals
<1>5. CASE o.op = "transfer"
  BY <1>5 DEF Applied, Terminals
<1>6. CASE o.op = "unresolved"
  <2>1. Applied(h, o, opts) = FailWith(h, Failure("K0100", "unresolved", o.of))
    BY <1>6 DEF Applied
  <2> QED BY <1>1, <1>6, <2>1
<1>7. CASE o.op = "effect"
  <2>1. Applied(h, o, opts) = FailWith(h, ScheduleFailure(o.of, opts, h.obligations))
    BY <1>7 DEF Applied
  <2> QED BY <1>1, <1>7, <2>1
<1>8. CASE o.op = "storage"
  <2> DEFINE s == StorageAfter(h.storage, o.of)
             f == StorageFailure(StorageAfter(h.storage, o.of), o.of)
  <2>1. Applied(h, o, opts) = FailWith([h EXCEPT !.storage = s], f)
    BY <1>8 DEF Applied, Terminals
  <2>2. Rest(Applied(h, o, opts)) = <<s, h.network, h.transfers, FirstFailure(h.failure, f)>>
    BY <1>2, <2>1
  <2> HIDE DEF s, f
  <2>3. /\ Applied(h, o, opts).storage = s /\ Applied(h, o, opts).network = h.network
        /\ Applied(h, o, opts).transfers = h.transfers
        /\ Applied(h, o, opts).failure = FirstFailure(h.failure, f)
    BY <2>2
  <2> QED BY <1>8, <2>3 DEF s, f
<1>9. CASE o.op = "network"
  <2>1. Applied(h, o, opts) =
          FailWith([h EXCEPT !.network = NetworkAfter(h.network, o.of)],
                   NetworkFailure(h.network, o.of))
    BY <1>9 DEF Applied, Terminals
  <2> QED BY <1>2, <1>9, <2>1
<1>10. CASE o.op \notin {"create", "discharge", "transfer", "unresolved", "effect", "storage",
                         "network"}
  BY <1>10 DEF Applied
<1> QED BY <1>3, <1>4, <1>5, <1>6, <1>7, <1>8, <1>9, <1>10

\* The fold over one operation more.
LEMMA TerminalGrows ==
  ASSUME NEW p \in Seq(Ops), NEW o \in Ops, NEW opts
  PROVE  Terminal(Append(p, o), opts) = Applied(Terminal(p, opts), o, opts)
<1> DEFINE n == Len(p)
           q == Append(p, o)
<1>1. /\ n \in Nat /\ DOMAIN p = 1 .. n /\ DOMAIN q = 1 .. n + 1
      /\ \A k \in 1 .. n : q[k] = p[k]
      /\ q[n + 1] = o
  BY Appended
<1> HIDE DEF n, q
<1>2. Terminal(q, opts) = Applied(Terminal(p, opts), o, opts)
  BY <1>1, TerminalRule
<1> QED BY <1>2 DEF q

-----------------------------------------------------------------------------
(***************************************************************************)
(* The state of the message.  While no network action is lost, it is in    *)
(* flight when a send is followed by no receive, and deliverable when a    *)
(* drop does not follow either.                                            *)
(***************************************************************************)
FollowsMessage(p, n) ==
  ~Lost(p) => /\ n.inFlight <=> Pending(p, {Network("receive")})
              /\ Deliverable(n) <=> Pending(p, {Network("receive"), Network("drop")})

\* A network action meets its message when it has waited for it.
LEMMA WaitsApply ==
  ASSUME NEW p, NEW n, NEW o \in Ops, o.op = "network", ~Lost(p), FollowsMessage(p, n)
  PROVE  Applies(n, o.of) <=> o.of = "send" \/ Pending(p, Enders(o))
<1>1. /\ o.of \in NetworkActions /\ o = Network(o.of)
      /\ \A a : Network(a).of = a
  BY OpFields DEF Network, Op
<1>2. o.of = "drop" => Enders(o) = {Network("receive")}
  <2>1. o.of = "drop" => {Network("drop")} \ {o} = {}
    BY <1>1
  <2> QED BY <2>1 DEF Enders
<1>3. o.of # "drop" => Enders(o) = {Network("receive"), Network("drop")}
  <2>1. o.of # "drop" => o # Network("drop")
    BY <1>1
  <2> QED BY <2>1 DEF Enders
<1> QED BY <1>1, <1>2, <1>3 DEF FollowsMessage, Applies, NetworkActions

\* An operation moves the message as the scenario says.
LEMMA MessageGrows ==
  ASSUME NEW p \in Seq(Ops), NEW o \in Ops, NEW n \in Networks, FollowsMessage(p, n),
         NEW new, new = IF o.op = "network" THEN NetworkAfter(n, o.of) ELSE n
  PROVE  FollowsMessage(Append(p, o), new)
<1> DEFINE q == Append(p, o)
<1> SUFFICES ASSUME ~Lost(q)
             PROVE  /\ new.inFlight <=> Pending(q, {Network("receive")})
                    /\ Deliverable(new) <=> Pending(q, {Network("receive"), Network("drop")})
  BY DEF FollowsMessage
<1>1. ~Lost(p) /\ (o.op = "network" /\ o.of # "send" => Pending(p, Enders(o)))
  BY LostGrows
<1>2. /\ n.inFlight <=> Pending(p, {Network("receive")})
      /\ Deliverable(n) <=> Pending(p, {Network("receive"), Network("drop")})
  BY <1>1 DEF FollowsMessage
<1>3. /\ \A a, c : Network(a) = Network(c) => a = c
      /\ \A a : Network(a).op = "network" /\ Network(a).of = a
      /\ o.op = "network" => o = Network(o.of) /\ o.of \in NetworkActions
  BY OpFields DEF Network, Op
<1>4. /\ Pending(q, {Network("receive")}) <=>
           o = Network("send") \/ (o # Network("receive") /\ Pending(p, {Network("receive")}))
      /\ Pending(q, {Network("receive"), Network("drop")}) <=>
           \/ o = Network("send")
           \/ /\ o # Network("receive") /\ o # Network("drop")
              /\ Pending(p, {Network("receive"), Network("drop")})
  <2>1. Network("send") \notin {Network("receive"), Network("drop")}
    BY <1>3
  <2>2. \A ops : Network("send") \notin ops =>
          (Pending(q, ops) <=> o = Network("send") \/ (o \notin ops /\ Pending(p, ops)))
    BY PendingGrows
  <2> QED BY <2>1, <2>2
<1> HIDE DEF q
<1>5. CASE o.op # "network"
  BY <1>2, <1>3, <1>4, <1>5
<1>6. CASE o.op = "network"
  <2>1. /\ o = Network(o.of) /\ o.of \in {"send", "delay", "drop", "receive"}
        /\ new = NetworkAfter(n, o.of)
    BY <1>3, <1>6 DEF NetworkActions
  <2>2. Applies(n, o.of)
    BY <1>1, <1>6, WaitsApply
  <2>3. CASE o.of = "send"
    BY <1>4, <2>1, <2>3 DEF NetworkAfter, Deliverable
  <2>4. CASE o.of = "delay"
    <3>1. o # Network("send") /\ o # Network("receive") /\ o # Network("drop")
      BY <1>3, <2>4
    <3>2. new = n
      BY <2>1, <2>4 DEF NetworkAfter
    <3> QED BY <1>2, <1>4, <3>1, <3>2
  <2>5. CASE o.of = "drop"
    <3>1. o # Network("send") /\ o # Network("receive") /\ o = Network("drop")
      BY <1>3, <2>1, <2>5
    <3>2. n.inFlight /\ new = [n EXCEPT !.dropped = TRUE]
      BY <2>1, <2>2, <2>5 DEF NetworkAfter, Applies
    <3>3. new.inFlight = n.inFlight /\ new.dropped = TRUE
      BY <3>2 DEF Networks
    <3> QED BY <1>2, <1>4, <3>1, <3>3 DEF Deliverable
  <2>6. CASE o.of = "receive"
    <3>1. o # Network("send") /\ o = Network("receive")
      BY <1>3, <2>1, <2>6
    <3>2. Deliverable(n) /\ new = [n EXCEPT !.inFlight = FALSE]
      BY <2>1, <2>2, <2>6 DEF NetworkAfter, Applies
    <3>3. new.inFlight = FALSE
      BY <3>2 DEF Networks
    <3> QED BY <1>4, <3>1, <3>3 DEF Deliverable
  <2> QED BY <2>1, <2>3, <2>4, <2>5, <2>6
<1> QED BY <1>5, <1>6

-----------------------------------------------------------------------------
\* The fold has no transfer to tell when there was none.
NoneTransferred(p, opts) ==
  (\A i \in 1 .. Len(p) : p[i].op # "transfer") => Terminal(p, opts).transfers = << >>

\* One operation more transfers something or not.
LEMMA TransferredGrows ==
  ASSUME NEW p \in Seq(Ops), NEW o \in Ops, NEW opts, Terminal(p, opts) \in Terminals,
         NoneTransferred(p, opts)
  PROVE  NoneTransferred(Append(p, o), opts)
<1> DEFINE q == Append(p, o)
<1>1. /\ Len(p) \in Nat /\ Len(q) = Len(p) + 1
      /\ \A k \in 1 .. Len(p) : q[k] = p[k]
      /\ q[Len(p) + 1] = o
  BY Appended
<1>2. Terminal(q, opts).transfers =
        IF o.op = "transfer"
          THEN Append(Terminal(p, opts).transfers, <<"obligation-transfer", o.of>>)
          ELSE Terminal(p, opts).transfers
  BY TerminalGrows, AppliedRest
<1> HIDE DEF q
<1>3. ASSUME \A i \in 1 .. Len(q) : q[i].op # "transfer"
      PROVE  Terminal(q, opts).transfers = << >>
  <2>1. o.op # "transfer" /\ \A i \in 1 .. Len(p) : p[i].op # "transfer"
    BY <1>1, <1>3
  <2> QED BY <1>2, <2>1 DEF NoneTransferred
<1> QED BY <1>3 DEF NoneTransferred, q

\* Of an orderly scenario the harness prints at the end what the last operation tells.
LEMMA BodyGrows ==
  ASSUME NEW p \in Seq(Ops), NEW o \in Ops, NEW opts \in Options, NEW n,
         Terminal(p, opts) \in Terminals, NoneTransferred(p, opts), Owned(o),
         InOrder(Append(p, o)), o.op = "network" => Applies(n, o.of)
  PROVE  Body(Append(p, o), opts) = Body(p, opts) \o Tells(o, n, opts)
<1> DEFINE q == Append(p, o)
           E == PlainEvents
           one == TargetEvents(p, opts)
           told == Terminal(p, opts).transfers
           ev == Tells(o, n, opts)
<1>1. TargetEvents(q, opts) = one \o Gives(o, opts)
  <2>1. CASE o.op = "effect" => \A i \in 1 .. Len(p) : p[i] # o
    BY <2>1, TargetGrowsAtEnd
  <2>2. CASE o.op = "effect" /\ ~\A i \in 1 .. Len(p) : p[i] # o
    <3> DEFINE calls == EffectsOn(p, o.of)
    <3>1. calls # {}
      BY <2>2, EffectIs DEF EffectsOn
    <3>2. LeastOf(calls) \in 1 .. Len(p) /\ LeastOf(calls) \in calls
      BY <3>1, FirstCall
    <3>3. p[LeastOf(calls)] = o
      BY <2>2, <3>2, EffectIs DEF EffectsOn
    <3> HIDE DEF calls
    <3>4. \A i, j \in 1 .. Len(p) : i < j /\ p[i] = o /\ PrintsOp(p[j]) => p[j] = o
      BY <2>2, InOrderBefore
    <3>5. \A j \in 1 .. Len(p) : j > LeastOf(calls) /\ PrintsOp(p[j]) => p[j] = o
      BY <3>2, <3>3, <3>4
    <3> QED BY <2>2, <3>1, <3>5, TargetGrowsAtCall DEF calls
  <2> QED BY <2>1, <2>2
<1>2. Terminal(q, opts).transfers =
        IF o.op = "transfer" THEN Append(told, <<"obligation-transfer", o.of>>) ELSE told
  BY TerminalGrows, AppliedRest
<1>3. one \in Seq(E) /\ told \in Seq(E)
  BY BodyParts
<1>4. ev \in Seq(E) /\ (~Telling(o) => ev = << >>)
  BY TellsHead
<1>5. Body(p, opts) = one \o told /\ Body(q, opts) = TargetEvents(q, opts) \o Terminal(q, opts).transfers
  BY DEF Body
<1> HIDE DEF q, E, one, told, ev
<1>6. CASE PrintsOp(o)
  <2>1. told = << >>
    BY <1>6, InOrderBefore DEF NoneTransferred, told
  <2>2. Terminal(q, opts).transfers = << >>
    BY <1>2, <1>6, <2>1 DEF PrintsOp
  <2>3. ev = Gives(o, opts)
    <3>1. o.op = "network" => NetworkEvents(n, o.of) = FacadeNetworkEvents(o.of)
      <4>1. \A d, e : << d >> \o << e >> = << d, e >>
        <5>1. \A d, e : d \in {d, e} /\ e \in {d, e}
          OBVIOUS
        <5> QED BY <5>1, JoinTwo
      <4>2. o.op = "network" => NetworkEvents(n, o.of) =
                                  << <<"network", o.of>> >> \o << StateEvent(o.of) >>
        BY DEF NetworkEvents
      <4> QED BY <4>1, <4>2 DEF FacadeNetworkEvents
    <3>2. o.op = "external" => o.of \in OwnedPolicies
      BY DEF Owned
    <3> QED BY <1>6, <3>1, <3>2 DEF ev, Tells, Gives, PrintsOp
  <2>4. one \o ev \in Seq(E)
    BY <1>3, <1>4, JoinType
  <2>5. \A s \in Seq(E) : s \o << >> = s
    OBVIOUS
  <2> QED BY <1>1, <1>3, <1>5, <2>1, <2>2, <2>3, <2>4, <2>5 DEF q, ev
<1>7. CASE ~PrintsOp(o)
  <2>1. Gives(o, opts) = << >>
    BY <1>7 DEF Gives, PrintsOp
  <2>2. TargetEvents(q, opts) = one
    BY <1>1, <1>3, <2>1
  <2>3. CASE o.op = "transfer"
    <3> DEFINE e == <<"obligation-transfer", o.of>>
    <3>1. ev = << e >>
      BY <2>3 DEF ev, Tells
    <3>2. Terminal(q, opts).transfers = Append(told, e)
      BY <1>2, <2>3
    <3>3. e \in E
      BY <2>3, OpFields DEF E, PlainEvents, Plain, Labels
    <3> HIDE DEF e
    <3>4. Append(told, e) = told \o << e >> /\ << e >> \in Seq(E)
      BY <1>3, <3>3
    <3>5. (one \o told) \o << e >> = one \o (told \o << e >>)
      BY <1>3, <3>4, JoinAssociates
    <3> QED BY <1>5, <2>2, <3>1, <3>2, <3>4, <3>5 DEF q, ev
  <2>4. CASE o.op # "transfer"
    <3>1. ev = << >> /\ Terminal(q, opts).transfers = told
      BY <1>2, <1>4, <1>7, <2>4 DEF Telling
    <3>2. one \o told \in Seq(E)
      BY <1>3, JoinType
    <3>3. \A s \in Seq(E) : s \o << >> = s
      OBVIOUS
    <3> QED BY <1>5, <2>2, <3>1, <3>2, <3>3 DEF q, ev
  <2> QED BY <2>3, <2>4
<1> QED BY <1>6, <1>7

-----------------------------------------------------------------------------
(***************************************************************************)
(* The semantic engine, one operation at a time: it tells what Tells says, *)
(* and its state is that of the harness's fold, as long as obligations are *)
(* closed by declared actions and nothing was met that no harness runs on. *)
(***************************************************************************)
Accepted(o) == o.op = "discharge" => o.by \in Declared

Recorded(h) ==
  /\ obligations = h.obligations /\ storage = h.storage /\ network = h.network
  /\ failure = h.failure \/ Unexecutable

Performs(o) ==
  /\ Draw(o) /\ o \in Ops
  /\ ~opaque /\ Owned(o)
  /\ events' = events \o Tells(o, network, options)
  /\ Accepted(o) =>
       \A h, g \in Terminals : Recorded(h) /\ g = Applied(h, o, options) => Recorded(g)'

\* A failure that both have met, or one that only the semantic engine looks for.
LEMMA SameVerdict ==
  ASSUME NEW h, NEW f, failure = h.failure \/ Unexecutable,
         failure' = FirstFailure(failure, f)
  PROVE  /\ failure' = FirstFailure(h.failure, f) \/ Unexecutable'
         /\ f.code \in {"K0102", "K0103", "K0105", "K0107"} => failure' = h.failure \/ Unexecutable'
<1>1. Unexecutable => failure # NoFailure
  BY DEF Unexecutable, NoFailure
<1>2. Unexecutable' <=> failure'.code \in {"K0102", "K0103", "K0105", "K0107"}
  BY DEF Unexecutable
<1>3. Unexecutable => failure' = failure /\ Unexecutable'
  BY <1>1, <1>2 DEF FirstFailure, Unexecutable
<1>4. f.code \in {"K0102", "K0103", "K0105", "K0107"} /\ failure = NoFailure => Unexecutable'
  BY <1>2 DEF FirstFailure
<1>5. failure # NoFailure => failure' = failure
  BY DEF FirstFailure
<1> QED BY <1>3, <1>4, <1>5

\* What an operation of each kind does.
LEMMA OperationPerforms ==
  ASSUME AgreeInv, Execute, options.inject = << >>, ~opaque'
  PROVE  \E o : Performs(o)
<1>1. /\ events \in Seq(ToldEvents) /\ options \in Options /\ options' = options
      /\ obligations \in Seq(Held)
  BY OptionsType DEF Execute, ExecuteOperation, ExecuteCreate, ExecuteTransfer, ExecuteUnresolved,
     ExecuteDischarge, ExecuteEffect, ExecuteStorage, ExecuteNetwork, ExecuteExternal,
     ExecuteStop, Draw, AgreeInv, ScenarioInv, TraceInv
<1>2. events = events \o << >> /\ \A e \in ToldEvents : Append(events, e) = events \o << e >>
  BY <1>1
<1>3. \A o : Draw(o) => o \in Ops
  BY DEF Draw, Ops, AgreeInv, ScenarioInv
<1>4. \A b : b \in Bindings => <<"obligation-transfer", b>> \in ToldEvents
  BY DEF ToldEvents, PlainEvents, Plain, Labels
<1>5. ASSUME NEW b \in Bindings, ExecuteCreate(b) PROVE \E o : Performs(o)
  <2> DEFINE o == Create(b)
  <2>1. /\ Draw(o) /\ obligations' = Append(obligations, [binding |-> b, closed |-> FALSE])
        /\ UNCHANGED <<events, storage, network, failure, opaque>>
    BY <1>5 DEF ExecuteCreate
  <2>2. o.op = "create" /\ o.of = b
    BY DEF Create, Op
  <2>3. Tells(o, network, options) = << >> /\ Owned(o)
    BY <2>2 DEF Tells, Owned
  <2> HIDE DEF o
  <2>4. ASSUME NEW h \in Terminals, NEW g, Recorded(h), g = Applied(h, o, options)
        PROVE  Recorded(g)'
    <3>1. o \in Ops
      BY <1>3, <2>1
    <3>2. /\ g.obligations = Append(h.obligations, [binding |-> b, closed |-> FALSE])
          /\ g.storage = h.storage /\ g.network = h.network /\ g.failure = h.failure
      <4>1. g.obligations = Append(h.obligations, [binding |-> b, closed |-> FALSE])
        BY <2>2, <2>4, <3>1, AppliedObligations
      <4>2. g.storage = h.storage /\ g.network = h.network /\ g.failure = h.failure
        BY <2>2, <2>4, <3>1, AppliedRest
      <4> QED BY <4>1, <4>2
    <3> QED BY <2>1, <2>4, <3>2 DEF Recorded, Unexecutable
  <2>5. Performs(o)
    BY <1>2, <1>3, <2>1, <2>3, <2>4 DEF Performs
  <2> QED BY <2>5
<1>6. ASSUME NEW b \in Bindings, ExecuteTransfer(b) PROVE \E o : Performs(o)
  <2> DEFINE o == Transfer(b)
  <2>1. /\ Draw(o) /\ events' = Append(events, <<"obligation-transfer", b>>)
        /\ UNCHANGED <<obligations, storage, network, failure, opaque>>
    BY <1>6 DEF ExecuteTransfer
  <2>2. o.op = "transfer" /\ o.of = b
    BY DEF Transfer, Op
  <2>3. Tells(o, network, options) = << <<"obligation-transfer", b>> >> /\ Owned(o)
    BY <2>2 DEF Tells, Owned
  <2> HIDE DEF o
  <2>4. ASSUME NEW h \in Terminals, NEW g, Recorded(h), g = Applied(h, o, options)
        PROVE  Recorded(g)'
    <3>1. o \in Ops
      BY <1>3, <2>1
    <3>2. /\ g.obligations = h.obligations
          /\ g.storage = h.storage /\ g.network = h.network /\ g.failure = h.failure
      <4>1. g.obligations = h.obligations
        BY <2>2, <2>4, <3>1, AppliedObligations
      <4>2. g.storage = h.storage /\ g.network = h.network /\ g.failure = h.failure
        BY <2>2, <2>4, <3>1, AppliedRest
      <4> QED BY <4>1, <4>2
    <3> QED BY <2>1, <2>4, <3>2 DEF Recorded, Unexecutable
  <2>5. Performs(o)
    BY <1>2, <1>3, <1>4, <2>1, <2>3, <2>4 DEF Performs
  <2> QED BY <2>5
<1>7. ASSUME NEW b \in Bindings, ExecuteUnresolved(b) PROVE \E o : Performs(o)
  <2> DEFINE o == Unresolved(b)
             f == Failure("K0100", "unresolved", b)
  <2>1. /\ Draw(o) /\ failure' = FirstFailure(failure, f)
        /\ UNCHANGED <<events, obligations, storage, network, opaque>>
    BY <1>7 DEF ExecuteUnresolved
  <2>2. o.op = "unresolved" /\ o.of = b
    BY DEF Unresolved, Op
  <2>3. Tells(o, network, options) = << >> /\ Owned(o)
    BY <2>2 DEF Tells, Owned
  <2> HIDE DEF o
  <2>4. ASSUME NEW h \in Terminals, NEW g, Recorded(h), g = Applied(h, o, options)
        PROVE  Recorded(g)'
    <3>1. o \in Ops
      BY <1>3, <2>1
    <3>2. /\ g.obligations = h.obligations /\ g.storage = h.storage /\ g.network = h.network
          /\ g.failure = FirstFailure(h.failure, f)
      <4>1. g.obligations = h.obligations
        BY <2>2, <2>4, <3>1, AppliedObligations
      <4>2. g.storage = h.storage /\ g.network = h.network /\ g.failure = FirstFailure(h.failure, f)
        BY <2>2, <2>4, <3>1, AppliedRest
      <4> QED BY <4>1, <4>2
    <3>3. failure' = FirstFailure(h.failure, f) \/ Unexecutable'
      BY <2>1, <2>4, SameVerdict DEF Recorded
    <3> QED BY <2>1, <2>4, <3>2, <3>3 DEF Recorded
  <2>5. Performs(o)
    BY <1>2, <1>3, <2>1, <2>3, <2>4 DEF Performs
  <2> QED BY <2>5
<1>8. ASSUME NEW b \in Bindings, NEW a \in Declared \cup Exits, ExecuteDischarge(b, a)
      PROVE  \E o : Performs(o)
  <2> DEFINE o == Discharge(b, a)
  <2>1. /\ Draw(o) /\ storage' = NoteAction(storage, a)
        /\ obligations' = Close(obligations, b, a, Declared \cup Exits)
        /\ UNCHANGED <<events, network, failure, opaque>>
    BY <1>8 DEF ExecuteDischarge
  <2>2. o.op = "discharge" /\ o.of = b /\ o.by = a
    BY DEF Discharge, Op
  <2>3. Tells(o, network, options) = << >> /\ Owned(o)
    BY <2>2 DEF Tells, Owned
  <2> HIDE DEF o
  <2>4. ASSUME Accepted(o), NEW h \in Terminals, NEW g, Recorded(h), g = Applied(h, o, options)
        PROVE  Recorded(g)'
    <3>1. o \in Ops
      BY <1>3, <2>1
    <3>2. /\ g.obligations = Close(h.obligations, b, a, Declared)
          /\ g.storage = NoteAction(h.storage, a) /\ g.network = h.network
          /\ g.failure = h.failure
      <4>1. g.obligations = Close(h.obligations, b, a, Declared)
        BY <2>2, <2>4, <3>1, AppliedObligations
      <4>2. g.storage = NoteAction(h.storage, a) /\ g.network = h.network /\ g.failure = h.failure
        BY <2>2, <2>4, <3>1, AppliedRest
      <4> QED BY <4>1, <4>2
    <3>3. Close(obligations, b, a, Declared) = Close(obligations, b, a, Declared \cup Exits)
      <4>1. a \in Declared
        BY <2>2, <2>4 DEF Accepted
      <4> QED BY <4>1 DEF Close
    <3> QED BY <2>1, <2>4, <3>2, <3>3 DEF Recorded, Unexecutable
  <2>5. Performs(o)
    BY <1>2, <1>3, <2>1, <2>3, <2>4 DEF Performs
  <2> QED BY <2>5
<1>9. ASSUME NEW boundary \in Boundaries, ExecuteEffect(boundary) PROVE \E o : Performs(o)
  <2> DEFINE o == Effect(boundary)
             printed == BoundaryEvents(boundary, options)
             f == ScheduleFailure(boundary, options, obligations)
  <2>1. HookEvents(boundary) = << >> /\ HookFailure(boundary) = NoFailure
    <3>1. DOMAIN options.inject = {}
      OBVIOUS
    <3>2. [i \in DOMAIN options.inject |-> EventsOf(options.inject[i], boundary)] = << >>
      BY <3>1
    <3>3. HookEvents(boundary) = << >>
      BY <3>2 DEF HookEvents, FlattenSeq
    <3> QED BY <3>1, <3>3 DEF HookFailure
  <2>2. /\ Draw(o) /\ UNCHANGED <<obligations, storage, network, opaque>>
        /\ events' = events \o printed \o << >>
        /\ failure' = FirstFailure(FirstFailure(failure, f), NoFailure)
    BY <1>9, <2>1 DEF ExecuteEffect
  <2>3. events' = events \o printed
    <3>1. printed \in Seq(PlainEvents)
      BY <1>1, PrintedTypes DEF Options
    <3>2. printed \in Seq(ToldEvents)
      BY <3>1, SeqMore DEF ToldEvents
    <3> HIDE DEF printed
    <3>3. events \o printed \in Seq(ToldEvents)
      BY <1>1, <3>2, JoinType
    <3>4. \A t \in Seq(ToldEvents) : t \o << >> = t
      OBVIOUS
    <3> QED BY <2>2, <3>3, <3>4
  <2>4. failure' = FirstFailure(failure, f)
    BY <2>2 DEF FirstFailure
  <2>5. o.op = "effect" /\ o.of = boundary
    BY DEF Effect, Op
  <2>6. Tells(o, network, options) = printed /\ Owned(o)
    BY <2>5 DEF Tells, Owned
  <2> HIDE DEF o, printed
  <2>7. ASSUME NEW h \in Terminals, NEW g, Recorded(h), g = Applied(h, o, options)
        PROVE  Recorded(g)'
    <3>1. o \in Ops
      BY <1>3, <2>2
    <3>2. /\ g.obligations = h.obligations /\ g.storage = h.storage /\ g.network = h.network
          /\ g.failure = FirstFailure(h.failure, f)
      <4>1. g.obligations = h.obligations
        BY <2>5, <2>7, <3>1, AppliedObligations
      <4>2. g.storage = h.storage /\ g.network = h.network /\ g.failure = FirstFailure(h.failure, f)
        BY <2>5, <2>7, <3>1, AppliedRest DEF Recorded
      <4> QED BY <4>1, <4>2
    <3> HIDE DEF f
    <3>3. failure' = FirstFailure(h.failure, f) \/ Unexecutable'
      BY <2>4, <2>7, SameVerdict DEF Recorded
    <3> QED BY <2>2, <2>7, <3>2, <3>3 DEF Recorded
  <2>8. Performs(o)
    BY <1>3, <2>2, <2>3, <2>6, <2>7 DEF Performs
  <2> QED BY <2>8
<1>10. ASSUME NEW action \in StorageActions, ExecuteStorage(action) PROVE \E o : Performs(o)
  <2> DEFINE o == Storage(action)
             f == StorageFailure(StorageAfter(storage, action), action)
  <2>1. /\ Draw(o) /\ storage' = StorageAfter(storage, action)
        /\ events' = events \o StorageEvents(action) /\ failure' = FirstFailure(failure, f)
        /\ UNCHANGED <<obligations, network, opaque>>
    BY <1>10 DEF ExecuteStorage
  <2>2. o.op = "storage" /\ o.of = action
    BY DEF Storage, Op
  <2>3. Tells(o, network, options) = StorageEvents(action) /\ Owned(o)
    BY <2>2 DEF Tells, Owned
  <2> HIDE DEF o
  <2>4. ASSUME NEW h \in Terminals, NEW g, Recorded(h), g = Applied(h, o, options)
        PROVE  Recorded(g)'
    <3>1. o \in Ops
      BY <1>3, <2>1
    <3>2. /\ g.obligations = h.obligations /\ g.storage = StorageAfter(h.storage, action)
          /\ g.network = h.network /\ g.failure = FirstFailure(h.failure, f)
      <4>1. g.obligations = h.obligations
        BY <2>2, <2>4, <3>1, AppliedObligations
      <4>2. /\ g.storage = StorageAfter(h.storage, action) /\ g.network = h.network
            /\ g.failure = FirstFailure(h.failure, f)
        BY <2>2, <2>4, <3>1, AppliedRest DEF Recorded
      <4> QED BY <4>1, <4>2
    <3> HIDE DEF f
    <3>3. failure' = FirstFailure(h.failure, f) \/ Unexecutable'
      BY <2>1, <2>4, SameVerdict DEF Recorded
    <3> QED BY <2>1, <2>4, <3>2, <3>3 DEF Recorded
  <2>5. Performs(o)
    BY <1>3, <2>1, <2>3, <2>4 DEF Performs
  <2> QED BY <2>5
<1>11. ASSUME NEW action \in NetworkActions, ExecuteNetwork(action) PROVE \E o : Performs(o)
  <2> DEFINE o == Network(action)
             f == NetworkFailure(network, action)
  <2>1. /\ Draw(o) /\ network' = NetworkAfter(network, action)
        /\ events' = events \o NetworkEvents(network, action)
        /\ failure' = FirstFailure(failure, f)
        /\ UNCHANGED <<obligations, storage, opaque>>
    BY <1>11 DEF ExecuteNetwork
  <2>2. o.op = "network" /\ o.of = action
    BY DEF Network, Op
  <2>3. Tells(o, network, options) = NetworkEvents(network, action) /\ Owned(o)
    BY <2>2 DEF Tells, Owned
  <2> HIDE DEF o
  <2>4. ASSUME NEW h \in Terminals, NEW g, Recorded(h), g = Applied(h, o, options)
        PROVE  Recorded(g)'
    <3>1. o \in Ops
      BY <1>3, <2>1
    <3>2. /\ g.obligations = h.obligations /\ g.storage = h.storage
          /\ g.network = NetworkAfter(h.network, action)
          /\ g.failure = FirstFailure(h.failure, f)
      <4>1. g.obligations = h.obligations
        BY <2>2, <2>4, <3>1, AppliedObligations
      <4>2. /\ g.storage = h.storage /\ g.network = NetworkAfter(h.network, action)
            /\ g.failure = FirstFailure(h.failure, f)
        BY <2>2, <2>4, <3>1, AppliedRest DEF Recorded
      <4> QED BY <4>1, <4>2
    <3> HIDE DEF f
    <3>3. failure' = FirstFailure(h.failure, f) \/ Unexecutable'
      BY <2>1, <2>4, SameVerdict DEF Recorded
    <3> QED BY <2>1, <2>4, <3>2, <3>3 DEF Recorded
  <2>5. Performs(o)
    BY <1>3, <2>1, <2>3, <2>4 DEF Performs
  <2> QED BY <2>5
<1>12. ASSUME NEW policy \in Policies, ExecuteExternal(policy) PROVE \E o : Performs(o)
  <2> DEFINE o == External(policy)
             e == <<"boundary", policy>>
  <2>1. Draw(o) /\ ~opaque /\ policy \in OwnedPolicies
    BY <1>12 DEF ExecuteExternal
  <2>2. policy # "unselected"
    BY <2>1 DEF OwnedPolicies
  <2>3. /\ events' = Append(events, e) /\ failure' = failure
        /\ UNCHANGED <<obligations, storage, network>>
    BY <1>12, <2>2 DEF ExecuteExternal
  <2>4. o.op = "external" /\ o.of = policy
    BY DEF External, Op
  <2>5. Tells(o, network, options) = << e >> /\ Owned(o)
    BY <2>1, <2>4 DEF Tells, Owned
  <2>6. e \in ToldEvents
    BY DEF ToldEvents, PlainEvents, Plain, Labels
  <2> HIDE DEF o, e
  <2>7. ASSUME NEW h \in Terminals, NEW g, Recorded(h), g = Applied(h, o, options)
        PROVE  Recorded(g)'
    <3>1. o \in Ops
      BY <1>3, <2>1
    <3>2. /\ g.obligations = h.obligations
          /\ g.storage = h.storage /\ g.network = h.network /\ g.failure = h.failure
      <4>1. g.obligations = h.obligations
        BY <2>4, <2>7, <3>1, AppliedObligations
      <4>2. g.storage = h.storage /\ g.network = h.network /\ g.failure = h.failure
        BY <2>4, <2>7, <3>1, AppliedRest
      <4> QED BY <4>1, <4>2
    <3> QED BY <2>3, <2>7, <3>2 DEF Recorded, Unexecutable
  <2>8. Performs(o)
    BY <1>2, <1>3, <2>1, <2>3, <2>5, <2>6, <2>7 DEF Performs
  <2> QED BY <2>8
<1>13. ASSUME NEW code \in StopCodes, ExecuteStop(code) PROVE \E o : Performs(o)
  <2> DEFINE o == Stop(code)
             f == Failure(code, "stop", code)
  <2>1. /\ Draw(o) /\ failure' = FirstFailure(failure, f)
        /\ UNCHANGED <<events, obligations, storage, network, opaque>>
    BY <1>13 DEF ExecuteStop
  <2>2. o.op = "stop" /\ f.code \in {"K0102", "K0103", "K0105", "K0107"}
    BY DEF Stop, Op, Failure, StopCodes
  <2>3. Tells(o, network, options) = << >> /\ Owned(o)
    BY <2>2 DEF Tells, Owned
  <2> HIDE DEF o
  <2>4. ASSUME NEW h \in Terminals, NEW g, Recorded(h), g = Applied(h, o, options)
        PROVE  Recorded(g)'
    <3>1. o \in Ops
      BY <1>3, <2>1
    <3>2. /\ g.obligations = h.obligations /\ g.storage = h.storage /\ g.network = h.network
          /\ g.failure = h.failure
      <4>1. g.obligations = h.obligations
        BY <2>2, <2>4, <3>1, AppliedObligations
      <4>2. g.storage = h.storage /\ g.network = h.network /\ g.failure = h.failure
        BY <2>2, <2>4, <3>1, AppliedRest
      <4> QED BY <4>1, <4>2
    <3> HIDE DEF f
    <3>3. failure' = h.failure \/ Unexecutable'
      BY <2>1, <2>2, <2>4, SameVerdict DEF Recorded
    <3> QED BY <2>1, <2>4, <3>2, <3>3 DEF Recorded
  <2>5. Performs(o)
    BY <1>2, <1>3, <2>1, <2>3, <2>4 DEF Performs
  <2> QED BY <2>5
<1> QED
  BY <1>5, <1>6, <1>7, <1>8, <1>9, <1>10, <1>11, <1>12, <1>13 DEF Execute, ExecuteOperation

-----------------------------------------------------------------------------
(***************************************************************************)
(* How the trace of the semantic engine stands to the scenario and to what *)
(* the harness prints of it: the operations are told in their order, a     *)
(* network action that does not meet its message is seen, and when nothing *)
(* is out of order the harness prints the same.                            *)
(***************************************************************************)
Aligned(p, opts, t) ==
  /\ Traced(p, t)
  /\ Lost(p) => LostSeen(t)
  /\ InOrder(p) => t = Body(p, opts)

\* What is known of the fold over the operations.
Known(p, opts) ==
  /\ Terminal(p, opts) \in Terminals
  /\ NoneTransferred(p, opts)
  /\ FollowsMessage(p, Terminal(p, opts).network)

\* One operation more.
LEMMA KnownGrows ==
  ASSUME NEW p \in Seq(Ops), NEW o \in Ops, NEW opts, Known(p, opts)
  PROVE  Known(Append(p, o), opts)
<1> DEFINE h == Terminal(p, opts)
           g == Terminal(Append(p, o), opts)
<1>1. h \in Terminals /\ g = Applied(h, o, opts)
  BY TerminalGrows DEF Known
<1> HIDE DEF h, g
<1>2. g \in Terminals
  BY <1>1, AppliedType
<1>3. g.network = IF o.op = "network" THEN NetworkAfter(h.network, o.of) ELSE h.network
  BY <1>1, AppliedRest
<1>4. h.network \in Networks
  BY <1>1 DEF Terminals
<1>5. FollowsMessage(Append(p, o), g.network)
  BY <1>3, <1>4, MessageGrows DEF Known, h
<1>6. NoneTransferred(Append(p, o), opts)
  BY TransferredGrows DEF Known
<1> QED BY <1>2, <1>5, <1>6 DEF Known, g

\* The trace stays aligned when an operation tells its events.
LEMMA AlignedGrows ==
  ASSUME NEW p \in Seq(Ops), NEW o \in Ops, NEW opts \in Options, NEW t \in Seq(ToldEvents),
         NEW n, n = Terminal(p, opts).network, Known(p, opts), Owned(o), Aligned(p, opts, t)
  PROVE  Aligned(Append(p, o), opts, t \o Tells(o, n, opts))
<1> DEFINE q == Append(p, o)
           ev == Tells(o, n, opts)
<1>1. /\ ev \in Seq(PlainEvents)
      /\ Telling(o) => ev # << >> /\ ev[1] = HeadOf(o)
      /\ ~Telling(o) => ev = << >>
  BY TellsHead
<1>2. ev \in Seq(ToldEvents)
  BY <1>1, SeqMore DEF ToldEvents
<1>3. o.op = "network" /\ ~Lost(p) => (Applies(n, o.of) <=> o.of = "send" \/ Pending(p, Enders(o)))
  BY WaitsApply DEF Known
<1>4. Lost(q) <=> Lost(p) \/ (o.op = "network" /\ o.of # "send" /\ ~Pending(p, Enders(o)))
  BY LostGrows
<1>5. o.op = "network" /\ ~Applies(n, o.of) => ev = << <<"network", o.of>> >>
  <2>1. o.op = "network" /\ ~Applies(n, o.of) => ev = << <<"network", o.of>> >> \o << >>
    BY DEF Tells, NetworkEvents
  <2>2. \A e : << e >> \o << >> = << e >>
    OBVIOUS
  <2> QED BY <2>1, <2>2
<1> HIDE DEF q, ev
<1>6. Traced(q, t \o ev)
  BY <1>1, <1>2, TracedGrows DEF Aligned, q
<1>7. ASSUME Lost(q) PROVE LostSeen(t \o ev)
  <2>1. CASE Lost(p)
    <3>1. ev # << >> => ev[1][1] # "network-state"
      BY <1>1 DEF HeadOf
    <3> QED BY <1>2, <2>1, <3>1, LostStaysSeen DEF Aligned
  <2>2. CASE ~Lost(p)
    <3> DEFINE e == <<"network", o.of>>
    <3>1. o.op = "network" /\ ~Applies(n, o.of)
      BY <1>3, <1>4, <1>7, <2>2
    <3>2. ev = << e >>
      BY <1>5, <3>1
    <3>3. e \in ToldEvents /\ e[1] = "network"
      BY <3>1, OpFields DEF ToldEvents, PlainEvents, Plain, Labels
    <3> HIDE DEF e
    <3> QED BY <3>2, <3>3, LostAtEnd
  <2> QED BY <2>1, <2>2
<1>8. ASSUME InOrder(q) PROVE t \o ev = Body(q, opts)
  <2>1. InOrder(p) /\ ~Lost(q) /\ ~Lost(p)
    BY <1>4, <1>8, InOrderBefore DEF InOrder, q
  <2>2. o.op = "network" => Applies(n, o.of)
    BY <1>3, <1>4, <2>1
  <2>3. Body(q, opts) = Body(p, opts) \o ev
    BY <1>8, <2>2, BodyGrows DEF Known, q, ev
  <2> QED BY <2>1, <2>3 DEF Aligned
<1> QED BY <1>6, <1>7, <1>8 DEF Aligned, q, ev

\* Nothing is told before anything happened.
LEMMA StartAligned ==
  ASSUME NEW opts \in Options
  PROVE  Known(<< >>, opts) /\ Aligned(<< >>, opts, << >>)
<1> DEFINE p == << >>
<1>1. p \in Seq(Ops) /\ Len(p) = 0 /\ DOMAIN p = {}
  OBVIOUS
<1>2. Terminal(p, opts) = NewTerminal
  BY TerminalStart
<1>3. Terminal(p, opts).transfers = << >> /\ Terminal(p, opts).network = NewNetwork
  BY <1>2 DEF NewTerminal
<1>4. Body(p, opts) = << >>
  <2>1. TargetEvents(p, opts) = << >>
    <3>1. [i \in DOMAIN p |-> Printed(p, i, opts)] = << >>
      BY <1>1
    <3> QED BY <3>1 DEF TargetEvents, FlattenSeq
  <2> QED BY <1>3, <2>1 DEF Body
<1> HIDE DEF p
<1>5. ~Lost(p)
  BY <1>1 DEF Lost
<1>6. \A at : Placed(p, << >>, at)
  BY <1>1 DEF Placed
<1>7. Traced(p, << >>)
  BY <1>6 DEF Traced
<1>8. FollowsMessage(p, NewNetwork)
  BY <1>1 DEF FollowsMessage, Pending, NewNetwork, Deliverable
<1>9. Known(p, opts)
  BY <1>2, <1>3, <1>8, NewTerminalType DEF Known, NoneTransferred
<1>10. Aligned(p, opts, << >>)
  BY <1>4, <1>5, <1>7 DEF Aligned
<1> QED BY <1>9, <1>10 DEF p

\* An aligned trace is the harness's exactly when the scenario is orderly.
LEMMA AlignedAgrees ==
  ASSUME NEW p \in Seq(Ops), NEW opts \in Options, Known(p, opts), NEW t, Aligned(p, opts, t)
  PROVE  t = Body(p, opts) <=> InOrder(p)
<1>1. Terminal(p, opts) \in Terminals
  BY DEF Known
<1>2. ASSUME t = Body(p, opts) PROVE InOrder(p)
  <2>1. Traced(p, Body(p, opts)) /\ (Lost(p) => LostSeen(Body(p, opts)))
    BY <1>2 DEF Aligned
  <2>2. ~Late(p) /\ ~Divided(p)
    BY <1>1, <2>1, BodyIsNotLate, BodyIsNotDivided
  <2>3. ~Lost(p)
    BY <1>1, <2>1, BodyTellsStates
  <2> QED BY <2>2, <2>3 DEF InOrder
<1> QED BY <1>2 DEF Aligned

-----------------------------------------------------------------------------
\* Without injected failures, and when obligations are closed by declared actions only.
Comparable ==
  /\ options.inject = << >>
  /\ \A i \in DOMAIN program : Accepted(program[i])

\* The trace that is compared: aligned, and ended as the harness's is.
ComparedTrace ==
  \E body \in Seq(ToldEvents) :
    /\ Aligned(program, options, body)
    /\ events = body \o TerminalFailure(program, options).events \o PortfolioEvents(options)

OrderInv ==
  /\ AgreeInv
  /\ Known(program, options)
  /\ stage = "execute" /\ Comparable /\ ~opaque =>
       Aligned(program, options, events) /\ Recorded(Terminal(program, options))
  /\ stage \in {"check", "compare"} /\ Comparable /\ ~opaque /\ ~Unexecutable => ComparedTrace
  /\ stage = "compare" => ~opaque /\ ~Unexecutable
  /\ AgreementIsOrder

\* Every operation keeps the trace aligned.
LEMMA OperationKeepsOrder ==
  ASSUME OrderInv, Execute
  PROVE  OrderInv'
<1>1. AgreeInv /\ AgreeInv' /\ Known(program, options)
  BY OperationKeepsAgree DEF OrderInv
<1>2. PICK o : Draw(o)
  BY DEF Execute, ExecuteOperation, ExecuteCreate, ExecuteTransfer, ExecuteUnresolved,
     ExecuteDischarge, ExecuteEffect, ExecuteStorage, ExecuteNetwork, ExecuteExternal,
     ExecuteStop
<1>3. /\ stage = "execute" /\ stage' = "execute" /\ options' = options /\ agreement' = agreement
      /\ agreement = "none" /\ program \in Seq(Ops) /\ o \in Ops /\ program' = Append(program, o)
  BY <1>1, <1>2 DEF Draw, result, AgreeInv, ScenarioInv, TraceInv, Ops
<1>4. Known(program, options)'
  BY <1>1, <1>3, KnownGrows
<1>5. ASSUME Comparable', ~opaque'
      PROVE  Aligned(program, options, events)' /\ Recorded(Terminal(program, options))'
  <2>1. PICK d : Performs(d)
    BY <1>1, <1>3, <1>5, OperationPerforms DEF Comparable
  <2>2. /\ d \in Ops /\ program' = Append(program, d) /\ ~opaque /\ Owned(d)
        /\ events' = events \o Tells(d, network, options)
    BY <2>1 DEF Performs, Draw
  <2>3. Comparable /\ Accepted(d)
    <3> DEFINE n == Len(program)
    <3>1. /\ n \in Nat /\ DOMAIN program = 1 .. n /\ DOMAIN program' = 1 .. n + 1
          /\ \A k \in 1 .. n : program'[k] = program[k]
          /\ program'[n + 1] = d
      BY <1>3, <2>2, Appended
    <3> HIDE DEF n
    <3>2. \A k \in 1 .. n : k \in 1 .. n + 1
      BY <3>1
    <3>3. n + 1 \in 1 .. n + 1
      BY <3>1
    <3> QED BY <1>3, <1>5, <3>1, <3>2, <3>3 DEF Comparable
  <2> DEFINE h == Terminal(program, options)
             g == Applied(h, d, options)
  <2>4. Aligned(program, options, events) /\ Recorded(h)
    BY <1>3, <2>2, <2>3 DEF OrderInv
  <2>5. h \in Terminals /\ g \in Terminals
    BY <1>1, <2>2, AppliedType DEF Known
  <2>6. Terminal(program', options) = g
    BY <1>3, <2>2, TerminalGrows
  <2>7. Recorded(Terminal(program, options))'
    <3> HIDE DEF h, g
    <3>1. \A y, z \in Terminals : Recorded(y) /\ z = Applied(y, d, options) => Recorded(z)'
      BY <2>1, <2>3 DEF Performs
    <3>2. g = Applied(h, d, options)
      BY DEF g
    <3>3. obligations' = g.obligations /\ storage' = g.storage /\ network' = g.network
          /\ (failure' = g.failure \/ Unexecutable')
      BY <2>4, <2>5, <3>1, <3>2 DEF Recorded
    <3> QED BY <1>3, <2>6, <3>3 DEF Recorded
  <2>8. Aligned(program, options, events)'
    <3>1. events \in Seq(ToldEvents) /\ options \in Options
      BY <1>1, <1>3, OptionsType DEF AgreeInv, TraceInv
    <3>2. network = h.network
      BY <2>4 DEF Recorded
    <3> HIDE DEF h
    <3>3. Aligned(Append(program, d), options, events \o Tells(d, network, options))
      BY <1>1, <1>3, <2>2, <2>4, <3>1, <3>2, AlignedGrows DEF h
    <3> QED BY <1>3, <2>2, <3>3
  <2> QED BY <2>7, <2>8
<1>6. AgreementIsOrder'
  BY <1>3 DEF AgreementIsOrder
<1> QED BY <1>1, <1>3, <1>4, <1>5, <1>6 DEF OrderInv

\* The end of the scenario ends the trace as the harness does.
LEMMA FinishKeepsOrder ==
  ASSUME OrderInv, FinishExecution
  PROVE  OrderInv'
<1> DEFINE verdict == FirstFailure(failure, LeftOpen(obligations))
           h == Terminal(program, options)
<1>1. /\ stage = "execute" /\ stage' = "check" /\ agreement' = "semantic-only"
      /\ failure' = verdict /\ events' = events \o verdict.events \o PortfolioEvents(options)
      /\ UNCHANGED <<program, options, opaque>>
  BY DEF FinishExecution, Finish, FinishAs
<1>2. AgreeInv' /\ Known(program, options)'
  BY <1>1, FinishKeepsAgree DEF OrderInv
<1>3. ASSUME Comparable', ~opaque', ~Unexecutable' PROVE ComparedTrace'
  <2>1. /\ Aligned(program, options, events) /\ Recorded(h)
        /\ events \in Seq(ToldEvents)
    BY <1>1, <1>3 DEF OrderInv, Comparable, AgreeInv, TraceInv
  <2>2. failure = h.failure /\ obligations = h.obligations
    <3>1. Unexecutable => failure # NoFailure
      BY DEF Unexecutable, NoFailure
    <3>2. Unexecutable => Unexecutable'
      BY <1>1, <3>1 DEF FirstFailure, Unexecutable
    <3> QED BY <1>3, <2>1, <3>2 DEF Recorded
  <2>3. TerminalFailure(program, options) = verdict
    <3>1. ~Injects("cancel", options)
      <4>1. DOMAIN options.inject = {}
        BY <1>1, <1>3 DEF Comparable
      <4> QED BY <4>1 DEF Injects
    <3>2. CancelAtEnd(h, program, options) = NoFailure
      BY <3>1 DEF CancelAtEnd
    <3> QED BY <2>2, <3>2 DEF TerminalFailure, FirstFailure
  <2> HIDE DEF verdict, h
  <2>4. /\ Aligned(program', options', events)
        /\ events' = events \o TerminalFailure(program', options').events
                            \o PortfolioEvents(options')
    BY <1>1, <2>1, <2>3
  <2> QED BY <2>1, <2>4 DEF ComparedTrace
<1>4. AgreementIsOrder'
  BY <1>1 DEF AgreementIsOrder
<1> QED BY <1>1, <1>2, <1>3, <1>4 DEF OrderInv

\* What two traces have that end alike.
LEMMA SameEnding ==
  ASSUME NEW S, NEW one \in Seq(S), NEW other \in Seq(S), NEW end \in Seq(S)
  PROVE  one \o end = other \o end <=> one = other
<1> SUFFICES ASSUME one \o end = other \o end PROVE one = other
  OBVIOUS
<1>1. /\ Len(one) \in Nat /\ Len(other) \in Nat /\ Len(end) \in Nat
      /\ Len(one \o end) = Len(one) + Len(end) /\ Len(other \o end) = Len(other) + Len(end)
      /\ \A x \in 1 .. Len(one) : (one \o end)[x] = one[x]
      /\ \A x \in 1 .. Len(other) : (other \o end)[x] = other[x]
  BY JoinFacts
<1>2. Len(one) = Len(other)
  BY <1>1
<1>3. \A x \in 1 .. Len(one) : one[x] = other[x]
  BY <1>1, <1>2
<1> QED BY <1>2, <1>3

\* The two traces are the same when the scenario is orderly.
LEMMA TracesAgree ==
  ASSUME OrderInv, stage = "compare", Comparable
  PROVE  events = harness <=> Orderly
<1>1. /\ AgreeInv /\ Known(program, options) /\ ComparedTrace
      /\ program \in Seq(Ops) /\ options \in Options
      /\ harness = HarnessEvents(program, options)
  BY OptionsType DEF OrderInv, AgreeInv, ScenarioInv, TraceInv
<1> DEFINE f == TerminalFailure(program, options).events
           e == PortfolioEvents(options)
           mine == Body(program, options)
           S == AllEvents
<1>2. PICK body \in Seq(ToldEvents) : Aligned(program, options, body) /\ events = body \o f \o e
  BY <1>1 DEF ComparedTrace
<1>3. harness = mine \o f \o e
  BY <1>1 DEF HarnessEvents, Body
<1>4. body = mine <=> Orderly
  BY <1>1, <1>2, AlignedAgrees, OrderlyIsInOrder
<1>5. f \in Seq(S)
  <2>1. Reports(TerminalFailure(program, options), Shared)
    BY <1>1, HarnessTypes DEF AgreeInv
  <2>2. f \in Seq(Shared \X Labels)
    BY <2>1, ReportedEvents
  <2> QED BY <2>2, EventSets, SeqMore
<1>6. e \in Seq(S)
  <2>1. e \in Seq({"portfolio"} \X Labels)
    BY <1>1, PrintedTypes DEF Options
  <2> QED BY <2>1, EventSets, SeqMore
<1>7. body \in Seq(S) /\ mine \in Seq(S)
  <2>1. mine \in Seq(PlainEvents)
    BY <1>1, BodyParts DEF Known
  <2> QED BY <1>2, <2>1, EventSets, SeqMore
<1> HIDE DEF f, e, mine, S
<1> DEFINE told == body \o f
           run == mine \o f
<1>8. told \in Seq(S) /\ run \in Seq(S)
  BY <1>5, <1>7, JoinType
<1>9. told = run <=> body = mine
  BY <1>5, <1>7, SameEnding
<1>10. events = told \o e /\ harness = run \o e
  BY <1>2, <1>3, <1>5, <1>6, <1>7, JoinAssociates
<1> HIDE DEF told, run
<1>11. told \o e = run \o e <=> told = run
  BY <1>6, <1>8, SameEnding
<1> QED BY <1>4, <1>9, <1>10, <1>11

\* The comparison says so.
LEMMA ComparisonKeepsOrder ==
  ASSUME OrderInv, CheckAgreement
  PROVE  OrderInv'
<1>1. AgreeInv' /\ UNCHANGED <<program, options, opaque>>
  BY ComparisonKeepsAgree
  DEF OrderInv, CheckAgreement, SemanticOnly, SkipHarness, CoverageIncomplete, LifecycleOnly,
      BoundaryPartial, RunHarness, Matched, Diverged, Settled, engine
<1>2. Known(program, options)'
  BY <1>1 DEF OrderInv
<1>3. CASE SemanticOnly \/ SkipHarness \/ CoverageIncomplete \/ LifecycleOnly \/ BoundaryPartial
  <2>1. stage' = "done" /\ agreement' \notin {"matched", "diverged"}
    BY <1>3
    DEF SemanticOnly, SkipHarness, CoverageIncomplete, LifecycleOnly, BoundaryPartial,
        WithHarness, Settled, OrderInv, AgreeInv, TraceInv
  <2>2. AgreementIsOrder'
    BY <2>1 DEF AgreementIsOrder
  <2> QED BY <1>1, <1>2, <2>1, <2>2 DEF OrderInv
<1>4. CASE RunHarness
  <2>1. /\ stage = "check" /\ stage' = "compare" /\ ~Unexecutable /\ ~opaque
        /\ UNCHANGED <<events, failure, agreement>> /\ agreement = "semantic-only"
    BY <1>4 DEF RunHarness, WithHarness, engine, OrderInv, AgreeInv, TraceInv
  <2>2. AgreementIsOrder'
    BY <2>1 DEF AgreementIsOrder
  <2>3. Comparable' => ComparedTrace'
    BY <1>1, <2>1 DEF OrderInv, Comparable, ComparedTrace
  <2>4. ~opaque' /\ ~Unexecutable'
    BY <1>1, <2>1 DEF Unexecutable
  <2> QED BY <1>1, <1>2, <2>1, <2>2, <2>3, <2>4 DEF OrderInv
<1>5. CASE Matched \/ Diverged
  <2>1. /\ stage = "compare" /\ stage' = "done"
        /\ agreement' \in {"matched", "diverged"}
        /\ agreement' = "matched" <=> events = harness
    BY <1>5 DEF Matched, Diverged, Settled
  <2>2. Comparable => (events = harness <=> Orderly)
    BY <2>1, TracesAgree
  <2>3. Orderly' <=> Orderly
    BY <1>1 DEF Orderly, Prints, InFlight
  <2>4. AgreementIsOrder'
    BY <1>1, <2>1, <2>2, <2>3 DEF AgreementIsOrder, Comparable, Accepted
  <2> QED BY <1>1, <1>2, <2>1, <2>4 DEF OrderInv
<1> QED BY <1>3, <1>4, <1>5 DEF CheckAgreement

\* Every step keeps the order of the trace.
LEMMA OrderInvInductive == OrderInv /\ [Next]_vars => OrderInv'
<1>1. ASSUME OrderInv, UNCHANGED vars PROVE OrderInv'
  <2>1. UNCHANGED <<program, options, events, obligations, storage, network, failure, opaque,
                    stage, agreement>>
    BY <1>1 DEF vars, semanticVars, engine, result
  <2>2. AgreeInv'
    BY <1>1, AgreeInvInductive DEF OrderInv
  <2>3. /\ (Comparable' <=> Comparable) /\ (Unexecutable' <=> Unexecutable)
        /\ (ComparedTrace' <=> ComparedTrace)
        /\ (AgreementIsOrder' <=> AgreementIsOrder)
        /\ (Recorded(Terminal(program, options))' <=> Recorded(Terminal(program, options)))
    BY <2>1 DEF Comparable, Unexecutable, ComparedTrace, Recorded, AgreementIsOrder, Orderly,
                Prints, InFlight
  <2> QED BY <1>1, <2>1, <2>2, <2>3 DEF OrderInv
<1> QED BY <1>1, OperationKeepsOrder, FinishKeepsOrder, ComparisonKeepsOrder DEF Next

\* It holds at the start.
LEMMA OrderInvInitial == Init => OrderInv
<1> SUFFICES ASSUME Init PROVE OrderInv
  OBVIOUS
<1>1. /\ program = << >> /\ events = << >> /\ obligations = << >> /\ storage = NewStorage
      /\ network = NewNetwork /\ failure = NoFailure /\ stage = "execute" /\ agreement = "none"
  BY DEF Init, SemanticInit
<1>2. AgreeInv /\ options \in Options
  BY AgreeInvInitial, OptionsType DEF AgreeInv
<1>3. Known(program, options) /\ Aligned(program, options, events)
  BY <1>1, <1>2, StartAligned
<1>4. Recorded(Terminal(program, options))
  <2>1. Terminal(program, options) = NewTerminal
    BY <1>1, TerminalStart
  <2> QED BY <1>1, <2>1 DEF Recorded, NewTerminal
<1>5. AgreementIsOrder
  BY <1>1 DEF AgreementIsOrder
<1> QED BY <1>1, <1>2, <1>3, <1>4, <1>5 DEF OrderInv

\* Without injected failures, and when obligations are closed by declared actions only, the two
\* traces agree exactly on the orderly scenarios: AgreementIsOrder, for scenarios of any length.
THEOREM AgreementHasOrder == Spec => []AgreementIsOrder
<1>1. OrderInv => AgreementIsOrder
  BY DEF OrderInv
<1> QED BY <1>1, OrderInvInitial, OrderInvInductive, PTL DEF Spec
=============================================================================
