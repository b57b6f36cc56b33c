--------------------------- MODULE ScenarioModels ---------------------------
(***************************************************************************)
(* The parts of the scenario simulator (kobo-sim-core) that its two        *)
(* engines share: the operations of a scenario, the storage and network    *)
(* facades, and the scheduler's answer to a modeled effect.                *)
(*                                                                         *)
(* An event is a pair <<kind, label>>: the value of an event (a seed, a    *)
(* budget) is the same function of the options in both engines and is left *)
(* out, and so are the source spans.  A failure is a code with the events  *)
(* it appends to the trace.                                                *)
(***************************************************************************)
EXTENDS Naturals, FiniteSets, SequencesExt

(***************************************************************************)
(* Operations.  All have the same three fields: "op" is the kind of the    *)
(* operation, "of" what it is about, "by" the action that is taken.        *)
(***************************************************************************)
Op(op, of, by)     == [op |-> op, of |-> of, by |-> by]
Create(b)          == Op("create", b, "-")
Discharge(b, a)    == Op("discharge", b, a)
Transfer(b)        == Op("transfer", b, "-")
Unresolved(b)      == Op("unresolved", b, "-")
Effect(boundary)   == Op("effect", boundary, "-")
Storage(action)    == Op("storage", action, "-")
Network(action)    == Op("network", action, "-")
External(policy)   == Op("external", policy, "-")
Stop(code)         == Op("stop", code, "-")

Boundaries     == {"time", "task"}
StorageActions == {"write", "commit", "recover", "crash"}
NetworkActions == {"send", "delay", "drop", "receive"}

\* Boundary policies: replay owns the call, the call is explicitly outside
\* of the replay, or nobody has chosen.
OwnedPolicies   == {"record"}
PartialPolicies == {"activity"}
Policies        == OwnedPolicies \cup PartialPolicies \cup {"unselected"}

\* The actions an obligation type declares, and the ways of leaving a scope
\* that only the lowering writes into a discharge.
Declared == {"ack", "nack"}
Exits    == {"return"}

\* Raw nondeterminism, an uncontrolled effect, a loop.
StopCodes == {"K0102", "K0103", "K0105"}

NoFailure            == [code |-> "none", events |-> << >>]
Failure(code, k, l)  == [code |-> code, events |-> << <<k, l>> >>]

(***************************************************************************)
(* Obligations: a sequence of [binding, closed] in order of creation.      *)
(***************************************************************************)
OpenAt(obligations) == {i \in DOMAIN obligations : ~obligations[i].closed}

LeastOf(S)    == CHOOSE i \in S : \A j \in S : i <= j
GreatestOf(S) == CHOOSE i \in S : \A j \in S : j <= i

FirstOpen(obligations)  == obligations[LeastOf(OpenAt(obligations))].binding
LatestOpen(obligations) == obligations[GreatestOf(OpenAt(obligations))].binding

\* Mutant: any action closes the obligation.
CloseByAny(obligations, binding, action, accepted) ==
  LET open == {i \in OpenAt(obligations) : obligations[i].binding = binding}
  IN  IF open # {} THEN [obligations EXCEPT ![GreatestOf(open)].closed = TRUE]
      ELSE obligations

\* The latest open obligation of the binding is closed when the action is
\* accepted; any other discharge has no effect.
Close(obligations, binding, action, accepted) ==
  LET open == {i \in OpenAt(obligations) : obligations[i].binding = binding}
  IN  IF open # {} /\ action \in accepted
        THEN [obligations EXCEPT ![GreatestOf(open)].closed = TRUE]
        ELSE obligations

LeftOpen(obligations) ==
  IF OpenAt(obligations) = {} THEN NoFailure
  ELSE Failure("K0100", "obligation-left-open", FirstOpen(obligations))

(***************************************************************************)
(* The storage facade: three flags, none of which is ever reset.           *)
(***************************************************************************)
NewStorage == [acked |-> FALSE, pending |-> FALSE, durable |-> FALSE]

NoteAction(s, action) == [s EXCEPT !.acked = @ \/ action \in {"ack", "reply"}]

StorageAfter(s, action) ==
  [s EXCEPT !.pending = @ \/ action = "write", !.durable = @ \/ action = "commit"]

\* Mutant: a commit does not protect what was written.
StorageFailureUncommitted(s, action) ==
  IF action = "crash" /\ s.acked /\ s.pending
    THEN Failure("K0100", "lost-message", "storage-crash")
    ELSE NoFailure

StorageFailure(s, action) ==
  IF action = "crash" /\ s.acked /\ s.pending /\ ~s.durable
    THEN Failure("K0100", "lost-message", "storage-crash")
    ELSE NoFailure

StorageEvents(action) == << <<"storage", action>> >>

(***************************************************************************)
(* The network facade: at most one message is in flight.                   *)
(***************************************************************************)
NewNetwork == [inFlight |-> FALSE, dropped |-> FALSE]

Deliverable(n) == n.inFlight /\ ~n.dropped

NetworkAfter(n, action) ==
  CASE action = "send"                        -> [inFlight |-> TRUE, dropped |-> FALSE]
    [] action = "drop" /\ n.inFlight          -> [n EXCEPT !.dropped = TRUE]
    [] action = "receive" /\ Deliverable(n)   -> [n EXCEPT !.inFlight = FALSE]
    [] OTHER                                  -> n

NetworkFailure(n, action) ==
  IF action = "receive" /\ ~Deliverable(n)
    THEN Failure("K0100", "network-delivery-failed", "ward.network")
    ELSE NoFailure

\* What the state change of an action is called in the trace.
StateEvent(action) == <<"network-state", action>>

\* Whether the message is in the state the action is about.
Applies(n, action) ==
  \/ action = "send"
  \/ action = "drop" /\ n.inFlight
  \/ action \in {"delay", "receive"} /\ Deliverable(n)

\* The model tells a state change only when there is one ...
NetworkEvents(n, action) ==
  << <<"network", action>> >>
    \o (IF Applies(n, action) THEN <<StateEvent(action)>> ELSE << >>)

\* ... the facade that is generated into the harness always does.
FacadeNetworkEvents(action) == << <<"network", action>>, StateEvent(action) >>

(***************************************************************************)
(* The scheduler.  options is a record with the sequence "inject" of       *)
(* failure hooks and the effective "scheduler" policy.                     *)
(***************************************************************************)
Injects(hook, options) == \E i \in DOMAIN options.inject : options.inject[i] = hook

BoundaryEvents(boundary, options) ==
  << <<"deterministic", boundary>> >>
    \o (IF boundary # "task" THEN << >>
        ELSE << <<"task", "enqueued">>, <<"task", "polled">>,
                <<"task", IF Injects("cancel", options)
                            THEN "cancelled" ELSE "completed">> >>
             \o (IF options.scheduler = "round-robin" THEN << >>
                 ELSE << <<"choice", options.scheduler>> >>))

\* An obligation that is open across a task boundary is a leak under every
\* policy that explores interleavings.
ScheduleFailure(boundary, options, obligations) ==
  IF \/ options.scheduler = "round-robin"
     \/ boundary # "task"
     \/ OpenAt(obligations) = {}
    THEN NoFailure
    ELSE Failure("K0100", "scheduler-interleaving-leak", LatestOpen(obligations))

PortfolioEvents(options) == << <<"portfolio", options.scheduler>> >>

\* Mutant: the last failure is kept.
LastFailure(kept, new) == IF new = NoFailure THEN kept ELSE new

\* The first failure is kept.
FirstFailure(kept, new) == IF kept = NoFailure THEN new ELSE kept
=============================================================================
