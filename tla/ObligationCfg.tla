--------------------------- MODULE ObligationCfg ---------------------------
(***************************************************************************)
(* The obligation calculus that the certificate emitter (kobo-driver) and  *)
(* the certificate verifier (kobo-proof) share: the status of an           *)
(* obligation, the events that change it, and the environments that map    *)
(* every binding to its status.  A BTreeMap from bindings to statuses is a *)
(* total function here; a binding the map does not hold is Absent.         *)
(***************************************************************************)
EXTENDS Naturals

CONSTANTS
    Blocks,     \* indices of the "bbN" blocks a control-flow graph may name
    Bindings,   \* names of the obligation bindings
    LoopIds     \* names of the loops of a function

ASSUME BlocksAreIndices == Blocks \subseteq Nat /\ Blocks # {}

ASSUME SomeBinding == Bindings # {}

Absent == "absent"

Statuses == {"owned", "resolved", "transferred", "moved",
             "branch_unresolved", "escaped"}

\* ObligationStatus::is_unresolved_exit: what may not leave a function.
UnresolvedStatuses == {"owned", "moved", "branch_unresolved"}

Envs == [Bindings -> Statuses \cup {Absent}]

\* is_unresolved_back_edge_state: what may not be carried around a loop.
LeakStatuses == {"owned", "moved", "branch_unresolved"}

Leaks(S, env) == {x \in S : env[x] \in LeakStatuses}

EmptyEnv == [x \in Bindings |-> Absent]

Unresolved(env) == {x \in Bindings : env[x] \in UnresolvedStatuses}

\* "none" is a block without an obligation event.  "call" stands for Call,
\* UnsupportedContainer and an Escape without a binding: no status changes.
Kinds == {"none", "call", "create", "discharge", "transfer", "move",
          "branch_unresolved", "escape"}

\* The status an event of each kind leaves its binding in.
StatusAfter(kind) ==
    CASE kind = "create"            -> "owned"
      [] kind = "discharge"         -> "resolved"
      [] kind = "transfer"          -> "transferred"
      [] kind = "move"              -> "moved"
      [] kind = "branch_unresolved" -> "branch_unresolved"
      [] OTHER                      -> "escaped"

ApplyEvent(ev, env) ==
    IF ev.kind \in {"none", "call"}
      THEN env
      ELSE [env EXCEPT ![ev.binding] = StatusAfter(ev.kind)]

\* The statuses each kind of event may find its binding in.
StatusesBefore(kind) ==
    CASE kind = "create"    -> {Absent}
      [] kind = "discharge" -> {"owned", "transferred"}
      [] kind = "escape"    -> {"owned", "transferred", "resolved"}
      [] kind \in {"none", "call"} -> Statuses \cup {Absent}
      [] OTHER              -> {"owned"}

EventAllowed(ev, env) == env[ev.binding] \in StatusesBefore(ev.kind)
=============================================================================
