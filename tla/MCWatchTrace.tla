---------------------------- MODULE MCWatchTrace ----------------------------
(***************************************************************************)
(* Instances of WatchTrace: traces about children, traces about windows,   *)
(* and traces in which a shutdown is about both.                           *)
(***************************************************************************)
EXTENDS WatchTrace, TLC

CONSTANTS ChildLength, WindowLength, BothLength

Starts(label) ==
       [kind : {"start"}, child : Children, policy : {"exclusive"},
        previous : Children \cup {NoChild}, label : {label}]
  \cup [kind : {"start"}, child : Children, policy : {"concurrent"},
        previous : {NoChild}, label : {label}]

Resolutions == [kind : {"resolution"}, child : Children]

Shutdowns(labels) ==
       [kind : {"shutdown"}, timers : BOOLEAN, children : BOOLEAN,
        listed : {TRUE}, pending : SUBSET Windows, label : labels]
  \cup [kind : {"shutdown"}, timers : BOOLEAN, children : BOOLEAN,
        listed : {FALSE}, pending : {{}}, label : labels]

Changes == [kind : {"watcher", "timer"}, window : Windows, modeled : BOOLEAN]

ChildTrace ==
  [events |-> Starts("known") \cup Resolutions
                \cup {s \in Shutdowns({"known"}) : s.children /\ ~s.timers /\ ~s.listed},
   length |-> ChildLength]

WindowTrace ==
  [events |-> Changes \cup {s \in Shutdowns({"known"}) : s.timers /\ ~s.children},
   length |-> WindowLength]

BothTrace ==
  [events |-> Starts("known") \cup Starts("unknown") \cup Shutdowns(Labels)
                \cup {c \in Changes : c.modeled},
   length |-> BothLength]

MCTraces == {ChildTrace, WindowTrace, BothTrace}

ChildSymmetry == Permutations(Children)
=============================================================================
