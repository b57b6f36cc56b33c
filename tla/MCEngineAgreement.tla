------------------------- MODULE MCEngineAgreement -------------------------
(***************************************************************************)
(* Instances of EngineAgreement: five shapes of scenarios, each with the   *)
(* operations and options that interact with each other.                   *)
(***************************************************************************)
EXTENDS EngineAgreement

CONSTANTS StorageLength, NetworkLength, EffectLength, BoundaryLength, MixedLength

MCBindings == {"a", "b"}

OptionsOf(injects, schedulers, coverages) ==
  [inject : injects, scheduler : schedulers, coverage : coverages, engine : {"both"}]

Plain == OptionsOf({<< >>}, {"round-robin"}, {"full"})

\* Writes, commits, acknowledgements and crashes in any order.
StorageShape ==
  [ops     |-> {Create("a"), Discharge("a", "ack")}
                 \cup {Storage(x) : x \in {"write", "commit", "crash"}},
   length  |-> StorageLength,
   options |-> Plain]

\* One message in flight, and a transfer that is told at another place.
NetworkShape ==
  [ops     |-> {Network(x) : x \in NetworkActions} \cup {Transfer("a"), Storage("recover")},
   length  |-> NetworkLength,
   options |-> Plain]

\* Two obligations across effects, under cancellation and both schedulers.
EffectShape ==
  [ops     |-> {Create("a"), Create("b"), Discharge("a", "ack"), Discharge("b", "nack"),
                Discharge("a", "return"), Effect("task"), Effect("time")},
   length  |-> EffectLength,
   options |-> OptionsOf({<< >>, <<"cancel">>}, Schedulers, {"full"})]

\* Everything that keeps the harness from running, and the other hooks.
BoundaryShape ==
  [ops     |-> {Create("a"), Discharge("a", "return"), Unresolved("a"), Effect("time")}
                 \cup {External(p) : p \in Policies} \cup {Stop(c) : c \in StopCodes},
   length  |-> BoundaryLength,
   options |-> OptionsOf({<< >>, <<"crash">>, <<"time-jump", "preempt">>,
                          <<"cancel", "crash">>, <<"crash", "cancel">>}, {"round-robin"}, Coverages)
                 \cup [inject : {<< >>}, scheduler : {"pct"}, coverage : {"full"},
                       engine : {"semantic"}]]

\* Everything that prints, and what does not.
MixedShape ==
  [ops     |-> {Create("a"), Discharge("a", "ack"), Transfer("a"), Effect("task"),
                Effect("time"), Storage("write"), Network("send"), External("record")},
   length  |-> MixedLength,
   options |-> Plain]

MCShapes == {StorageShape, NetworkShape, EffectShape, BoundaryShape, MixedShape}
=============================================================================
