--------------------------- MODULE MCProofPipeline ---------------------------
EXTENDS ProofPipeline, TLC

CONSTANTS x, y

MCBlocks == 0 .. 3
MCBindings == {x, y}
MCLoopIds == {"L", "M"}

NoLoop == [facts |-> {}, loopEdges |-> [l \in MCLoopIds |-> {}]]

Graph(nodes, edges, exits) ==
    [nodes |-> nodes, edges |-> edges, exits |-> exits]

\* loop: the loop's entry, the sources of its closing edges, its leaving edges.
Loop(target, sources, leaving) ==
    [facts |-> {[source |-> s, target |-> target, loop |-> "L"] : s \in sources},
     loopEdges |-> [l \in MCLoopIds |-> leaving \cup {<<s, target>> : s \in sources}]]

FallsOff == Graph(0 .. 3, {<<0, 1>>, <<0, 2>>, <<2, 3>>}, {}) @@ NoLoop
EarlyExit == Graph(0 .. 3, {<<0, 1>>, <<1, 2>>, <<2, 3>>}, {1, 3}) @@ NoLoop
Diamond == Graph(0 .. 3, {<<0, 1>>, <<0, 2>>, <<1, 3>>, <<2, 3>>}, {3}) @@ NoLoop
Skip == Graph(0 .. 3, {<<0, 1>>, <<0, 3>>, <<1, 2>>, <<2, 3>>}, {3}) @@ NoLoop
Nested == Graph(0 .. 3, {<<0, 1>>, <<0, 2>>, <<1, 2>>, <<1, 3>>, <<2, 3>>}, {3}) @@ NoLoop
Closing == Graph(0 .. 3, {<<0, 1>>, <<1, 2>>, <<2, 1>>, <<2, 3>>}, {3})
             @@ Loop(1, {2}, {<<2, 3>>})
Breaking == Graph(0 .. 3, {<<0, 1>>, <<1, 2>>, <<1, 3>>, <<2, 1>>}, {3})
             @@ Loop(1, {2}, {<<1, 3>>})
Returning == Graph(0 .. 3, {<<0, 1>>, <<1, 2>>, <<2, 1>>, <<2, 3>>}, {1, 3})
             @@ Loop(1, {2}, {<<2, 3>>})
\* Two loops of one block each, one after the other.
InRow == Graph(0 .. 3, {<<0, 1>>, <<1, 1>>, <<1, 2>>, <<2, 2>>, <<2, 3>>}, {3})
           @@ [facts |-> {[source |-> 1, target |-> 1, loop |-> "L"],
                          [source |-> 2, target |-> 2, loop |-> "M"]},
               loopEdges |-> [l \in MCLoopIds |-> IF l = "L" THEN {<<1, 1>>, <<1, 2>>}
                                                              ELSE {<<2, 2>>, <<2, 3>>}]]
Empty == Graph({}, {}, {}) @@ NoLoop

Effects == {"create", "discharge", "transfer", "move", "branch_unresolved"}

Event(kind, binding) == [kind |-> kind, binding |-> binding]

\* A binding is renamed by symmetry, so "none" and "call" name only one.
AllEvents(bindings) ==
    {Event("none", x)} \cup {Event(k, b) : k \in Effects, b \in bindings}

\* One function per graph and assignment of events to its blocks.
Functions(graphs, events) ==
    {g @@ [event |-> ev] : g \in graphs, ev \in [MCBlocks -> events]}

Plain(templated) ==
    [templated |-> templated, bounded |-> {}, directed |-> {}, malformed |-> FALSE, domain |-> {}]

\* A directive about the loop L: well-formed, of a kind that no binding has, or malformed.
Directed(g, malformed, domain) ==
    [Plain({x, y}) EXCEPT !.directed = {fact \in g.facts : fact.loop = "L"},
                          !.malformed = malformed, !.domain = domain]

EmptyProgram ==
    Empty @@ [event |-> [b \in MCBlocks |-> Event("none", x)]] @@ Plain({x, y})

\* Acyclic functions of one binding, every event in every block.
AcyclicPrograms ==
    {f @@ Plain({x, y}) :
        f \in Functions({FallsOff, EarlyExit, Diamond, Skip, Nested},
                        AllEvents({x}) \cup {Event("call", x)})}
    \cup {EmptyProgram}

\* Loops over two bindings, one of which may lack a template or be the domain
\* of a user invariant, which ranges over bindings the function creates.
\* Before the loop a function can only create.
LoopPrograms ==
    LET before == {Event("none", x), Event("create", x), Event("create", y)}
        inside == {Event("none", x)} \cup
                  {Event(k, b) : k \in {"create", "discharge", "transfer", "move"},
                                 b \in {x, y}}
        shapes == {g @@ p : g \in {Closing, Breaking, Returning}, p \in {Plain({x, y}), Plain({x})}}
                    \cup {g @@ Directed(g, FALSE, {x}) : g \in {Closing, Breaking, Returning, InRow}}
                    \cup {Closing @@ Directed(Closing, m, {}) : m \in BOOLEAN}
        all == {g @@ [event |-> [b \in MCBlocks |-> IF b = 0 THEN ev0 ELSE ev[b]]] :
                  g \in shapes, ev0 \in before, ev \in [1 .. 3 -> inside]}
    IN  {f \in all : f.domain # {} => \E b \in MCBlocks : f.event[b] = Event("create", x)}

\* The loop body creates and settles one obligation, and handles another that
\* was created before the loop.
LongBlocks == 0 .. 4

TwoObligationPrograms ==
    {Graph(LongBlocks, {<<0, 1>>, <<1, 2>>, <<2, 3>>, <<3, 1>>, <<3, 4>>}, {4})
       @@ Loop(1, {3}, {<<3, 4>>})
       @@ [event |-> <<Event("create", y), e, f, Event("none", x)>> @@ (0 :> Event("create", x))]
       @@ Plain({x, y}) :
        e \in AllEvents({x, y}), f \in AllEvents({x, y})}

SmallPrograms == AcyclicPrograms \cup LoopPrograms

-----------------------------------------------------------------------------
(* Certificates no emitter wrote, which claim what they like about one      *)
(* binding of two small loops: wrong statuses, missing or unmarked          *)
(* invariants, invariants about the wrong bindings.                         *)

Env(status) == [b \in MCBindings |-> IF b = x THEN status ELSE Absent]

Claim(kind, before, after, regions) ==
    [kind |-> kind, binding |-> x, before |-> Env(before), after |-> Env(after),
     regions |-> regions]

NoEvent == Claim("none", Absent, Absent, {})

FirstClaims == {NoEvent, Claim("create", Absent, "owned", {})}

\* The loop body's event, and the statuses claimed around it.
BodyClaims ==
    {NoEvent} \cup
    {Claim("create", before, "owned", regions) :
        before \in {Absent, "owned"}, regions \in {{}, {"L"}}} \cup
    {Claim(kind, before, after, {}) :
        kind \in {"discharge", "move", "branch_unresolved"},
        before \in {Absent, "owned"}, after \in {"resolved", "moved", "branch_unresolved"}}

LastClaims == {NoEvent, Claim("discharge", "owned", "resolved", {}),
               Claim("escape", "resolved", "escaped", {})}

Loops == {[source |-> 1, target |-> 1, edges |-> {<<0, 1>>, <<1, 1>>, <<1, 2>>}],
          [source |-> 2, target |-> 1, edges |-> {<<0, 1>>, <<1, 2>>, <<2, 1>>}]}

LoopClaims(l) ==
    {{}} \cup
    {{[source |-> l.source, target |-> l.target, loop |-> "L", preserved |-> p,
       created |-> c, checked |-> k, entryStates |-> Env(s), backStates |-> Env(t)]} :
        p \in BOOLEAN, c \in SUBSET {x}, k \in SUBSET {x},
        s \in {Absent, "owned"}, t \in {"resolved", "owned", "moved"}}

MCCertificates ==
    {[nodes |-> 0 .. 2, edges |-> l.edges, exits |-> {2},
      event |-> [b \in MCBlocks |-> <<e0, e1, e2, NoEvent>>[b + 1]],
      entryEnv |-> Env(Absent), exitEnv |-> Env(left),
      facts |-> {[source |-> l.source, target |-> l.target, loop |-> "L"]},
      invariants |-> i, bounded |-> {}] :
        l \in Loops, e0 \in FirstClaims, e1 \in BodyClaims, e2 \in LastClaims,
        left \in {Absent, "resolved"}, i \in UNION {LoopClaims(m) : m \in Loops}}
=============================================================================
