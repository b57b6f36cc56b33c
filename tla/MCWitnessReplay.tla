--------------------------- MODULE MCWitnessReplay ---------------------------
(***************************************************************************)
(* Programs with up to three events, which pass or fail in every way that  *)
(* the engines can settle them, and texts that differ in a comment only.   *)
(***************************************************************************)
EXTENDS WitnessReplay, TLC

CONSTANTS MaxCount

\* A text is the program that it compiles to and a comment.
Runs == {<<"step">>, <<"seeded">>, <<"noise", "step">>, <<"step", "noise">>,
         <<"noise", "seeded">>, <<"noise", "noise", "step">>}

Twins == [rust : {1, 2}, kinds : {<<"step">>}, fails : BOOLEAN, outcome : {"matched"},
          check : {FALSE}, comment : {0, 1}]

Others == [rust : {1}, kinds : Runs, fails : BOOLEAN, outcome : Outcomes,
           check : BOOLEAN, comment : {0}]

MCTexts == Twins \cup Others

\* The twins are edited into one another; any other text starts or
\* stops to fail, or loses all steps but one.
MCEdits ==
  [t \in MCTexts |->
     IF t \in Twins THEN Twins \ {t}
     ELSE {[t EXCEPT !.fails = ~t.fails], [t EXCEPT !.kinds = <<"step">>]} \ {t}]

MCProgram ==
  [t \in MCTexts |-> [rust |-> t.rust, kinds |-> t.kinds, fails |-> t.fails,
                      outcome |-> t.outcome, check |-> t.check]]

MCSettings ==
  [seed : {0, 3}, count : 1 .. MaxCount, engine : {"both", "semantic"},
   shrink : BOOLEAN, clock : BOOLEAN]
=============================================================================
