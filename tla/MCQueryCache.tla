----------------------------- MODULE MCQueryCache -----------------------------
(* A file with three texts, one of which only a recovering parse accepts,  *)
(* and six configurations that differ from the first in the recovery mode, *)
(* in what transforms and output read, in the policy and the executor, in  *)
(* the buffer size alone, or in the dependencies and what no key holds.    *)
EXTENDS QueryCache

Base == [recovery |-> FALSE, buffer |-> 100, transform |-> "small", policy |-> "dev",
         threshold |-> 10000, budget |-> 5, output |-> "default", deps |-> {"tokio"},
         ecosystem |-> "default"]

MCConfigs == {Base,
              [Base EXCEPT !.recovery = TRUE],
              [Base EXCEPT !.transform = "large", !.threshold = 1200, !.budget = 1,
                           !.output = "other"],
              [Base EXCEPT !.policy = "release", !.deps = {"async-std"}],
              [Base EXCEPT !.buffer = 10],
              [Base EXCEPT !.deps = {}, !.ecosystem = "other"]}
MCTexts == {"t1", "t2", "t3"}
MCBroken == {"t3"}
\* Analysis of t2 stops in a release build, and where no executor is named.
MCRefused == {r \in {"t2"} \X [policy : {"dev", "release"}, executor : BOOLEAN] :
                 r[2].policy = "release" \/ ~r[2].executor}
MCAlwaysDiag == {"checked"}
===============================================================================
