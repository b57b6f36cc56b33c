----------------------------- MODULE ChangeFeed -----------------------------
(***************************************************************************)
(* What a polling watcher promises its reader.  The watcher looks at one   *)
(* file at a time; from time to time it tells the reader everything it     *)
(* has seen.  Nothing is told that was not seen, and nothing that was seen *)
(* is left out of the next telling: except that a file which could not be  *)
(* read for a while and comes back as it was is not mentioned again.       *)
(***************************************************************************)
CONSTANTS
    Files,      \* what is watched
    Errors,     \* ways in which a file cannot be read
    Absent,     \* no file
    NotFound,   \* the error of a file that is not there
    None        \* no error

VARIABLES
    world,      \* [Files -> [version, fault]]: the directory
    known,      \* [Files -> [snap, err]]: what the watcher has seen
    told,       \* [Files -> [snap, err]]: what the reader has been told
    up          \* the watcher runs

feed == <<world, known, told, up>>

\* What one look at a file leaves of it, given what was known before.
Seen(now, before) ==
    IF now.fault # None THEN [snap |-> before.snap, err |-> now.fault]
    ELSE IF now.version = Absent THEN [snap |-> Absent, err |-> NotFound]
    ELSE [snap |-> now.version, err |-> None]

\* The one difference a telling may leave.
CameBackAsItWas(f) ==
    /\ told[f].snap = known[f].snap
    /\ told[f].err \in Errors
    /\ known[f].err = None

Init ==
    /\ up = TRUE
    /\ told = known

WorldMoves == UNCHANGED <<known, told, up>>

Look(f) ==
    /\ up
    /\ known' = [known EXCEPT ![f] = Seen(world[f], @)]
    /\ UNCHANGED <<world, told, up>>

Tell ==
    /\ up
    /\ \A f \in Files :
          \/ told'[f] = known[f]
          \/ CameBackAsItWas(f) /\ told'[f] = told[f]
    /\ UNCHANGED <<world, known, up>>

\* A watcher that stops forgets what it has not told.
Stop ==
    /\ up
    /\ up' = FALSE
    /\ known' = told
    /\ UNCHANGED <<world, told>>

\* A new watcher starts from the directory as it finds it, and tells nothing of it.
Start ==
    /\ ~up
    /\ up' = TRUE
    /\ told' = known'
    /\ UNCHANGED world

Next ==
    \/ WorldMoves
    \/ \E f \in Files : Look(f)
    \/ Tell
    \/ Stop
    \/ Start

Spec == Init /\ [][Next]_feed
=============================================================================
