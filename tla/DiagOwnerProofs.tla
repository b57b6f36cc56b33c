--------------------------- MODULE DiagOwnerProofs ---------------------------
(***************************************************************************)
(* Proofs about DiagOwner: no live guard escapes the count, so no real     *)
(* contention goes unreported; and the last clone to go reports, once.     *)
(***************************************************************************)
EXTENDS DiagOwner, FiniteSetTheorems, TLAPS

\* Guards borrow from clones that are alive, and a report needs no clone left.
GuardsAnchored ==
    /\ IsFiniteSet(readers) /\ IsFiniteSet(owners)
    /\ \A r \in readers : r[2] \in owners
    /\ writer = NoOwner \/ writer \in owners

Inv == TypeOK /\ GuardsAnchored /\ ActiveCovers /\ ContentionSeen /\ ReportedOnce

\* The invariant holds at the start.
LEMMA InitInv == Init => Inv
<1> SUFFICES ASSUME Init PROVE Inv
  OBVIOUS
<1> USE DEF Init
<1>1. (CHOOSE o \in Owners : TRUE) \in Owners
  BY OwnerIsReal
<1>2. Cardinality(readers) = 0 /\ IsFiniteSet(readers) /\ IsFiniteSet(owners)
  BY FS_EmptySet, FS_Singleton
<1>3. TypeOK
  <2>1. enabled \in BOOLEAN /\ saturated \in BOOLEAN /\ capped \in BOOLEAN
    OBVIOUS
  <2>2. owners \subseteq Owners /\ readers \subseteq Guards \X Owners
    BY <1>1
  <2>3. 0 \in 0 .. MaxCount /\ 0 \in 0 .. MaxActive
    BY CountersHaveRoom
  <2> QED
    BY <2>1, <2>2, <2>3 DEF TypeOK
<1>4. GuardsAnchored /\ ActiveCovers /\ ContentionSeen /\ ReportedOnce
  BY <1>2 DEF GuardsAnchored, ActiveCovers, Live, ContentionSeen, ReportedOnce
<1> QED
  BY <1>3, <1>4 DEF Inv

\* The number of live guards, as a natural.
LEMMA LiveIsNat ==
    ASSUME GuardsAnchored
    PROVE  Cardinality(readers) \in Nat /\ Live \in Nat /\ (Busy => Live >= 1)
<1>1. Cardinality(readers) \in Nat
  BY FS_CardinalityType DEF GuardsAnchored
<1>2. readers # {} => Cardinality(readers) # 0
  BY FS_EmptySet DEF GuardsAnchored
<1> QED
  BY <1>1, <1>2 DEF Live, Busy

\* Counting a borrow keeps the widths of the counters and adds one unless it is capped.
LEMMA CountBorrowType ==
    ASSUME TypeOK, CountBorrow
    PROVE  /\ capped' \in BOOLEAN /\ saturated' \in BOOLEAN
           /\ borrow_count' \in 0 .. MaxCount /\ active_borrows' \in 0 .. MaxActive
           /\ calls' \in Nat /\ borrowed' \in Nat
           /\ ~capped' => ~capped /\ active_borrows' = active_borrows + 1
           /\ UNCHANGED <<enabled, owners, writer, mut_borrow_count, contention_count, reports,
                          written, conflicts>>
<1> USE DEF CountBorrow, TypeOK, CountersHaveRoom, ActiveUp, Incremented, Reaches
<1>1. active_borrows' \in 0 .. MaxActive /\ (active_borrows # MaxActive => active_borrows' = active_borrows + 1)
  BY CountersHaveRoom
<1>2. borrow_count' \in 0 .. MaxCount
  BY CountersHaveRoom
<1>3. capped' = (capped \/ active_borrows = MaxActive) /\ capped' \in BOOLEAN
  OBVIOUS
<1>4. saturated' \in BOOLEAN
  OBVIOUS
<1>5. calls' \in Nat /\ borrowed' \in Nat
  OBVIOUS
<1> QED
  BY <1>1, <1>2, <1>3, <1>4, <1>5

\* A guard that is handed out is counted.
LEMMA BorrowInv ==
    ASSUME Inv, NEW o \in Owners, NEW g \in Guards, Borrow(o, g)
    PROVE  Inv'
<1>1. TypeOK /\ GuardsAnchored /\ ActiveCovers /\ ContentionSeen /\ ReportedOnce /\ CountBorrow
  BY DEF Inv, Borrow
<1>2. readers' = readers \cup {<<g, o>>} /\ o \in owners /\ <<g, o>> \notin readers
  BY DEF Borrow
<1>3. Cardinality(readers') = Cardinality(readers) + 1 /\ IsFiniteSet(readers')
  BY <1>1, <1>2, FS_AddElement DEF GuardsAnchored
<1>4. TypeOK'
  BY <1>1, <1>2, CountBorrowType DEF TypeOK
<1>5. GuardsAnchored'
  BY <1>1, <1>2, <1>3, CountBorrowType DEF GuardsAnchored
<1>6. Live' = Live + 1
  BY <1>1, <1>3, LiveIsNat, CountBorrowType DEF Live
<1>7. ActiveCovers'
  BY <1>1, <1>6, LiveIsNat, CountBorrowType DEF ActiveCovers, TypeOK
<1>8. ContentionSeen' /\ ReportedOnce'
  BY <1>1, <1>2, CountBorrowType DEF ContentionSeen, ReportedOnce
<1> QED
  BY <1>4, <1>5, <1>7, <1>8 DEF Inv

\* A borrow that panics leaves the count too high, never too low.
LEMMA BorrowPanicsInv ==
    ASSUME Inv, NEW o \in Owners, BorrowPanics(o)
    PROVE  Inv'
<1>1. /\ TypeOK /\ GuardsAnchored /\ ActiveCovers /\ ContentionSeen /\ ReportedOnce
      /\ CountBorrow /\ readers' = readers /\ o \in owners
  BY DEF Inv, BorrowPanics
<1>2. TypeOK'
  BY <1>1, CountBorrowType DEF TypeOK
<1>3. GuardsAnchored' /\ Live' = Live
  BY <1>1, CountBorrowType DEF GuardsAnchored, Live
<1>4. ActiveCovers'
  BY <1>1, <1>3, LiveIsNat, CountBorrowType DEF ActiveCovers, TypeOK
<1>5. ContentionSeen' /\ ReportedOnce'
  BY <1>1, CountBorrowType DEF ContentionSeen, ReportedOnce
<1> QED
  BY <1>2, <1>3, <1>4, <1>5 DEF Inv

\* A mutable borrow notes the contention it meets.
LEMMA BorrowMutInv ==
    ASSUME Inv, NEW o \in Owners, BorrowMut(o)
    PROVE  Inv'
<1>1. TypeOK /\ GuardsAnchored /\ ActiveCovers /\ ContentionSeen /\ ReportedOnce
  BY DEF Inv
<1>2. /\ o \in owners /\ readers = {} /\ writer = NoOwner /\ writer' = o
      /\ UNCHANGED <<enabled, owners, readers, borrow_count, reports, borrowed, conflicts>>
      /\ calls' = calls + 1 /\ written' = written + 1
      /\ mut_borrow_count' = Incremented(mut_borrow_count)
      /\ contention_count' = IF active_borrows > 0 THEN Incremented(contention_count)
                                                   ELSE contention_count
      /\ active_borrows' = ActiveUp
      /\ capped' = (capped \/ active_borrows = MaxActive)
      /\ saturated' \in BOOLEAN
  BY <1>1 DEF BorrowMut, Busy, TypeOK
<1>3. /\ mut_borrow_count' \in 0 .. MaxCount
      /\ contention_count' \in 0 .. MaxCount /\ contention_count' >= contention_count
  BY <1>1, <1>2, CountersHaveRoom DEF Incremented, TypeOK
<1>4. /\ active_borrows' \in 0 .. MaxActive
      /\ active_borrows # MaxActive => active_borrows' = active_borrows + 1
  BY <1>1, <1>2, CountersHaveRoom DEF ActiveUp, TypeOK
<1>5. TypeOK'
  BY <1>1, <1>2, <1>3, <1>4 DEF TypeOK
<1>6. GuardsAnchored' /\ Live' = 1 /\ Live = 0
  BY <1>1, <1>2, OwnerIsReal, FS_EmptySet DEF GuardsAnchored, Live
<1>7. ActiveCovers'
  <2>1. ~capped' => active_borrows # MaxActive
    BY <1>2
  <2>2. active_borrows # MaxActive => active_borrows' >= 1
    BY <1>1, <1>4 DEF TypeOK
  <2> QED
    BY <1>6, <2>1, <2>2 DEF ActiveCovers
<1>8. ContentionSeen'
  BY <1>1, <1>2, <1>3 DEF ContentionSeen, TypeOK
<1>9. ReportedOnce'
  BY <1>1, <1>2 DEF ReportedOnce
<1> QED
  BY <1>5, <1>6, <1>7, <1>8, <1>9 DEF Inv

\* So does one that panics.
LEMMA BorrowMutPanicsInv ==
    ASSUME Inv, NEW o \in Owners, BorrowMutPanics(o)
    PROVE  Inv'
<1>1. TypeOK /\ GuardsAnchored /\ ActiveCovers /\ ContentionSeen /\ ReportedOnce
  BY DEF Inv
<1>2. /\ o \in owners /\ Busy /\ CountContention
      /\ calls' = calls + 1 /\ conflicts' = conflicts + 1
      /\ UNCHANGED <<enabled, owners, readers, writer, borrow_count, mut_borrow_count,
                     active_borrows, reports, borrowed, written, capped>>
  BY DEF BorrowMutPanics
<1>3. /\ contention_count' \in 0 .. MaxCount /\ saturated' \in BOOLEAN
      /\ active_borrows > 0 => \/ contention_count' = contention_count + 1
                               \/ contention_count' = MaxCount
      /\ contention_count' >= contention_count
  <2>1. saturated' \in BOOLEAN
    BY <1>1, <1>2 DEF CountContention, TypeOK
  <2>2. contention_count \in 0 .. MaxCount /\ active_borrows \in Nat
    BY <1>1, CountersHaveRoom DEF TypeOK
  <2>3. contention_count' = IF active_borrows > 0 THEN Incremented(contention_count)
                                                  ELSE contention_count
    BY <1>2 DEF CountContention
  <2> QED
    BY <2>1, <2>2, <2>3, CountersHaveRoom DEF Incremented
<1>4. TypeOK'
  BY <1>1, <1>2, <1>3 DEF TypeOK
<1>5. GuardsAnchored' /\ Live' = Live
  BY <1>1, <1>2 DEF GuardsAnchored, Live
<1>6. ActiveCovers'
  BY <1>1, <1>2, <1>5 DEF ActiveCovers
<1>7. ~capped => active_borrows > 0
  BY <1>1, <1>2, LiveIsNat DEF ActiveCovers, TypeOK
<1>8. ContentionSeen'
  BY <1>1, <1>2, <1>3, <1>7, CountersHaveRoom DEF ContentionSeen, TypeOK
<1>9. ReportedOnce'
  BY <1>1, <1>2 DEF ReportedOnce
<1> QED
  BY <1>4, <1>5, <1>6, <1>8, <1>9 DEF Inv

\* Dropping a guard takes it out of both counts.
LEMMA DropGuardInv ==
    ASSUME Inv, DropWriter \/ \E r \in readers : DropReader(r)
    PROVE  Inv'
<1>1. TypeOK /\ GuardsAnchored /\ ActiveCovers /\ ContentionSeen /\ ReportedOnce
  BY DEF Inv
<1>2. /\ UNCHANGED <<enabled, owners, borrow_count, mut_borrow_count, contention_count,
                     saturated, reports, history>>
      /\ active_borrows' = ActiveDown
  BY DEF DropWriter, DropReader
<1>3. /\ active_borrows' \in 0 .. MaxActive
      /\ active_borrows >= 1 => active_borrows' = active_borrows - 1
  BY <1>1, <1>2, CountersHaveRoom DEF ActiveDown, TypeOK
<1>4. /\ readers' \subseteq readers /\ IsFiniteSet(readers') /\ writer' \in {writer, NoOwner}
      /\ Live' = Live - 1
  <2>1. CASE DropWriter
    BY <1>1, <2>1, LiveIsNat DEF DropWriter, GuardsAnchored, Live
  <2>2. ASSUME NEW r \in readers, DropReader(r)
        PROVE  <1>4
    <3>1. readers' = readers \ {r} /\ writer' = writer
      BY <2>2 DEF DropReader
    <3>2. IsFiniteSet(readers') /\ Cardinality(readers') = Cardinality(readers) - 1
      BY <1>1, <3>1, FS_RemoveElement DEF GuardsAnchored
    <3> QED
      BY <1>1, <3>1, <3>2, LiveIsNat DEF Live
  <2> QED
    BY <2>1, <2>2
<1>5. TypeOK' /\ GuardsAnchored'
  BY <1>1, <1>2, <1>3, <1>4 DEF TypeOK, GuardsAnchored, history
<1>6. ActiveCovers'
  <2>1. Live >= 1
    BY <1>1, LiveIsNat DEF DropWriter, DropReader, Busy
  <2> QED
    BY <1>1, <1>2, <1>3, <1>4, <2>1, LiveIsNat DEF ActiveCovers, TypeOK, history
<1>7. ContentionSeen' /\ ReportedOnce'
  BY <1>1, <1>2 DEF ContentionSeen, ReportedOnce, Hot, history
<1> QED
  BY <1>5, <1>6, <1>7 DEF Inv

\* Only the clone that goes last finds the counters held by nobody else.
LEMMA DropOwnerInv ==
    ASSUME Inv, NEW o \in Owners, DropOwner(o)
    PROVE  Inv'
<1>1. TypeOK /\ GuardsAnchored /\ ActiveCovers /\ ContentionSeen /\ ReportedOnce
  BY DEF Inv
<1>2. /\ o \in owners /\ writer # o /\ \A r \in readers : r[2] # o
      /\ owners' = owners \ {o}
      /\ reports' = IF enabled /\ LastHolder /\ (Hot \/ contention_count > 0)
                      THEN reports + 1 ELSE reports
      /\ UNCHANGED <<enabled, readers, writer, counters, history>>
  <2>1. ASSUME NEW r \in readers
        PROVE  r[2] # o
    BY <1>1 DEF DropOwner, TypeOK
  <2> QED
    BY <2>1 DEF DropOwner
<1>3. TypeOK' /\ ActiveCovers' /\ ContentionSeen'
  BY <1>1, <1>2 DEF TypeOK, ActiveCovers, Live, ContentionSeen, counters, history
<1>4. GuardsAnchored'
  BY <1>1, <1>2, FS_RemoveElement DEF GuardsAnchored
<1>5. Cardinality(owners) \in Nat /\ Cardinality(owners) = Cardinality(owners') + 1
  <2>1. IsFiniteSet(owners) /\ o \in owners /\ owners' = owners \ {o}
    BY <1>1, <1>2 DEF GuardsAnchored
  <2>2. Cardinality(owners) \in Nat /\ Cardinality(owners \ {o}) = Cardinality(owners) - 1
    BY <2>1, FS_RemoveElement, FS_CardinalityType
  <2> QED
    BY <2>1, <2>2
<1>6. ReportedOnce'
  <2>1. CASE owners' = {}
    <3>1. readers = {} /\ writer = NoOwner
      BY <1>1, <1>2, <2>1 DEF GuardsAnchored
    <3>2. LastHolder
      BY <1>5, <2>1, <3>1, FS_EmptySet DEF LastHolder, CounterHolders
    <3> QED
      BY <1>1, <1>2, <2>1, <3>2 DEF ReportedOnce, Hot, counters
  <2>2. CASE owners' # {}
    <3>1. Cardinality(owners') # 0 /\ Cardinality(owners') \in Nat
      BY <1>4, <2>2, FS_EmptySet, FS_CardinalityType DEF GuardsAnchored
    <3>2. ~LastHolder
      BY <1>1, <1>5, <3>1, LiveIsNat DEF LastHolder, CounterHolders
    <3> QED
      BY <1>1, <1>2, <2>2, <3>2 DEF ReportedOnce
  <2> QED
    BY <2>1, <2>2
<1> QED
  BY <1>3, <1>4, <1>6 DEF Inv

\* Every step keeps the invariant.
LEMMA NextInv == Inv /\ [Next]_vars => Inv'
<1> SUFFICES ASSUME Inv, [Next]_vars PROVE Inv'
  OBVIOUS
<1>1. ASSUME NEW o \in Owners, CloneOwner(o)
      PROVE  Inv'
  BY <1>1, FS_AddElement DEF Inv, CloneOwner, TypeOK, GuardsAnchored, ActiveCovers, Live,
     ContentionSeen, ReportedOnce, Hot, counters, history
<1>2. CASE UNCHANGED vars
  BY <1>2 DEF Inv, vars, TypeOK, GuardsAnchored, ActiveCovers, Live, ContentionSeen,
     ReportedOnce, Hot, counters, history
<1> QED
  BY <1>1, <1>2, BorrowInv, BorrowPanicsInv, BorrowMutInv, BorrowMutPanicsInv, DropGuardInv,
     DropOwnerInv DEF Next

\* While active_borrows was not pushed past its type no live guard is missing
\* from it, and every borrow_mut that met a live guard is in contention_count.
THEOREM ContentionIsSeen == Spec => [](ActiveCovers /\ ContentionSeen)
<1>1. Inv => ActiveCovers /\ ContentionSeen
  BY DEF Inv
<1> QED
  BY <1>1, InitInv, NextInv, PTL DEF Spec

\* A hot or contended owner is reported when its last clone is dropped, once,
\* however the clones and guards were dropped.
THEOREM LastOwnerReports == Spec => []ReportedOnce
<1>1. Inv => ReportedOnce
  BY DEF Inv
<1> QED
  BY <1>1, InitInv, NextInv, PTL DEF Spec

\* Every counter stays within its type, whatever the program borrows, catches
\* and drops.
THEOREM OwnerTypeCorrect == Spec => []TypeOK
<1>1. Inv => TypeOK
  BY DEF Inv
<1> QED
  BY <1>1, InitInv, NextInv, PTL DEF Spec

\* No live guard is missing from active_borrows until it was incremented at
\* its maximum.
THEOREM LiveGuardsAreCounted == Spec => []ActiveCovers
<1>1. Inv => ActiveCovers
  BY DEF Inv
<1> QED
  BY <1>1, InitInv, NextInv, PTL DEF Spec

-----------------------------------------------------------------------------
\* What the flag of the report says of the counters: none of them is at its
\* maximum without it.
FlagIsRaised ==
    borrow_count = MaxCount \/ mut_borrow_count = MaxCount => saturated

HonestInv == TypeOK /\ CountsHonest /\ FlagIsRaised

\* One increment: below the maximum it counts, and it reaches the maximum only
\* with the flag.
LEMMA IncrementIsHonest ==
    ASSUME NEW n \in 0 .. MaxCount
    PROVE  /\ Incremented(n) \in 0 .. MaxCount /\ Incremented(n) <= n + 1
           /\ n # MaxCount => Incremented(n) = n + 1
           /\ Incremented(n) = MaxCount => n = MaxCount \/ Reaches(n)
  BY CountersHaveRoom DEF Incremented, Reaches

\* The counts of borrow stay exact or flagged.
LEMMA CountBorrowHonest ==
    ASSUME HonestInv, CountBorrow
    PROVE  CountsHonest' /\ FlagIsRaised'
<1>1. /\ borrow_count' = Incremented(borrow_count) /\ borrowed' = borrowed + 1
      /\ saturated' = (saturated \/ Reaches(borrow_count))
      /\ UNCHANGED <<mut_borrow_count, written>>
  BY DEF CountBorrow
<1>2. /\ borrow_count \in 0 .. MaxCount /\ borrowed \in Nat /\ MaxCount \in Nat
      /\ saturated \in BOOLEAN /\ saturated' \in BOOLEAN
      /\ CountsHonest /\ FlagIsRaised
  BY <1>1, CountersHaveRoom DEF HonestInv, TypeOK
<1>3. /\ borrow_count' <= borrow_count + 1 /\ borrow_count' \in 0 .. MaxCount
      /\ borrow_count # MaxCount => borrow_count' = borrow_count + 1
      /\ borrow_count' = MaxCount => borrow_count = MaxCount \/ Reaches(borrow_count)
      /\ saturated \/ Reaches(borrow_count) => saturated'
  BY <1>1, <1>2, IncrementIsHonest
<1>4. FlagIsRaised'
  BY <1>1, <1>2, <1>3 DEF FlagIsRaised
<1>5. CountsHonest'
  BY <1>1, <1>2, <1>3 DEF CountsHonest, FlagIsRaised
<1> QED
  BY <1>4, <1>5

\* So do those of borrow_mut.
LEMMA BorrowMutHonest ==
    ASSUME HonestInv, NEW o \in Owners, BorrowMut(o)
    PROVE  CountsHonest' /\ FlagIsRaised'
<1>1. /\ mut_borrow_count' = Incremented(mut_borrow_count) /\ written' = written + 1
      /\ saturated' = (\/ saturated
                       \/ active_borrows > 0 /\ Reaches(contention_count)
                       \/ Reaches(mut_borrow_count))
      /\ UNCHANGED <<borrow_count, borrowed>>
  BY DEF BorrowMut
<1>2. /\ mut_borrow_count \in 0 .. MaxCount /\ written \in Nat /\ MaxCount \in Nat
      /\ saturated \in BOOLEAN /\ saturated' \in BOOLEAN
      /\ CountsHonest /\ FlagIsRaised
  BY <1>1, CountersHaveRoom DEF HonestInv, TypeOK
<1>3. /\ mut_borrow_count' <= mut_borrow_count + 1 /\ mut_borrow_count' \in 0 .. MaxCount
      /\ mut_borrow_count # MaxCount => mut_borrow_count' = mut_borrow_count + 1
      /\ mut_borrow_count' = MaxCount => mut_borrow_count = MaxCount \/ Reaches(mut_borrow_count)
      /\ saturated \/ Reaches(mut_borrow_count) => saturated'
  BY <1>1, <1>2, IncrementIsHonest
<1>4. FlagIsRaised'
  BY <1>1, <1>2, <1>3 DEF FlagIsRaised
<1>5. CountsHonest'
  BY <1>1, <1>2, <1>3 DEF CountsHonest, FlagIsRaised
<1> QED
  BY <1>4, <1>5

\* No other step moves the counters, nor lowers the flag.
LEMMA OthersHonest ==
    ASSUME HonestInv, UNCHANGED <<borrow_count, borrowed, mut_borrow_count, written>>,
           saturated => saturated'
    PROVE  CountsHonest' /\ FlagIsRaised'
  BY DEF HonestInv, CountsHonest, FlagIsRaised

\* Every step keeps the counts exact or flagged.
LEMMA NextHonest == HonestInv /\ [Next]_vars => CountsHonest' /\ FlagIsRaised'
<1> SUFFICES ASSUME HonestInv, [Next]_vars PROVE CountsHonest' /\ FlagIsRaised'
  OBVIOUS
<1>1. ASSUME NEW o \in Owners, (\E g \in Guards : Borrow(o, g)) \/ BorrowPanics(o)
      PROVE  CountsHonest' /\ FlagIsRaised'
  <2>1. CountBorrow
    BY <1>1 DEF Borrow, BorrowPanics
  <2> QED
    BY <2>1, CountBorrowHonest
<1>2. ASSUME NEW o \in Owners, CloneOwner(o) \/ DropOwner(o)
      PROVE  CountsHonest' /\ FlagIsRaised'
  BY <1>2, OthersHonest DEF CloneOwner, DropOwner, counters, history
<1>3. ASSUME NEW o \in Owners, BorrowMutPanics(o)
      PROVE  CountsHonest' /\ FlagIsRaised'
  BY <1>3, OthersHonest DEF BorrowMutPanics, CountContention
<1>4. CASE DropWriter \/ \E r \in readers : DropReader(r)
  BY <1>4, OthersHonest DEF DropWriter, DropReader, history
<1>5. CASE UNCHANGED vars
  BY <1>5, OthersHonest DEF vars, counters, history
<1> QED
  BY <1>1, <1>2, <1>3, <1>4, <1>5, BorrowMutHonest DEF Next

\* The saturated note of the report separates exact counts from lower bounds,
\* for any maximum of the counters and any number of calls.
THEOREM CountsAreHonest == Spec => []CountsHonest
<1>1. Init => CountsHonest /\ FlagIsRaised
  BY CountersHaveRoom DEF Init, CountsHonest, FlagIsRaised
<1>2. TypeOK /\ CountsHonest /\ FlagIsRaised /\ [Next]_vars => CountsHonest' /\ FlagIsRaised'
  BY NextHonest DEF HonestInv
<1> QED
  BY <1>1, <1>2, OwnerTypeCorrect, PTL DEF Spec
=============================================================================
