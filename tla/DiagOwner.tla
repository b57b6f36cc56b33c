------------------------------ MODULE DiagOwner ------------------------------
(***************************************************************************)
(* DiagOwner of kobo-diag, the instrumented path: clones of one            *)
(* Rc<RefCell<V>> share a set of counters, every borrow goes through a     *)
(* guard that counts itself out when it is dropped, and the last owner to  *)
(* go reports.  A RefCell panics on a conflicting borrow; the program may  *)
(* catch the panic and go on.                                              *)
(***************************************************************************)
EXTENDS Naturals, FiniteSets

CONSTANTS
    Owners,     \* the handles the program may clone
    Guards,     \* the shared guards that may be live at once
    NoOwner,    \* not an owner
    MaxCount,   \* u64::MAX
    MaxActive,  \* u32::MAX
    Threshold,  \* DiagThreshold::borrow_count
    MaxCalls    \* bound on the calls of borrow and borrow_mut

ASSUME OwnerIsReal == NoOwner \notin Owners /\ Owners # {}

ASSUME GuardsAreFinite == IsFiniteSet(Guards)

ASSUME CountersHaveRoom ==
    /\ MaxCount \in Nat \ {0} /\ MaxActive \in Nat \ {0}
    /\ Threshold \in Nat /\ MaxCalls \in Nat

VARIABLES
    enabled,            \* KOBO_DIAG=1 or KOBO_CHECKED_MODE=1
    owners,             \* the clones that are alive
    readers,            \* live DiagRefs: guards, each with the clone it borrows from
    writer,             \* the clone the live DiagRefMut borrows from, or NoOwner
    borrow_count, mut_borrow_count, contention_count, active_borrows, saturated,
    reports,            \* [kobo-diag] blocks printed
    calls,              \* calls of borrow and borrow_mut
    borrowed,           \* calls of borrow
    written,            \* calls of borrow_mut that returned
    conflicts,          \* calls of borrow_mut while a guard was live
    capped              \* active_borrows was incremented at its maximum

counters == <<borrow_count, mut_borrow_count, contention_count, active_borrows, saturated>>
history == <<calls, borrowed, written, conflicts, capped>>
vars == <<enabled, owners, readers, writer, counters, reports, history>>

\* Variant: the counter wraps past its type instead of saturating.
IncrementedPast(n) == n + 1

\* u64::saturating_add(1)
Incremented(n) == IF n < MaxCount THEN n + 1 ELSE n

\* Variant: the flag waits for a value past the maximum.
ReachesPast(n) == n < MaxCount /\ n + 1 > MaxCount

\* saturating_increment sets the flag in the step that reaches the maximum.
Reaches(n) == n < MaxCount /\ n + 1 = MaxCount

\* Variant: a new guard is not counted.
ActiveStill == active_borrows

\* increment_active and the guards' saturating_sub
ActiveUp == IF active_borrows < MaxActive THEN active_borrows + 1 ELSE active_borrows

ActiveDown == IF active_borrows > 0 THEN active_borrows - 1 ELSE 0

Busy == readers # {} \/ writer # NoOwner

Init ==
    /\ enabled \in BOOLEAN
    /\ owners = {CHOOSE o \in Owners : TRUE}
    /\ readers = {} /\ writer = NoOwner
    /\ borrow_count = 0 /\ mut_borrow_count = 0 /\ contention_count = 0
    /\ active_borrows = 0 /\ saturated = FALSE
    /\ reports = 0
    /\ calls = 0 /\ borrowed = 0 /\ written = 0 /\ conflicts = 0 /\ capped = FALSE

CloneOwner(o) ==
    /\ owners # {} /\ o \notin owners
    /\ owners' = owners \cup {o}
    /\ UNCHANGED <<enabled, readers, writer, counters, reports, history>>

\* The counters move before the RefCell is asked.
CountBorrow ==
    /\ calls < MaxCalls
    /\ calls' = calls + 1
    /\ active_borrows' = ActiveUp
    /\ capped' = (capped \/ active_borrows = MaxActive)
    /\ borrow_count' = Incremented(borrow_count)
    /\ saturated' = (saturated \/ Reaches(borrow_count))
    /\ borrowed' = borrowed + 1
    /\ UNCHANGED <<enabled, owners, writer, mut_borrow_count, contention_count, reports,
                   written, conflicts>>

Borrow(o, g) ==
    /\ o \in owners /\ writer = NoOwner
    /\ \A p \in Owners : <<g, p>> \notin readers
    /\ CountBorrow
    /\ readers' = readers \cup {<<g, o>>}

\* RefCell::borrow panics: no guard exists that would count the call out.
BorrowPanics(o) ==
    /\ o \in owners /\ writer # NoOwner
    /\ CountBorrow
    /\ UNCHANGED readers

\* Variant: one live guard is not taken for contention.
CountCrowd ==
    IF active_borrows > 1
      THEN /\ contention_count' = Incremented(contention_count)
           /\ saturated' = (saturated \/ Reaches(contention_count))
      ELSE UNCHANGED <<contention_count, saturated>>

CountContention ==
    IF active_borrows > 0
      THEN /\ contention_count' = Incremented(contention_count)
           /\ saturated' = (saturated \/ Reaches(contention_count))
      ELSE UNCHANGED <<contention_count, saturated>>

\* The contention check reads active_borrows, the RefCell reads its own flag.
BorrowMut(o) ==
    /\ o \in owners /\ ~Busy /\ calls < MaxCalls
    /\ calls' = calls + 1
    /\ contention_count' = IF active_borrows > 0 THEN Incremented(contention_count)
                                                 ELSE contention_count
    /\ saturated' = (\/ saturated
                     \/ active_borrows > 0 /\ Reaches(contention_count)
                     \/ Reaches(mut_borrow_count))
    /\ mut_borrow_count' = Incremented(mut_borrow_count)
    /\ active_borrows' = ActiveUp
    /\ capped' = (capped \/ active_borrows = MaxActive)
    /\ writer' = o
    /\ written' = written + 1
    /\ UNCHANGED <<enabled, owners, readers, borrow_count, reports, borrowed, conflicts>>

BorrowMutPanics(o) ==
    /\ o \in owners /\ Busy /\ calls < MaxCalls
    /\ calls' = calls + 1
    /\ conflicts' = conflicts + 1
    /\ CountContention
    /\ UNCHANGED <<enabled, owners, readers, writer, borrow_count, mut_borrow_count,
                   active_borrows, reports, borrowed, written, capped>>

DropReader(r) ==
    /\ r \in readers
    /\ readers' = readers \ {r}
    /\ active_borrows' = ActiveDown
    /\ UNCHANGED <<enabled, owners, writer, borrow_count, mut_borrow_count, contention_count,
                   saturated, reports, history>>

DropWriter ==
    /\ writer # NoOwner
    /\ writer' = NoOwner
    /\ active_borrows' = ActiveDown
    /\ UNCHANGED <<enabled, owners, readers, borrow_count, mut_borrow_count, contention_count,
                   saturated, reports, history>>

Hot == borrow_count > Threshold \/ mut_borrow_count > Threshold

\* Rc::strong_count of the counters: each clone and each guard holds one.
CounterHolders ==
    Cardinality(owners) + Cardinality(readers) + (IF writer = NoOwner THEN 0 ELSE 1)

\* Variant: the clone being dropped is counted as already gone.
LastHolderButOne == CounterHolders <= 2

LastHolder == CounterHolders <= 1

\* A guard borrows its clone, so the clone cannot go before the guard.
DropOwner(o) ==
    /\ o \in owners
    /\ writer # o /\ \A g \in Guards : <<g, o>> \notin readers
    /\ owners' = owners \ {o}
    /\ reports' = IF enabled /\ LastHolder /\ (Hot \/ contention_count > 0)
                    THEN reports + 1 ELSE reports
    /\ UNCHANGED <<enabled, readers, writer, counters, history>>

Next ==
    \/ \E o \in Owners : \/ CloneOwner(o)
                         \/ \E g \in Guards : Borrow(o, g)
                         \/ BorrowPanics(o)
                         \/ BorrowMut(o)
                         \/ BorrowMutPanics(o)
                         \/ DropOwner(o)
    \/ \E r \in readers : DropReader(r)
    \/ DropWriter

Spec == Init /\ [][Next]_vars

-----------------------------------------------------------------------------

TypeOK ==
    /\ enabled \in BOOLEAN /\ saturated \in BOOLEAN /\ capped \in BOOLEAN
    /\ owners \subseteq Owners
    /\ readers \subseteq Guards \X Owners
    /\ writer \in Owners \cup {NoOwner}
    /\ borrow_count \in 0 .. MaxCount /\ mut_borrow_count \in 0 .. MaxCount
    /\ contention_count \in 0 .. MaxCount
    /\ active_borrows \in 0 .. MaxActive
    /\ reports \in Nat
    /\ calls \in Nat /\ borrowed \in Nat /\ written \in Nat /\ conflicts \in Nat

Live == Cardinality(readers) + (IF writer = NoOwner THEN 0 ELSE 1)

\* No live guard is missing from active_borrows.
ActiveCovers == ~capped => active_borrows >= Live

\* Every borrow_mut that ran into a live guard shows up in the report's
\* contention_count, up to the counter's maximum.
ContentionSeen == ~capped => contention_count >= conflicts \/ contention_count = MaxCount

\* The saturated note of the report separates exact counts from lower bounds.
CountsHonest ==
    /\ ~saturated => borrow_count = borrowed /\ mut_borrow_count = written
    /\ borrow_count <= borrowed /\ mut_borrow_count <= written

\* When the last clone is gone a hot or contended owner was reported, once.
ReportedOnce ==
    /\ owners # {} => reports = 0
    /\ owners = {} => reports = (IF enabled /\ (Hot \/ contention_count > 0) THEN 1 ELSE 0)

\* "Contention: borrow_mut attempted while >= 1 immutable borrow is live", and
\* nothing else: the count never exceeds the attempts that met a live guard.
ContentionReal == contention_count <= conflicts
=============================================================================
