-------------------------- MODULE WatchTraceProofs --------------------------
(***************************************************************************)
(* Proofs about the import of watcher traces, for traces of any length     *)
(* about any children and windows: every start of an accepted trace is     *)
(* answered once, exclusive children overlap only through a misdirected    *)
(* replacement, and the grade is what the trace shows.                     *)
(***************************************************************************)
EXTENDS WatchTrace, TLAPS

\* What holds of every event that has been read still holds of it.
LEMMA ReadExtends ==
  ASSUME TypeOK, NEW e, Read(e)
  PROVE  /\ e \in Event
         /\ trace' \in Seq(Event)
         /\ Now \in Nat /\ Now \notin Places
         /\ Places = 1 .. Now - 1
         /\ Places' = Places \cup {Now}
         /\ \A i \in Places : i \in Nat /\ i < Now /\ trace'[i] = trace[i]
         /\ trace'[Now] = e
         /\ source' \in Traces
<1>1. e \in Event /\ source' \in Traces
  BY TracesAssumption DEF Read, TypeOK
<1>2. trace \in Seq(Event) /\ trace' = Append(trace, e)
  BY DEF Read, TypeOK
<1>3. /\ Len(trace) \in Nat
      /\ DOMAIN trace = 1 .. Len(trace)
      /\ DOMAIN trace' = 1 .. Len(trace) + 1
      /\ trace' \in Seq(Event)
      /\ trace'[Len(trace) + 1] = e
      /\ \A i \in 1 .. Len(trace) : trace'[i] = trace[i]
  BY <1>1, <1>2
<1> QED BY <1>1, <1>3 DEF Now, Places

-----------------------------------------------------------------------------
\* Types.

WindowStates ==
  [Windows -> [opened : BOOLEAN, fired : BOOLEAN, resolved : BOOLEAN, modeled : BOOLEAN]]

\* Every step keeps the types.
LEMMA TypeStep ==
  ASSUME TypeOK, [Next]_vars
  PROVE  TypeOK'
<1>1. ASSUME NEW e, Read(e),
             windows' \in WindowStates,
             active' \subseteq [child : Children, policy : Policies, started : Places'],
             lifecycle' \subseteq [child : Children, started : Places', at : Places'],
             status' \in {"reading", "rejected"}
      PROVE  TypeOK'
  BY <1>1, ReadExtends DEF Read, TypeOK, WindowStates
<1>2. ASSUME NEW e, Read(e)
      PROVE  /\ windows \in WindowStates
             /\ status \in {"reading", "rejected"}
             /\ active \subseteq [child : Children, policy : Policies, started : Places']
             /\ lifecycle \subseteq [child : Children, started : Places', at : Places']
             /\ Now \in Places'
  <2>1. Places \subseteq Places' /\ Now \in Places'
    BY <1>2, ReadExtends
  <2>2. windows \in WindowStates /\ status = "reading"
    BY <1>2 DEF TypeOK, WindowStates, Read
  <2> QED BY <2>1, <2>2 DEF TypeOK
<1>3. ASSUME NEW e, Read(e), NEW S \in SUBSET active
      PROVE  Ended(S) \subseteq [child : Children, started : Places', at : Places']
  BY <1>2, <1>3 DEF Ended
<1>4. ASSUME NEW e, Read(e), e.kind = "start"
      PROVE  Started(e) \in [child : Children, policy : Policies, started : Places']
  BY <1>2, <1>4, ReadExtends DEF Started, Event
<1>5. ASSUME NEW e \in source.events, WatcherEvent(e) PROVE TypeOK'
  <2>1. e.window \in Windows /\ e.modeled \in BOOLEAN
    BY <1>5, ReadExtends DEF WatcherEvent, Event
  <2>2. Read(e) /\ UNCHANGED <<active, lifecycle, status>>
    BY <1>5 DEF WatcherEvent
  <2>3. windows' \in WindowStates
    <3> DEFINE told == [windows[e.window] EXCEPT !.opened = TRUE,
                                                 !.modeled = @ /\ e.modeled]
    <3>1. windows \in WindowStates
      BY <1>2, <2>2
    <3>2. windows' = [windows EXCEPT ![e.window] = told]
      BY <1>5 DEF WatcherEvent
    <3>3. windows[e.window] \in [opened : BOOLEAN, fired : BOOLEAN,
                                resolved : BOOLEAN, modeled : BOOLEAN]
      BY <2>1, <3>1 DEF WindowStates
    <3>4. told \in [opened : BOOLEAN, fired : BOOLEAN,
                    resolved : BOOLEAN, modeled : BOOLEAN]
      BY <2>1, <3>3
    <3> HIDE DEF told
    <3> QED BY <2>1, <3>1, <3>2, <3>4 DEF WindowStates
  <2> QED BY <1>1, <1>2, <2>2, <2>3
<1>6. ASSUME NEW e \in source.events, TimerFired(e) PROVE TypeOK'
  <2>1. e.window \in Windows /\ e.modeled \in BOOLEAN
    BY <1>6, ReadExtends DEF TimerFired, Event
  <2>2. Read(e) /\ UNCHANGED <<active, lifecycle, status>>
    BY <1>6 DEF TimerFired
  <2>3. windows' \in WindowStates
    <3> DEFINE told == [windows[e.window] EXCEPT !.opened = TRUE, !.fired = TRUE,
                                                 !.modeled = @ /\ e.modeled]
    <3>1. windows \in WindowStates
      BY <1>2, <2>2
    <3>2. windows' = [windows EXCEPT ![e.window] = told]
      BY <1>6 DEF TimerFired
    <3>3. windows[e.window] \in [opened : BOOLEAN, fired : BOOLEAN,
                                resolved : BOOLEAN, modeled : BOOLEAN]
      BY <2>1, <3>1 DEF WindowStates
    <3>4. told \in [opened : BOOLEAN, fired : BOOLEAN,
                    resolved : BOOLEAN, modeled : BOOLEAN]
      BY <2>1, <3>3
    <3> HIDE DEF told
    <3> QED BY <2>1, <3>1, <3>2, <3>4 DEF WindowStates
  <2> QED BY <1>1, <1>2, <2>2, <2>3
<1>7. ASSUME NEW e \in source.events, ChildStart(e) PROVE TypeOK'
  <2>1. Running(e.previous) \in SUBSET active
    BY DEF Running
  <2>2. Ended(Running(e.previous)) \subseteq [child : Children, started : Places', at : Places']
    BY <1>3, <1>7, <2>1 DEF ChildStart
  <2>3. Read(e) /\ e.kind = "start" /\ UNCHANGED <<windows, status>>
    BY <1>7 DEF ChildStart
  <2>4. active' \subseteq active \cup {Started(e)}
    BY <1>7 DEF ChildStart, StartInstead
  <2>5. lifecycle' \subseteq lifecycle \cup Ended(Running(e.previous))
    BY <1>7 DEF ChildStart, StartInstead
  <2>6. active' \subseteq [child : Children, policy : Policies, started : Places']
    BY <1>2, <1>4, <2>3, <2>4
  <2>7. lifecycle' \subseteq [child : Children, started : Places', at : Places']
    BY <1>2, <2>2, <2>3, <2>5
  <2> QED BY <1>1, <1>2, <2>3, <2>6, <2>7
<1>8. ASSUME NEW e \in source.events, ChildResolution(e) PROVE TypeOK'
  <2>1. Running(e.child) \in SUBSET active
    BY DEF Running
  <2>2. Ended(Running(e.child)) \subseteq [child : Children, started : Places', at : Places']
    BY <1>3, <1>8, <2>1 DEF ChildResolution
  <2>3. Read(e) /\ UNCHANGED <<windows, status>>
    BY <1>8 DEF ChildResolution
  <2>4. active' \subseteq active /\ lifecycle' = lifecycle \cup Ended(Running(e.child))
    BY <1>8 DEF ChildResolution
  <2>5. active' \subseteq [child : Children, policy : Policies, started : Places']
    BY <1>2, <2>3, <2>4
  <2> QED BY <1>1, <1>2, <2>2, <2>3, <2>4, <2>5
<1>9. ASSUME NEW e \in source.events, Shutdown(e) PROVE TypeOK'
  <2>1. ResolvedBy(e) \in SUBSET active
    BY DEF ResolvedBy
  <2>2. Ended(ResolvedBy(e)) \subseteq [child : Children, started : Places', at : Places']
    BY <1>3, <1>9, <2>1 DEF Shutdown
  <2>3. windows' \in WindowStates
    BY <1>9 DEF Shutdown, TypeOK, WindowStates
  <2>4. Read(e) /\ UNCHANGED status
    BY <1>9 DEF Shutdown
  <2>5. active' \subseteq active /\ lifecycle' = lifecycle \cup Ended(ResolvedBy(e))
    BY <1>9 DEF Shutdown
  <2>6. active' \subseteq [child : Children, policy : Policies, started : Places']
    BY <1>2, <2>4, <2>5
  <2> QED BY <1>1, <1>2, <2>2, <2>3, <2>4, <2>5, <2>6
<1>10. ASSUME NEW e \in source.events, Refuse(e) PROVE TypeOK'
  BY <1>1, <1>2, <1>10 DEF Refuse, TypeOK
<1>11. CASE Finish
  BY <1>11 DEF Finish, GradeOfWindows, TypeOK, Places
<1>12. CASE UNCHANGED vars
  BY <1>12 DEF vars, TypeOK, Places
<1> QED BY <1>5, <1>6, <1>7, <1>8, <1>9, <1>10, <1>11, <1>12 DEF Next

\* The types hold at the start.
LEMMA TypeInit == Init => TypeOK
<1> SUFFICES ASSUME Init PROVE TypeOK
  OBVIOUS
<1>1. trace = << >> /\ trace \in Seq(Event)
  BY DEF Init
<1> QED BY <1>1 DEF Init, TypeOK, NewWindow

\* The state has the types it should, for any constants.
THEOREM TraceTypeCorrect == Spec => []TypeOK
  BY TypeInit, TypeStep, PTL DEF Spec

-----------------------------------------------------------------------------
(***************************************************************************)
(* Children.  An active child is the last start of its id; each start that *)
(* was read is either active or resolved.                                  *)
(***************************************************************************)
NoStartBetween(c, i, k) == \A j \in Places : i < j /\ j < k /\ StartAt(j) => trace[j].child # c

ActiveIsStart ==
  \A a \in active :
    /\ StartAt(a.started)
    /\ trace[a.started].child = a.child
    /\ trace[a.started].policy = a.policy
    /\ NoStartBetween(a.child, a.started, Now)

ResolvedWasStart ==
  \A e \in lifecycle :
    /\ StartAt(e.started)
    /\ trace[e.started].child = e.child
    /\ e.started < e.at
    /\ NoStartBetween(e.child, e.started, e.at)

StartIsKept ==
  \A i \in Places : StartAt(i) =>
    \/ \E a \in active : a.started = i
    \/ \E e \in lifecycle : e.started = i

ResolvedOnce ==
  /\ \A e, f \in lifecycle : e.started = f.started => e = f
  /\ \A a \in active, e \in lifecycle : a.started # e.started

OneOfEach == \A a, b \in active : a.child = b.child => a = b

ChildInv ==
  status # "rejected" =>
    ActiveIsStart /\ ResolvedWasStart /\ StartIsKept /\ ResolvedOnce /\ OneOfEach

\* The effect of reading an event that ends the children of a set S of active
\* ones and starts those of a set T of at most one, which is no active one.
Reads(S, T) ==
  /\ S \subseteq active
  /\ active' = (active \ S) \cup T
  /\ lifecycle' = lifecycle \cup Ended(S)

\* An event that resolves some children and starts at most one new one keeps each start accounted for.
LEMMA ChildStep ==
  ASSUME TypeOK, ChildInv, NEW e, Read(e),
         NEW S, NEW T, Reads(S, T),
         \/ e.kind # "start" /\ T = {}
         \/ /\ e.kind = "start" /\ T = {Started(e)}
            /\ \A a \in active \ S : a.child # e.child
  PROVE  ActiveIsStart' /\ ResolvedWasStart' /\ StartIsKept' /\ ResolvedOnce' /\ OneOfEach'
<1> DEFINE N == Now
<1>0. PICK n \in Nat : n = Now
  BY ReadExtends
<1>1. /\ Places = 1 .. n - 1 /\ n \notin Places /\ Places' = Places \cup {n}
      /\ \A i \in Places : i \in Nat /\ i < n /\ trace'[i] = trace[i]
      /\ trace'[n] = e
  BY <1>0, ReadExtends
<1>2. ActiveIsStart /\ ResolvedWasStart /\ StartIsKept /\ ResolvedOnce /\ OneOfEach
  BY DEF ChildInv, Read
<1>3. /\ \A a \in active : a.started \in Places
      /\ \A f \in lifecycle : f.started \in Places /\ f.at \in Places
  BY DEF TypeOK
<1>4. Now' = n + 1
  BY <1>0, ReadExtends DEF Now, Read, TypeOK
<1>5. Ended(S) = {[child |-> a.child, started |-> a.started, at |-> n] : a \in S}
  BY <1>0 DEF Ended
<1>6. \A i \in Places : StartAt(i)' <=> StartAt(i)
  BY <1>1 DEF StartAt
<1>7. StartAt(n)' <=> e.kind = "start"
  BY <1>1 DEF StartAt
<1>8. \A a \in T : /\ e.kind = "start"
                   /\ a.child = e.child /\ a.policy = e.policy /\ a.started = n
  BY <1>0 DEF Started
<1>9. \A c, i : \A k \in 1 .. n :
        NoStartBetween(c, i, k) => \A j \in Places' : i < j /\ j < k /\ StartAt(j)'
                                                     => trace'[j].child # c
  BY <1>1, <1>6 DEF NoStartBetween
<1>10. ActiveIsStart'
  <2> SUFFICES ASSUME NEW a \in active'
               PROVE  /\ StartAt(a.started)'
                      /\ trace'[a.started].child = a.child
                      /\ trace'[a.started].policy = a.policy
                      /\ \A j \in Places' : a.started < j /\ j < n + 1 /\ StartAt(j)'
                                             => trace'[j].child # a.child
    BY <1>4 DEF ActiveIsStart, NoStartBetween
  <2>1. CASE a \in T
    BY <1>1, <1>7, <1>8, <2>1
  <2>2. CASE a \in active \ S
    <3>1. /\ a.started \in Places /\ StartAt(a.started)
          /\ trace[a.started].child = a.child /\ trace[a.started].policy = a.policy
          /\ NoStartBetween(a.child, a.started, n)
      BY <1>0, <1>2, <1>3, <2>2 DEF ActiveIsStart
    <3>2. e.kind = "start" => a.child # e.child
      BY <2>2
    <3>3. ASSUME NEW j \in Places', a.started < j, j < n + 1, StartAt(j)'
          PROVE  trace'[j].child # a.child
      <4>1. CASE j \in Places
        BY <1>1, <1>6, <3>1, <3>3, <4>1 DEF NoStartBetween
      <4>2. CASE j = n
        BY <1>1, <1>7, <3>2, <3>3, <4>2
      <4> QED BY <1>1, <4>1, <4>2
    <3> QED BY <1>1, <1>6, <3>1, <3>3
  <2> QED BY <2>1, <2>2 DEF Reads
<1>11. ResolvedWasStart'
  <2> SUFFICES ASSUME NEW f \in lifecycle'
               PROVE  /\ StartAt(f.started)'
                      /\ trace'[f.started].child = f.child
                      /\ f.started < f.at
                      /\ \A j \in Places' : f.started < j /\ j < f.at /\ StartAt(j)'
                                             => trace'[j].child # f.child
    BY DEF ResolvedWasStart, NoStartBetween
  <2>1. CASE f \in lifecycle
    <3>1. /\ f.started \in Places /\ f.at \in 1 .. n
          /\ StartAt(f.started) /\ trace[f.started].child = f.child
          /\ f.started < f.at /\ NoStartBetween(f.child, f.started, f.at)
      BY <1>1, <1>2, <1>3, <2>1 DEF ResolvedWasStart
    <3> QED BY <1>1, <1>6, <1>9, <3>1
  <2>2. CASE f \in Ended(S)
    <3>1. PICK a \in S : f.child = a.child /\ f.started = a.started /\ f.at = n
      BY <1>5, <2>2
    <3>2. /\ a.started \in Places /\ StartAt(a.started)
          /\ trace[a.started].child = a.child
          /\ NoStartBetween(a.child, a.started, n)
      BY <1>0, <1>2, <1>3 DEF ActiveIsStart, Reads
    <3>3. n \in 1 .. n
      BY <1>1, <3>2
    <3> QED BY <1>1, <1>6, <1>9, <3>1, <3>2, <3>3
  <2> QED BY <2>1, <2>2 DEF Reads
<1>12. StartIsKept'
  <2> SUFFICES ASSUME NEW i \in Places', StartAt(i)'
               PROVE  \/ \E a \in active' : a.started = i
                      \/ \E f \in lifecycle' : f.started = i
    BY DEF StartIsKept
  <2>1. CASE i = n
    <3>1. e.kind = "start"
      BY <1>7, <2>1
    <3>2. Started(e) \in active' /\ Started(e).started = n
      BY <1>0, <3>1 DEF Started, Reads
    <3> QED BY <2>1, <3>2
  <2>2. CASE i \in Places
    <3>1. \/ \E a \in active : a.started = i
          \/ \E f \in lifecycle : f.started = i
      BY <1>2, <1>6, <2>2 DEF StartIsKept
    <3>2. ASSUME NEW a \in S, a.started = i PROVE \E f \in lifecycle' : f.started = i
      <4>1. [child |-> a.child, started |-> a.started, at |-> n] \in lifecycle'
        BY <1>5, <3>2 DEF Reads
      <4> QED BY <3>2, <4>1
    <3> QED BY <3>1, <3>2 DEF Reads
  <2> QED BY <1>1, <2>1, <2>2
<1>13. ResolvedOnce'
  <2>1. ASSUME NEW a \in S, NEW b \in S, a.started = b.started PROVE a = b
    BY <1>2, <2>1 DEF ActiveIsStart, OneOfEach, Reads
  <2>2. ASSUME NEW f \in lifecycle', NEW g \in lifecycle', f.started = g.started PROVE f = g
    <3>1. CASE f \in lifecycle /\ g \in lifecycle
      BY <1>2, <2>2, <3>1 DEF ResolvedOnce
    <3>2. CASE f \in Ended(S) /\ g \in Ended(S)
      BY <1>5, <2>1, <2>2, <3>2
    <3>3. \A h \in Ended(S), k \in lifecycle : h.started # k.started
      BY <1>2, <1>5 DEF ResolvedOnce, Reads
    <3> QED BY <2>2, <3>1, <3>2, <3>3 DEF Reads
  <2>3. ASSUME NEW a \in active', NEW f \in lifecycle' PROVE a.started # f.started
    <3>1. f.started \in Places
      BY <1>3, <1>5 DEF Reads
    <3>2. CASE a \in T
      BY <1>1, <1>8, <3>1, <3>2
    <3>3. CASE a \in active \ S /\ f \in lifecycle
      BY <1>2, <3>3 DEF ResolvedOnce
    <3>4. CASE a \in active \ S /\ f \in Ended(S)
      <4>1. PICK b \in S : f.started = b.started
        BY <1>5, <3>4
      <4>2. a # b /\ a \in active /\ b \in active
        BY <3>4 DEF Reads
      <4> QED BY <1>2, <4>1, <4>2 DEF ActiveIsStart, OneOfEach
    <3> QED BY <3>2, <3>3, <3>4 DEF Reads
  <2> QED BY <2>2, <2>3 DEF ResolvedOnce
<1>14. OneOfEach'
  BY <1>2, <1>8 DEF OneOfEach, Reads, Started
<1> QED BY <1>10, <1>11, <1>12, <1>13, <1>14

-----------------------------------------------------------------------------
\* Which children each event ends and starts.

\* The children that a start ends.
Replaced(e) == IF Replaces(e) THEN Running(e.previous) ELSE {}

\* A start is such an event.
LEMMA StartReads ==
  ASSUME TypeOK, ChildInv, NEW e, ChildStart(e)
  PROVE  /\ Read(e) /\ e.kind = "start"
         /\ Reads(Replaced(e), {Started(e)})
         /\ \A a \in active \ Replaced(e) : a.child # e.child
         /\ Replaces(e) => Replaced(e) # {}
<1>1. Read(e) /\ e.kind = "start" /\ ~RefusedStart(e)
  BY DEF ChildStart
<1>2. CASE Replaces(e)
  <2>1. StartInstead(e) /\ Running(e.previous) # {}
    BY <1>1, <1>2 DEF ChildStart, RefusedStart, RefusedReplacement
  <2>2. Reads(Replaced(e), {Started(e)})
    BY <1>2, <2>1 DEF StartInstead, Reads, Running, Replaced
  <2>3. \A a \in active \ Replaced(e) : a.child # e.child
    BY <1>1, <1>2 DEF RefusedStart, Running, Replaced
  <2> QED BY <1>1, <1>2, <2>1, <2>2, <2>3 DEF Replaced
<1>3. CASE ~Replaces(e)
  <2>1. active' = active \cup {Started(e)} /\ lifecycle' = lifecycle
    BY <1>3 DEF ChildStart
  <2>2. Reads(Replaced(e), {Started(e)})
    BY <1>3, <2>1 DEF Reads, Ended, Replaced
  <2>3. \A a \in active : a.child # e.child
    BY <1>1, <1>3 DEF RefusedStart, Running
  <2> QED BY <1>1, <1>3, <2>2, <2>3
<1> QED BY <1>2, <1>3

\* The other events start no child; one that is refused ends none.
LEMMA OtherReads ==
  ASSUME NEW e,
         WatcherEvent(e) \/ TimerFired(e) \/ ChildResolution(e) \/ Shutdown(e)
  PROVE  /\ Read(e) /\ e.kind # "start"
         /\ \E S : Reads(S, {})
<1>1. CASE WatcherEvent(e) \/ TimerFired(e)
  <2>1. Reads({}, {})
    BY <1>1 DEF WatcherEvent, TimerFired, Reads, Ended
  <2> QED BY <1>1, <2>1 DEF WatcherEvent, TimerFired
<1>2. CASE ChildResolution(e)
  <2>1. Reads(Running(e.child), {})
    BY <1>2 DEF ChildResolution, Reads, Running
  <2> QED BY <1>2, <2>1 DEF ChildResolution
<1>3. CASE Shutdown(e)
  <2>1. Reads(ResolvedBy(e), {})
    BY <1>3 DEF Shutdown, Reads, ResolvedBy
  <2> QED BY <1>3, <2>1 DEF Shutdown
<1> QED BY <1>1, <1>2, <1>3

\* Every step keeps each start accounted for.
LEMMA ChildInvInductive ==
  ASSUME TypeOK, ChildInv, [Next]_vars
  PROVE  ChildInv'
<1>1. ASSUME NEW e \in source.events, ChildStart(e) PROVE ChildInv'
  <2>1. PICK S : S = Replaced(e)
    OBVIOUS
  <2>2. PICK T : T = {Started(e)}
    OBVIOUS
  <2>3. /\ Read(e) /\ e.kind = "start" /\ Reads(S, T)
        /\ \A a \in active \ S : a.child # e.child
    BY <1>1, <2>1, <2>2, StartReads
  <2> QED BY <2>2, <2>3, ChildStep DEF ChildInv
<1>2. ASSUME NEW e \in source.events,
             WatcherEvent(e) \/ TimerFired(e) \/ ChildResolution(e) \/ Shutdown(e)
      PROVE  ChildInv'
  BY <1>2, OtherReads, ChildStep DEF ChildInv
<1>3. ASSUME NEW e \in source.events, Refuse(e) PROVE ChildInv'
  BY <1>3 DEF Refuse, ChildInv
<1>4. CASE Finish \/ UNCHANGED vars
  <2>1. UNCHANGED <<trace, active, lifecycle>> /\ (status' # "rejected" => status # "rejected")
    BY <1>4 DEF Finish, vars
  <2> QED BY <2>1 DEF ChildInv, ActiveIsStart, ResolvedWasStart, StartIsKept, ResolvedOnce,
                      OneOfEach, StartAt, NoStartBetween, Places, Now
<1> QED BY <1>1, <1>2, <1>3, <1>4 DEF Next

\* No start is unaccounted for at the beginning.
LEMMA ChildInvInit == Init => ChildInv
<1> SUFFICES ASSUME Init PROVE ChildInv
  OBVIOUS
<1>1. Places = {} /\ active = {} /\ lifecycle = {}
  BY DEF Init, Places
<1> QED BY <1>1 DEF ChildInv, ActiveIsStart, ResolvedWasStart, StartIsKept, ResolvedOnce,
                    OneOfEach

\* An accepted trace leaves no child active.
NoneActive == status = "accepted" => active = {}

\* When no child is active every start has been answered.
LEMMA AnsweredByInv ==
  ASSUME TypeOK, ChildInv, NoneActive
  PROVE  StartsAnswered
<1> SUFFICES ASSUME status = "accepted", NEW i \in Places, StartAt(i)
             PROVE  /\ \E e \in lifecycle : AnsweredAt(i, e)
                    /\ \A e, f \in lifecycle : e.started = i /\ f.started = i => e = f
  BY DEF StartsAnswered
<1>1. ResolvedWasStart /\ StartIsKept /\ ResolvedOnce /\ active = {}
  BY DEF ChildInv, NoneActive
<1>2. PICK e \in lifecycle : e.started = i
  BY <1>1 DEF StartIsKept
<1>3. e.at \in Places /\ Places \subseteq Nat /\ i \in Nat
  BY DEF TypeOK, Places
<1>4. /\ trace[i].child = e.child /\ i < e.at
      /\ NoStartBetween(e.child, i, e.at)
  BY <1>1, <1>2 DEF ResolvedWasStart
<1>5. \A j \in i + 1 .. e.at - 1 : j \in Places /\ i < j /\ j < e.at
  BY <1>3 DEF TypeOK, Places
<1>6. AnsweredAt(i, e)
  BY <1>2, <1>4, <1>5 DEF AnsweredAt, NoStartBetween
<1> QED BY <1>1, <1>6 DEF ResolvedOnce

\* Every start of an accepted trace has exactly one answer: StartsAnswered, for
\* traces of any length.
THEOREM EveryStartIsAnswered == Spec => []StartsAnswered
<1>1. Init => NoneActive
  BY DEF Init, NoneActive
<1>2. NoneActive /\ [Next]_vars => NoneActive'
  BY DEF NoneActive, Next, Read, WatcherEvent, TimerFired, ChildStart, ChildResolution,
         Shutdown, Refuse, Finish, vars
<1>3. TypeOK /\ ChildInv /\ NoneActive => StartsAnswered
  BY AnsweredByInv
<1>4. TypeOK /\ ChildInv /\ [Next]_vars => TypeOK' /\ ChildInv'
  BY TypeStep, ChildInvInductive
<1> QED BY <1>1, <1>2, <1>3, <1>4, TypeInit, ChildInvInit, PTL DEF Spec

-----------------------------------------------------------------------------
(***************************************************************************)
(* Exclusive children.  A replacement ends some active child; when it was  *)
(* exclusive itself it was the only one.                                   *)
(***************************************************************************)
LEMMA OverlapStart ==
  ASSUME TypeOK, ChildInv, OverlapIsMisdirected, NEW e \in source.events, ChildStart(e)
  PROVE  OverlapIsMisdirected'
<1>0. PICK n \in Nat : n = Now
  BY ReadExtends DEF ChildStart
<1>1. /\ n \notin Places /\ Places' = Places \cup {n} /\ trace'[n] = e
      /\ \A i \in Places : trace'[i] = trace[i]
      /\ e.kind = "start"
  BY <1>0, ReadExtends DEF ChildStart
<1> DEFINE S == Replaced(e)
<1>2. Reads(S, {Started(e)}) /\ (Replaces(e) => S # {})
  BY StartReads
<1>3. ActiveIsStart
  BY DEF ChildInv, ChildStart, Read
<1>4. \A f \in lifecycle : f.started \in Places /\ f.at \in Places
  BY DEF TypeOK
<1>5. \A f \in lifecycle : Misdirected(f)' <=> Misdirected(f)
  BY <1>1, <1>4 DEF Misdirected, StartAt
<1> SUFFICES ASSUME \A f \in lifecycle' : ~Misdirected(f)',
                    NEW a \in Exclusive', NEW b \in Exclusive'
             PROVE  a = b
  BY DEF OverlapIsMisdirected
<1>6. \A x, y \in Exclusive : x = y
  BY <1>2, <1>5 DEF OverlapIsMisdirected, Reads
<1>7. CASE ~Replaces(e)
  <2>1. S = {} /\ active' = active \cup {Started(e)}
    BY <1>2, <1>7 DEF Reads, Replaced
  <2>2. CASE e.policy # "exclusive"
    BY <1>6, <2>1, <2>2 DEF Exclusive, Started
  <2>3. CASE Exclusive = {}
    BY <2>1, <2>3 DEF Exclusive
  <2> QED BY <1>7, <2>2, <2>3 DEF Replaces
<1>8. CASE Replaces(e)
  <2>1. PICK r \in S : TRUE
    BY <1>2, <1>8
  <2>2. r \in active /\ r.child = e.previous
    BY <1>2, <1>8, <2>1 DEF Reads, Running, Replaced
  <2>3. [child |-> r.child, started |-> r.started, at |-> n] \in lifecycle'
    BY <1>0, <1>2 DEF Reads, Ended
  <2>4. r.started \in Places /\ trace[r.started].policy = r.policy
    BY <1>3, <2>2 DEF ActiveIsStart, TypeOK
  <2>5. r.policy # "concurrent"
    BY <1>1, <2>3, <2>4 DEF Misdirected, StartAt
  <2>6. r \in Exclusive
    BY <2>2, <2>5 DEF Exclusive, TypeOK, Policies
  <2>7. \A x \in Exclusive : x \in S
    BY <1>6, <2>6
  <2>8. \A x \in Exclusive' : x = Started(e)
    BY <1>2, <2>7 DEF Exclusive, Reads
  <2> QED BY <2>8
<1> QED BY <1>7, <1>8

\* An event that starts no child makes no overlap.
LEMMA OverlapOther ==
  ASSUME TypeOK, OverlapIsMisdirected,
         active' \subseteq active, lifecycle \subseteq lifecycle',
         \A i \in Places : trace'[i] = trace[i]
  PROVE  OverlapIsMisdirected'
<1>1. \A f \in lifecycle : Misdirected(f)' <=> Misdirected(f)
  BY DEF Misdirected, StartAt, TypeOK
<1> QED BY <1>1 DEF OverlapIsMisdirected, Exclusive

\* An exclusive start overlaps only if it was misdirected.
LEMMA OverlapInductive ==
  ASSUME TypeOK, ChildInv, OverlapIsMisdirected, [Next]_vars
  PROVE  OverlapIsMisdirected'
<1>1. ASSUME NEW e \in source.events, ChildStart(e) PROVE OverlapIsMisdirected'
  BY <1>1, OverlapStart
<1>2. ASSUME NEW e \in source.events,
             WatcherEvent(e) \/ TimerFired(e) \/ ChildResolution(e) \/ Shutdown(e)
      PROVE  OverlapIsMisdirected'
  <2>1. PICK S : Reads(S, {})
    BY <1>2, OtherReads
  <2>2. \A i \in Places : trace'[i] = trace[i]
    BY <1>2, OtherReads, ReadExtends
  <2> QED BY <2>1, <2>2, OverlapOther DEF Reads
<1>3. ASSUME NEW e \in source.events, Refuse(e) PROVE OverlapIsMisdirected'
  BY <1>3, ReadExtends, OverlapOther DEF Refuse
<1>4. CASE Finish \/ UNCHANGED vars
  BY <1>4, OverlapOther DEF Finish, vars
<1> QED BY <1>1, <1>2, <1>3, <1>4 DEF Next

\* Without a misdirected replacement at most one exclusive child runs:
\* OverlapIsMisdirected, for any number of children.
THEOREM ExclusiveUnlessMisdirected == Spec => []OverlapIsMisdirected
<1>1. Init => OverlapIsMisdirected
  BY DEF Init, OverlapIsMisdirected, Exclusive
<1>2. TypeOK /\ ChildInv /\ OverlapIsMisdirected /\ [Next]_vars
        => TypeOK' /\ ChildInv' /\ OverlapIsMisdirected'
  BY TypeStep, ChildInvInductive, OverlapInductive
<1> QED BY <1>1, <1>2, TypeInit, ChildInvInit, PTL DEF Spec

-----------------------------------------------------------------------------
(***************************************************************************)
(* The grade.  The flags of a window are the history of its events.        *)
(***************************************************************************)
HasChange(w) == \E i \in Places : trace[i].kind = "watcher" /\ trace[i].window = w

AllModeled(w) ==
  \A i \in Places :
    trace[i].kind \in {"watcher", "timer"} /\ trace[i].window = w => trace[i].modeled

FlagsOf(w) ==
  /\ HasChange(w) => windows[w].opened
  /\ Open(w) => HasChange(w)
  /\ windows[w].fired \/ windows[w].resolved <=> Closed(w)
  /\ windows[w].modeled <=> AllModeled(w)

Flags == status # "rejected" => \A w \in Windows : FlagsOf(w)

\* Whether the event that is read closes a window.
ClosesNow(e, w) ==
  \/ e.kind = "timer" /\ e.window = w
  \/ /\ e.kind = "shutdown" /\ e.timers
     /\ IF e.listed THEN w \in e.pending ELSE HasChange(w)

\* How an event changes what the trace shows of a window.
LEMMA HistoryStep ==
  ASSUME TypeOK, NEW e, Read(e), NEW w \in Windows
  PROVE  /\ HasChange(w)' <=> HasChange(w) \/ (e.kind = "watcher" /\ e.window = w)
         /\ Closed(w)' <=> Closed(w) \/ ClosesNow(e, w)
         /\ AllModeled(w)' <=>
              /\ AllModeled(w)
              /\ e.kind \in {"watcher", "timer"} /\ e.window = w => e.modeled
<1>0. PICK n \in Nat : n = Now
  BY ReadExtends
<1>1. /\ Places = 1 .. n - 1 /\ n \notin Places /\ Places' = Places \cup {n}
      /\ \A i \in Places : i \in Nat /\ i < n /\ trace'[i] = trace[i]
      /\ trace'[n] = e
  BY <1>0, ReadExtends
<1>2. HasChange(w)' <=> HasChange(w) \/ (e.kind = "watcher" /\ e.window = w)
  BY <1>1 DEF HasChange
<1>3. AllModeled(w)' <=>
        /\ AllModeled(w)
        /\ e.kind \in {"watcher", "timer"} /\ e.window = w => e.modeled
  BY <1>1 DEF AllModeled
<1> DEFINE At(j) == \/ trace[j].kind = "timer" /\ trace[j].window = w
                    \/ /\ trace[j].kind = "shutdown"
                       /\ trace[j].timers
                       /\ IF trace[j].listed THEN w \in trace[j].pending
                          ELSE \E i \in 1 .. j - 1 :
                                 trace[i].kind = "watcher" /\ trace[i].window = w
<1>4. Closed(w) <=> \E j \in Places : At(j)
  BY DEF Closed
<1>5. Closed(w)' <=> \E j \in Places' : At(j)'
  BY DEF Closed
<1>6. ASSUME NEW j \in Places PROVE At(j)' <=> At(j)
  <2>1. \A i \in 1 .. j - 1 : trace'[i] = trace[i]
    BY <1>1, <1>6
  <2> QED BY <1>1, <1>6, <2>1
<1>7. At(n)' <=> ClosesNow(e, w)
  <2>1. (\E i \in 1 .. n - 1 : trace'[i].kind = "watcher" /\ trace'[i].window = w)
          <=> HasChange(w)
    BY <1>1 DEF HasChange
  <2> QED BY <1>1, <2>1 DEF ClosesNow
<1> HIDE DEF At
<1>8. Closed(w)' <=> Closed(w) \/ ClosesNow(e, w)
  BY <1>1, <1>4, <1>5, <1>6, <1>7
<1> QED BY <1>2, <1>3, <1>8

\* The flags of a window keep telling what the trace shows of it.
LEMMA FlagsStep ==
  ASSUME TypeOK, Flags, [Next]_vars
  PROVE  Flags'
<1> SUFFICES ASSUME status' # "rejected", NEW w \in Windows PROVE FlagsOf(w)'
  BY DEF Flags
<1>1. ASSUME NEW e \in source.events, Read(e)
      PROVE  /\ FlagsOf(w)
             /\ windows[w] \in [opened : BOOLEAN, fired : BOOLEAN,
                                 resolved : BOOLEAN, modeled : BOOLEAN]
             /\ e \in Event /\ DOMAIN windows = Windows
  BY <1>1, ReadExtends DEF Flags, Read, TypeOK
<1>2. ASSUME NEW e \in source.events, WatcherEvent(e) PROVE FlagsOf(w)'
  <2>1. Read(e) /\ e.kind = "watcher" /\ ~ClosesNow(e, w)
    BY <1>2 DEF WatcherEvent, ClosesNow
  <2>2. CASE e.window = w
    <3>1. windows'[w] = [windows[w] EXCEPT !.opened = TRUE,
                                           !.modeled = windows[w].modeled /\ e.modeled]
      BY <1>1, <1>2, <2>1, <2>2 DEF WatcherEvent
    <3> QED BY <1>1, <2>1, <2>2, <3>1, HistoryStep DEF FlagsOf, Open
  <2>3. CASE e.window # w
    <3>1. windows'[w] = windows[w]
      BY <1>1, <1>2, <2>1, <2>3 DEF WatcherEvent
    <3> QED BY <1>1, <2>1, <2>3, <3>1, HistoryStep DEF FlagsOf, Open
  <2> QED BY <2>2, <2>3
<1>3. ASSUME NEW e \in source.events, TimerFired(e) PROVE FlagsOf(w)'
  <2>1. Read(e) /\ e.kind = "timer" /\ (ClosesNow(e, w) <=> e.window = w)
    BY <1>3 DEF TimerFired, ClosesNow
  <2>2. CASE e.window = w
    <3>1. windows'[w] = [windows[w] EXCEPT !.opened = TRUE, !.fired = TRUE,
                                           !.modeled = windows[w].modeled /\ e.modeled]
      BY <1>1, <1>3, <2>1, <2>2 DEF TimerFired
    <3> QED BY <1>1, <2>1, <2>2, <3>1, HistoryStep DEF FlagsOf, Open
  <2>3. CASE e.window # w
    <3>1. windows'[w] = windows[w]
      BY <1>1, <1>3, <2>1, <2>3 DEF TimerFired
    <3> QED BY <1>1, <2>1, <2>3, <3>1, HistoryStep DEF FlagsOf, Open
  <2> QED BY <2>2, <2>3
<1>4. ASSUME NEW e \in source.events, ChildStart(e) \/ ChildResolution(e)
      PROVE  FlagsOf(w)'
  <2>1. Read(e) /\ e.kind \in {"start", "resolution"} /\ windows' = windows
    BY <1>4 DEF ChildStart, ChildResolution
  <2>2. ~ClosesNow(e, w)
    BY <2>1 DEF ClosesNow
  <2> QED BY <1>1, <2>1, <2>2, HistoryStep DEF FlagsOf, Open
<1>5. ASSUME NEW e \in source.events, Shutdown(e) PROVE FlagsOf(w)'
  <2>1. Read(e) /\ e.kind = "shutdown"
    BY <1>5 DEF Shutdown
  <2>2. w \in Pending(e) <=> IF e.listed THEN w \in e.pending ELSE Open(w)
    BY DEF Pending, Open
  <2>3. ClosesNow(e, w) <=>
          e.timers /\ IF e.listed THEN w \in e.pending ELSE HasChange(w)
    BY <2>1 DEF ClosesNow
  <2>4. CASE e.timers /\ w \in Pending(e)
    <3>1. windows'[w] = [windows[w] EXCEPT !.opened = TRUE, !.resolved = TRUE]
      BY <1>1, <1>5, <2>1, <2>4 DEF Shutdown
    <3> QED BY <1>1, <2>1, <2>2, <2>3, <2>4, <3>1, HistoryStep DEF FlagsOf, Open
  <2>5. CASE ~(e.timers /\ w \in Pending(e))
    <3>1. windows'[w] = windows[w]
      BY <1>1, <1>5, <2>1, <2>5 DEF Shutdown
    <3> QED BY <1>1, <2>1, <2>2, <2>3, <2>5, <3>1, HistoryStep DEF FlagsOf, Open
  <2> QED BY <2>4, <2>5
<1>6. ASSUME NEW e \in source.events, Refuse(e) PROVE FALSE
  BY <1>6 DEF Refuse
<1>7. CASE Finish \/ UNCHANGED vars
  <2>1. UNCHANGED <<trace, windows>> /\ FlagsOf(w)
    BY <1>7 DEF Finish, vars, Flags
  <2> QED BY <2>1 DEF FlagsOf, HasChange, AllModeled, Closed, Open, Places
<1> QED BY <1>2, <1>3, <1>4, <1>5, <1>6, <1>7 DEF Next

\* An accepted trace keeps the grade of its windows.
Graded == status = "accepted" => grade = GradeOfWindows

\* A grade taken from the flags is the grade of the history.
LEMMA GradeByFlags ==
  ASSUME TypeOK, Flags, Graded
  PROVE  GradeIsHistory
<1> SUFFICES ASSUME status = "accepted" PROVE GradeIsHistory
  BY DEF GradeIsHistory
<1>1. \A w \in Windows : FlagsOf(w)
  BY DEF Flags
<1>2. \A i \in Places : trace[i] \in Event
  BY DEF TypeOK, Places
<1>3. \A i \in Places : trace[i].kind \in {"watcher", "timer"} => trace[i].window \in Windows
  BY <1>2 DEF Event
<1>4. \A w \in Windows : Open(w) <=> HasChange(w) /\ ~Closed(w)
  BY <1>1 DEF FlagsOf, Open
<1>5. (\E w \in Windows : Open(w)) <=>
        \E i \in Places : trace[i].kind = "watcher" /\ ~Closed(trace[i].window)
  BY <1>3, <1>4 DEF HasChange
<1>6. (\A w \in Windows : windows[w].modeled) <=>
        \A i \in Places : trace[i].kind \in {"watcher", "timer"} => trace[i].modeled
  BY <1>1, <1>3 DEF FlagsOf, AllModeled
<1>7. grade = GradeOfWindows
  BY DEF Graded
<1> QED BY <1>5, <1>6, <1>7 DEF GradeOfWindows, GradeIsHistory

\* The grade of an accepted trace is what its events show: GradeIsHistory, for
\* traces of any length about any windows.
THEOREM GradeTellsHistory == Spec => []GradeIsHistory
<1>1. Init => Flags /\ Graded
  <2> SUFFICES ASSUME Init PROVE Flags /\ Graded
    OBVIOUS
  <2>1. Places = {} /\ \A w \in Windows : windows[w] = NewWindow
    BY DEF Init, Places
  <2> QED BY <2>1 DEF Init, Flags, FlagsOf, Graded, HasChange, AllModeled, Closed, Open, NewWindow
<1>2. Graded /\ [Next]_vars => Graded'
  <2> SUFFICES ASSUME Graded, [Next]_vars, status' = "accepted"
               PROVE  grade' = GradeOfWindows'
    BY DEF Graded
  <2>1. \/ status = "accepted" /\ UNCHANGED <<windows, grade>>
        \/ grade' = GradeOfWindows /\ UNCHANGED windows
    BY DEF Graded, Next, Read, WatcherEvent, TimerFired, ChildStart, ChildResolution,
           Shutdown, Refuse, Finish, vars
  <2> QED BY <2>1 DEF Graded, GradeOfWindows, Open
<1>3. TypeOK /\ Flags /\ [Next]_vars => TypeOK' /\ Flags'
  BY TypeStep, FlagsStep
<1>4. TypeOK /\ Flags /\ Graded => GradeIsHistory
  BY GradeByFlags
<1> QED BY <1>1, <1>2, <1>3, <1>4, TypeInit, PTL DEF Spec
=============================================================================
