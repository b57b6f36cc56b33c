----------------------------- MODULE WatchTrace -----------------------------
(***************************************************************************)
(* The import of a recorded watcher trace (kobo watch --import-trace,      *)
(* watch/trace.rs): the events of the trace are read one by one into       *)
(* debounce windows and child processes; at the end the import is refused  *)
(* when a child was never resolved, and is graded otherwise.               *)
(*                                                                         *)
(* The trace is a file that another tool wrote: nothing is assumed of its  *)
(* events but their fields.  "trace" is the part that has been read.       *)
(***************************************************************************)
EXTENDS Naturals, Sequences, FiniteSets

CONSTANTS
  Children,   \* child ids
  Windows,    \* numbers of debounce windows
  Traces,     \* the kinds of traces: [events |-> a set of events, length |-> a bound]
  NoChild     \* a start that names no previous child

Policies == {"exclusive", "concurrent"}

\* Whether a resolution is one of the labels that the import knows.
Labels == {"known", "unknown"}

Event ==
       [kind : {"watcher", "timer"}, window : Windows, modeled : BOOLEAN]
  \cup [kind : {"start"}, child : Children, policy : Policies,
        previous : Children \cup {NoChild}, label : Labels]
  \cup [kind : {"resolution"}, child : Children]
  \cup [kind : {"shutdown"}, timers : BOOLEAN, children : BOOLEAN,
        listed : BOOLEAN, pending : SUBSET Windows, label : Labels]

ASSUME TracesAssumption ==
  /\ \A t \in Traces : t.events \subseteq Event /\ t.length \in Nat
  /\ NoChild \notin Children

VARIABLES
  source,     \* the kind of trace that is read
  trace,      \* the events read so far
  windows,    \* the debounce windows
  active,     \* the children that run: [child, policy, started]
  lifecycle,  \* the children that were resolved: [child, started, at]
  status,     \* "reading", "accepted" or "rejected"
  grade       \* the replay grade of an accepted trace

vars == <<source, trace, windows, active, lifecycle, status, grade>>

NewWindow == [opened |-> FALSE, fired |-> FALSE, resolved |-> FALSE, modeled |-> TRUE]

Init ==
  /\ source \in Traces
  /\ trace = << >>
  /\ windows = [w \in Windows |-> NewWindow]
  /\ active = {}
  /\ lifecycle = {}
  /\ status = "reading"
  /\ grade = "none"

-----------------------------------------------------------------------------
\* The place of the event that is read next.
Now == Len(trace) + 1

Read(e) ==
  /\ status = "reading"
  /\ Len(trace) < source.length
  /\ e \in source.events
  /\ trace' = Append(trace, e)
  /\ UNCHANGED <<source, grade>>

WatcherEvent(e) ==
  /\ Read(e)
  /\ e.kind = "watcher"
  /\ windows' = [windows EXCEPT ![e.window].opened = TRUE,
                                ![e.window].modeled = @ /\ e.modeled]
  /\ UNCHANGED <<active, lifecycle, status>>

\* Mutant: a timer that fires before the first event opens no window.
TimerOfOpen(e) ==
  /\ Read(e)
  /\ e.kind = "timer"
  /\ windows' = IF windows[e.window].opened
                  THEN [windows EXCEPT ![e.window].fired = TRUE,
                                       ![e.window].modeled = @ /\ e.modeled]
                  ELSE windows
  /\ UNCHANGED <<active, lifecycle, status>>

TimerFired(e) ==
  /\ Read(e)
  /\ e.kind = "timer"
  /\ windows' = [windows EXCEPT ![e.window].opened = TRUE,
                                ![e.window].fired = TRUE,
                                ![e.window].modeled = @ /\ e.modeled]
  /\ UNCHANGED <<active, lifecycle, status>>

-----------------------------------------------------------------------------
Running(c)  == {a \in active : a.child = c}
Exclusive   == {a \in active : a.policy = "exclusive"}

\* Mutant: the place of the start is off by one.
StartedNext(e) == [child |-> e.child, policy |-> e.policy, started |-> Now + 1]

Started(e)  == [child |-> e.child, policy |-> e.policy, started |-> Now]
Ended(S)    == {[child |-> a.child, started |-> a.started, at |-> Now] : a \in S}

\* Mutant: a start that names no previous child replaces none.
ReplacesNamed(e) == e.policy = "exclusive" /\ Exclusive # {} /\ e.previous # NoChild

Replaces(e) == e.policy = "exclusive" /\ Exclusive # {}

\* Mutant: the replaced child stays active.
StartBeside(e) ==
  /\ active' = active \cup {Started(e)}
  /\ lifecycle' = lifecycle \cup Ended(Running(e.previous))

\* An exclusive start beside an exclusive child resolves the child it names
\* as the previous one, whichever that is.
StartInstead(e) ==
  /\ active' = (active \ Running(e.previous)) \cup {Started(e)}
  /\ lifecycle' = lifecycle \cup Ended(Running(e.previous))

\* The refusals of a start, in the order of the code.
RefusedReplacement(e) ==
  \/ e.previous = NoChild
  \/ Running(e.previous) = {}
  \/ e.label = "unknown"

RefusedStart(e) ==
  IF Replaces(e)
    THEN RefusedReplacement(e) \/ (Running(e.child) # {} /\ e.previous # e.child)
    ELSE Running(e.child) # {}

ChildStart(e) ==
  /\ Read(e)
  /\ e.kind = "start"
  /\ ~RefusedStart(e)
  /\ IF Replaces(e) THEN StartInstead(e)
     ELSE /\ active' = active \cup {Started(e)}
          /\ UNCHANGED lifecycle
  /\ UNCHANGED <<windows, status>>

\* An exit, a signal, a kill, a detach, a timeout or a cancellation.
ChildResolution(e) ==
  /\ Read(e)
  /\ e.kind = "resolution"
  /\ Running(e.child) # {}
  /\ active' = active \ Running(e.child)
  /\ lifecycle' = lifecycle \cup Ended(Running(e.child))
  /\ UNCHANGED <<windows, status>>

RefusedShutdown(e) ==
  \/ ~e.timers /\ ~e.children
  \/ e.children /\ e.label = "unknown"

\* The windows that wait for their timer, or the ones that the event lists.
Pending(e) ==
  IF ~e.listed
    THEN {w \in Windows : windows[w].opened /\ ~windows[w].fired /\ ~windows[w].resolved}
    ELSE e.pending

ResolvedBy(e) == IF e.children THEN active ELSE {}

Shutdown(e) ==
  /\ Read(e)
  /\ e.kind = "shutdown"
  /\ ~RefusedShutdown(e)
  /\ windows' = IF e.timers
                  THEN [w \in Windows |->
                          IF w \in Pending(e)
                            THEN [windows[w] EXCEPT !.opened = TRUE, !.resolved = TRUE]
                            ELSE windows[w]]
                  ELSE windows
  /\ active' = active \ ResolvedBy(e)
  /\ lifecycle' = lifecycle \cup Ended(ResolvedBy(e))
  /\ UNCHANGED status

\* Any of the errors that end the import.
Refuse(e) ==
  /\ Read(e)
  /\ \/ e.kind = "start" /\ RefusedStart(e)
     \/ e.kind = "resolution" /\ Running(e.child) = {}
     \/ e.kind = "shutdown" /\ RefusedShutdown(e)
  /\ status' = "rejected"
  /\ UNCHANGED <<windows, active, lifecycle>>

-----------------------------------------------------------------------------
Open(w) == windows[w].opened /\ ~windows[w].fired /\ ~windows[w].resolved

\* replay_grade_for_windows.
GradeOfWindows ==
  IF \E w \in Windows : Open(w) THEN "debt"
  ELSE IF \A w \in Windows : windows[w].modeled THEN "modeled"
  ELSE "partial"

Finish ==
  /\ status = "reading"
  /\ IF active = {} THEN status' = "accepted" /\ grade' = GradeOfWindows
     ELSE status' = "rejected" /\ UNCHANGED grade
  /\ UNCHANGED <<source, trace, windows, active, lifecycle>>

Next ==
  \/ \E e \in source.events : \/ WatcherEvent(e) \/ TimerFired(e)
                              \/ ChildStart(e) \/ ChildResolution(e)
                              \/ Shutdown(e) \/ Refuse(e)
  \/ Finish

Spec == Init /\ [][Next]_vars

-----------------------------------------------------------------------------
Places == DOMAIN trace

TypeOK ==
  /\ source \in Traces
  /\ trace \in Seq(Event)
  /\ windows \in [Windows -> [opened : BOOLEAN, fired : BOOLEAN,
                              resolved : BOOLEAN, modeled : BOOLEAN]]
  /\ active \subseteq [child : Children, policy : Policies, started : Places]
  /\ lifecycle \subseteq [child : Children, started : Places, at : Places]
  /\ status \in {"reading", "accepted", "rejected"}
  /\ grade \in {"none", "debt", "partial", "modeled"}
  /\ (status = "accepted") <=> (grade # "none")

StartAt(i) == trace[i].kind = "start"

(***************************************************************************)
(* Every start of an accepted trace has been resolved, once, by a later    *)
(* event, and for the child that was started; no child was started again   *)
(* before that.  A refused import promises nothing.                        *)
(***************************************************************************)
AnsweredAt(i, e) ==
  /\ e.started = i
  /\ e.child = trace[i].child
  /\ i < e.at
  /\ \A j \in i + 1 .. e.at - 1 : StartAt(j) => trace[j].child # e.child

StartsAnswered ==
  status = "accepted" =>
    \A i \in Places : StartAt(i) =>
      /\ \E e \in lifecycle : AnsweredAt(i, e)
      /\ \A e, f \in lifecycle : e.started = i /\ f.started = i => e = f

(***************************************************************************)
(* Two exclusive children run at the same time only after an exclusive     *)
(* start that named a concurrent child as the one it replaces: the child   *)
(* that it should have replaced is not looked at.                          *)
(***************************************************************************)
Misdirected(e) == StartAt(e.at) /\ trace[e.started].policy = "concurrent"

OverlapIsMisdirected ==
  (\E a, b \in Exclusive : a # b) => \E e \in lifecycle : Misdirected(e)

\* What closes a window: its timer or a shutdown that lists it, anywhere in
\* the trace, or a shutdown without a list after the first event.
Closed(w) ==
  \E j \in Places :
    \/ trace[j].kind = "timer" /\ trace[j].window = w
    \/ /\ trace[j].kind = "shutdown"
       /\ trace[j].timers
       /\ IF trace[j].listed THEN w \in trace[j].pending
          ELSE \E i \in 1 .. j - 1 : trace[i].kind = "watcher" /\ trace[i].window = w

(***************************************************************************)
(* The grade says what the trace shows: debt when the window of a change   *)
(* was never closed, modeled when every change and every timer was.  An    *)
(* event that comes after its window was closed counts as covered by it.   *)
(***************************************************************************)
GradeIsHistory ==
  status = "accepted" =>
    /\ grade = "debt" <=>
         \E i \in Places : trace[i].kind = "watcher" /\ ~Closed(trace[i].window)
    /\ grade = "modeled" <=>
         /\ grade # "debt"
         /\ \A i \in Places : trace[i].kind \in {"watcher", "timer"} => trace[i].modeled
=============================================================================
