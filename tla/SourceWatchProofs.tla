-------------------------- MODULE SourceWatchProofs --------------------------
(***************************************************************************)
(* The watcher's reports implement ChangeFeed, for every set of files and  *)
(* errors and every number of edits, faults and kills.  The argument: what *)
(* the watcher knows of a file differs from what it has told only if the   *)
(* file has an event in the open window or in the poll under way, and      *)
(* neither coalescing nor rename normalisation loses the name of a file    *)
(* that has one.  And what the window says is true of the file: a file     *)
(* with a remove and no create in it is gone, the other way round it is    *)
(* there, and a stat that failed has an unknown event until it counts.     *)
(***************************************************************************)
EXTENDS SourceWatch, FiniteSetTheorems, TLAPS

NoNews == [first |-> NoEvent, change |-> NoEvent]

HasNews(f) == window[f] # <<>> \/ later[f] # NoNews

\* What has not been told of a file is in the window or in the poll under way.
Untold ==
    Running =>
        \A f \in Files : told[f] = View[f] \/ Feed!CameBackAsItWas(f) \/ HasNews(f)

\* The phases of the loop: a file is stat'ed once in a poll, and nothing is pending outside one.
Phases ==
    /\ pc \notin {"stat", "create"} => later = Quiet /\ window = NoWindow
    /\ pc = "stat" => todo \subseteq watched /\ \A f \in todo : later[f] = NoNews
    /\ pc = "create" => todo \cap watched = {}
    /\ pc = "load" => todo \subseteq watched
    /\ pc = "down" => watched = {}
    /\ ~Running => \A f \in Files : unresolved[f] = None

\* A file that is not there has no snapshot, and one that is not watched no error either.
Snapshots ==
    \A f \in Files :
        /\ unresolved[f] = NotFound \/ f \notin watched => snapshot[f] = Absent
        /\ f \notin watched => unresolved[f] = None

WatchInv == TypeOK /\ Phases /\ Snapshots /\ Untold

--------------------------------------------------------------------------------
(* Windows                                                                 *)

\* No event is told from every event.
LEMMA NoEventIsNone == NoEvent \notin Event
  BY DEF NoEvent, Event

\* Coalescing keeps what is there and takes in what is new.
LEMMA CoalescedKeeps ==
    ASSUME NEW s \in Seq(Event), NEW e \in Event \cup {NoEvent}
    PROVE  /\ Coalesced(s, e) \in Seq(Event)
           /\ s # <<>> \/ e # NoEvent => Coalesced(s, e) # <<>>
<1>1. CASE e = NoEvent \/ \E i \in DOMAIN s : s[i] = e
  <2>1. Coalesced(s, e) = s
    BY <1>1 DEF Coalesced
  <2>2. CASE e = NoEvent
    BY <2>1, <2>2
  <2>3. CASE \E i \in DOMAIN s : s[i] = e
    <3>1. s # <<>>
      BY <2>3
    <3> QED
      BY <2>1, <3>1
  <2> QED
    BY <1>1, <2>2, <2>3
<1>2. CASE ~(e = NoEvent \/ \E i \in DOMAIN s : s[i] = e)
  <2>1. Coalesced(s, e) = Append(s, e)
    BY <1>2 DEF Coalesced
  <2>2. Append(s, e) \in Seq(Event) /\ Append(s, e) # <<>>
    BY <1>2
  <2> QED
    BY <2>1, <2>2
<1> QED
  BY <1>1, <1>2

\* Merging the news of a poll keeps what is there and takes in what is new.
LEMMA MergedKeeps ==
    ASSUME NEW s \in Seq(Event),
           NEW n \in [first : Event \cup {NoEvent}, change : Event \cup {NoEvent}]
    PROVE  /\ Merged(s, n) \in Seq(Event)
           /\ s # <<>> \/ n # NoNews => Merged(s, n) # <<>>
<1> DEFINE t == Coalesced(s, n.first)
<1>1. n.first \in Event \cup {NoEvent} /\ n.change \in Event \cup {NoEvent}
  OBVIOUS
<1>2. t \in Seq(Event) /\ (s # <<>> \/ n.first # NoEvent => t # <<>>)
  BY <1>1, CoalescedKeeps
<1>3. n # NoNews => n.first # NoEvent \/ n.change # NoEvent
  BY DEF NoNews
<1>4. /\ Coalesced(t, n.change) \in Seq(Event)
      /\ t # <<>> \/ n.change # NoEvent => Coalesced(t, n.change) # <<>>
  BY <1>1, <1>2, CoalescedKeeps
<1> QED
  BY <1>2, <1>3, <1>4 DEF Merged

\* A file with an event in the window is named by the evidence, in a rename or by itself.
LEMMA NormalizedNames ==
    ASSUME NEW w \in [Files -> Seq(Event)], NEW f \in Files, w[f] # <<>>
    PROVE  Named(Normalized(w), f)
<1> DEFINE removed == {g \in Files : Happened(w[g], "remove")}
           created == {g \in Files : Happened(w[g], "create")}
           pairs == {p \in removed \X created : p[1] # p[2] /\ ParentOf[p[1]] = ParentOf[p[2]]}
           pair == CHOOSE p \in pairs : TRUE
           merged == [rename |-> pair,
                      events |-> [w EXCEPT ![pair[1]] = Without(@, "remove"),
                                           ![pair[2]] = Without(@, "create")]]
           plain == [rename |-> NoRename, events |-> w]
<1>1. Normalized(w) = IF OnePair(removed, created) /\ pairs # {} THEN merged ELSE plain
  BY DEF Normalized
<1>2. Named(plain, f)
  BY DEF Named
<1>3. CASE pairs # {}
  <2>1. pair \in Files \X Files
    BY <1>3
  <2> HIDE DEF pair
  <2>2. Named(merged, f)
    <3>1. CASE f = pair[1] \/ f = pair[2]
      <4>1. InRename(merged, f)
        BY <2>1, <3>1 DEF InRename
      <4> QED
        BY <4>1 DEF Named
    <3>2. CASE f # pair[1] /\ f # pair[2]
      <4>1. merged.events[f] = w[f]
        BY <2>1, <3>2
      <4> QED
        BY <4>1 DEF Named
    <3> QED
      BY <3>1, <3>2
  <2> QED
    BY <1>1, <1>2, <2>2
<1>4. CASE pairs = {}
  BY <1>1, <1>2, <1>4
<1> QED
  BY <1>3, <1>4

--------------------------------------------------------------------------------
(* Steps                                                                   *)

FeedStep == [Feed!Next]_Feed!feed

\* The invariant holds at the start, where nothing is known that was not told.
LEMMA InitHolds == Init => WatchInv /\ Feed!Init
<1> SUFFICES ASSUME Init PROVE WatchInv /\ Feed!Init
  OBVIOUS
<1>0. 0 \in 0..MaxEdits
  BY BoundsAreNumbers
<1>1. <<0, FALSE>> \in Versions
  BY <1>0 DEF Versions
<1>2. disk \in [Files -> Versions \cup {Absent}]
  BY <1>1 DEF Init
<1>3. TypeOK
  BY <1>2, BoundsAreNumbers, RootIsAFile
     DEF Init, TypeOK, Quiet, NoWindow, Stats, StartSnapshot, StartPending, Present
<1>4. Phases
  BY <1>3 DEF TypeOK, Init, Phases, Quiet, NoWindow, NoNews, Running
<1>5. Snapshots
  BY ErrorsDiffer DEF Init, Snapshots, StartSnapshot, Present
<1>6. told = View
  BY DEF Init, View
<1>7. Untold
  BY <1>6 DEF Untold
<1>8. Feed!Init
  BY <1>6 DEF Init, Feed!Init, Running
<1> QED
  BY <1>3, <1>4, <1>5, <1>7, <1>8 DEF WatchInv

\* The editor changes the world, and nothing that is known of it.
LEMMA EditorStep == ASSUME WatchInv, Editor PROVE WatchInv' /\ FeedStep
<1> DEFINE Directory ==
              /\ disk' \in [Files -> Versions \cup {Absent}]
              /\ fault' \in [Files -> Errors \cup {None}]
              /\ edits' \in 0..MaxEdits /\ faults' \in 0..MaxFaults
<1>1. UNCHANGED <<crashes, pc, todo, memory, later, window, report, history, statefile>>
  BY DEF Editor, Write, Chmod, Remove, Rename, Fault, Recover, Edited, Faulted
<1>2. Directory
  <2> USE BoundsAreNumbers, RootIsAFile
  <2>1. ASSUME NEW f \in Files, Write(f) PROVE Directory
    <3>1. edits + 1 \in 0..MaxEdits /\ edits' = edits + 1
      BY <2>1 DEF Write, Edited, WatchInv, TypeOK
    <3>2. <<edits + 1, FALSE>> \in Versions
      BY <3>1 DEF Versions
    <3> QED
      BY <2>1, <3>1, <3>2 DEF Write, Edited, WatchInv, TypeOK
  <2>2. ASSUME NEW f \in Files, Chmod(f) PROVE Directory
    <3>1. disk[f] \in Versions
      BY <2>2 DEF Chmod, Present, WatchInv, TypeOK
    <3>2. <<disk[f][1], ~disk[f][2]>> \in Versions
      BY <3>1 DEF Versions
    <3> QED
      BY <2>2, <3>2 DEF Chmod, Edited, WatchInv, TypeOK
  <2>3. ASSUME NEW f \in Files, Remove(f) PROVE Directory
    BY <2>3 DEF Remove, Edited, WatchInv, TypeOK
  <2>4. ASSUME NEW f \in Files, NEW g \in Files, Rename(f, g) PROVE Directory
    <3>1. edits + 1 \in 0..MaxEdits /\ edits' = edits + 1 /\ faults' = faults
      BY <2>4 DEF Rename, Edited, WatchInv, TypeOK
    <3>2. disk[f] \in Versions \cup {Absent}
      BY DEF WatchInv, TypeOK
    <3>3. disk' \in [Files -> Versions \cup {Absent}]
      BY <2>4, <3>2 DEF Rename, WatchInv, TypeOK
    <3> QED
      BY <2>4, <3>1, <3>3 DEF Rename, WatchInv, TypeOK
  <2>5. ASSUME NEW f \in Flaky, NEW e \in Errors, Fault(f, e) PROVE Directory
    BY <2>5 DEF Fault, Faulted, WatchInv, TypeOK
  <2>6. ASSUME NEW f \in Flaky, Recover(f) PROVE Directory
    BY <2>6 DEF Recover, Faulted, WatchInv, TypeOK
  <2> QED
    BY <2>1, <2>2, <2>3, <2>4, <2>5, <2>6 DEF Editor
<1>3. WatchInv'
  <2>1. TypeOK'
    BY <1>1, <1>2 DEF WatchInv, TypeOK, memory, report
  <2>2. Phases' /\ Snapshots'
    BY <1>1 DEF WatchInv, Phases, Snapshots, Running, memory
  <2>3. Untold'
    BY <1>1 DEF WatchInv, Untold, HasNews, View, Feed!CameBackAsItWas, Running, memory, report
  <2> QED
    BY <2>1, <2>2, <2>3 DEF WatchInv
<1>4. Feed!WorldMoves
  BY <1>1 DEF Feed!WorldMoves, View, Running, memory, report
<1> QED
  BY <1>3, <1>4 DEF FeedStep, Feed!Next

\* The events a stat may note are events, or none.
LEMMA NotedTypes ==
    ASSUME NEW e \in Stats
    PROVE  /\ Unknown(e) \in Event \cup {NoEvent}
           /\ e # None => Unknown(e) # NoEvent
           /\ [kind |-> "remove", fp |-> NotFound] \in Event
           /\ [kind |-> "create", fp |-> None] \in Event
           /\ [kind |-> "modify", fp |-> None] \in Event
           /\ [kind |-> "metadata", fp |-> None] \in Event
<1>1. NotFound \in Stats /\ None \in Stats
  BY DEF Stats
<1>2. e # None => Unknown(e) = [kind |-> "unknown", fp |-> e]
  BY DEF Unknown
<1>3. e = None => Unknown(e) = NoEvent
  BY DEF Unknown
<1>4. e # None => Unknown(e) \in Event
  BY <1>2 DEF Event
<1> QED
  BY <1>1, <1>2, <1>3, <1>4, NoEventIsNone DEF Event

\* A poll that stats f, with what it notes: the invariant holds after it when the entry of f
\* is well typed and either unchanged news or a report accounts for a new view of f.
LEMMA NotedStep ==
    ASSUME WatchInv, NEW f \in Files, NEW first \in Event \cup {NoEvent},
           NEW change \in Event \cup {NoEvent},
           Noting(f, first, change),
           UNCHANGED <<directory, crashes, pc, window, report, history, statefile>>,
           pc \in {"stat", "create"},
           todo' = todo \ {f},
           failed' \subseteq failed \cup {f},
           pc = "stat" => watched' = watched,
           pc = "create" => watched' = watched \cup {f},
           snapshot' \in [Files -> Versions \cup {Absent}],
           unresolved' \in [Files -> Stats],
           pending' \in [Files -> Stats],
           \A g \in Files \ {f} : snapshot'[g] = snapshot[g] /\ unresolved'[g] = unresolved[g],
           unresolved'[f] = NotFound => snapshot'[f] = Absent,
           f \in watched',
           later[f] = NoNews \/ first # NoEvent \/ change # NoEvent,
           \/ first # NoEvent \/ change # NoEvent
           \/ View'[f] = View[f]
           \/ /\ View'[f] = [snap |-> View[f].snap, err |-> None]
              /\ snapshot[f] # Absent
    PROVE  WatchInv'
<1>1. later' \in [Files -> [first : Event \cup {NoEvent}, change : Event \cup {NoEvent}]]
  BY DEF Noting, WatchInv, TypeOK
<1>2. TypeOK'
  BY <1>1 DEF WatchInv, TypeOK, directory, report
<1>3. \A g \in Files : g # f => later'[g] = later[g]
  BY DEF Noting, WatchInv, TypeOK
<1>4. Phases'
  BY <1>3 DEF Phases, Running, WatchInv, TypeOK
<1>5. Snapshots'
  <2>1. \A g \in Files \ {f} : g \in watched' <=> g \in watched
    OBVIOUS
  <2>2. ASSUME NEW g \in Files, g # f
        PROVE  /\ unresolved'[g] = NotFound \/ g \notin watched' => snapshot'[g] = Absent
               /\ g \notin watched' => unresolved'[g] = None
    BY <2>1, <2>2 DEF WatchInv, Snapshots
  <2> QED
    BY <2>2 DEF Snapshots
<1>6. ASSUME NEW g \in Files
      PROVE  (told[g] = View[g] \/ Feed!CameBackAsItWas(g) \/ HasNews(g))'
  <2>1. told' = told /\ window' = window /\ pc' = pc /\ Running
    BY DEF report, Running
  <2>2. CASE g # f
    <3>1. View'[g] = View[g]
      BY <2>2 DEF View
    <3>2. told[g] = View[g] \/ Feed!CameBackAsItWas(g) \/ HasNews(g)
      BY <2>1 DEF WatchInv, Untold
    <3> QED
      BY <1>3, <2>1, <2>2, <3>1, <3>2 DEF HasNews, Feed!CameBackAsItWas, Running
  <2>3. CASE g = f /\ (first # NoEvent \/ change # NoEvent)
    <3>1. later'[f] = [first |-> first, change |-> change]
      BY DEF Noting, WatchInv, TypeOK
    <3>2. later'[f] # NoNews
      BY <2>3, <3>1 DEF NoNews
    <3> QED
      BY <2>3, <3>2 DEF HasNews
  <2>4. CASE g = f /\ first = NoEvent /\ change = NoEvent
    <3>1. told[f] = View[f] \/ Feed!CameBackAsItWas(f) \/ window[f] # <<>>
      BY <2>1, <2>4 DEF WatchInv, Untold, HasNews
    <3>2. CASE View'[f] = View[f]
      BY <2>1, <2>4, <3>1, <3>2 DEF Feed!CameBackAsItWas, Running, HasNews
    <3>3. CASE View'[f] = [snap |-> View[f].snap, err |-> None] /\ snapshot[f] # Absent
      <4>1. View[f] = [snap |-> snapshot[f], err |-> unresolved[f]]
        BY DEF View
      <4>2. unresolved[f] \in Errors \cup {None}
        BY <3>3 DEF WatchInv, TypeOK, Stats, Snapshots
      <4> QED
        BY <2>1, <2>4, <3>1, <3>3, <4>1, <4>2 DEF Feed!CameBackAsItWas, Running, HasNews
    <3> QED
      BY <2>4, <3>2, <3>3
  <2> QED
    BY <2>2, <2>3, <2>4
<1>7. Untold'
  BY <1>6 DEF Untold
<1> QED
  BY <1>2, <1>4, <1>5, <1>7 DEF WatchInv

\* What the three outcomes of a stat of a watched file have in common.
LEMMA WatchedStat ==
    ASSUME WatchInv, NEW f \in Files, Stats1(f),
           NEW first \in Event \cup {NoEvent}, NEW change \in Event \cup {NoEvent},
           Noting(f, first, change),
           NEW snap \in Versions \cup {Absent}, NEW err \in Stats,
           snapshot' = [snapshot EXCEPT ![f] = snap],
           unresolved' = [unresolved EXCEPT ![f] = err],
           failed' \subseteq failed \cup {f},
           err = NotFound => snap = Absent,
           \/ first # NoEvent \/ change # NoEvent
           \/ snap = snapshot[f] /\ err = unresolved[f]
           \/ snap = snapshot[f] /\ err = None /\ snap # Absent,
           [snap |-> snap, err |-> err]
               = Feed!Seen([version |-> disk[f], fault |-> fault[f]], View[f])
    PROVE  WatchInv' /\ FeedStep
<1>1. pc = "stat" /\ pc' = pc /\ f \in watched /\ watched' = watched /\ later[f] = NoNews
  BY DEF Stats1, WatchInv, Phases
<1>2. View' = [View EXCEPT ![f] = [snap |-> snap, err |-> err]]
  BY DEF View, WatchInv, TypeOK
<1>3. View[f] = [snap |-> snapshot[f], err |-> unresolved[f]]
  BY DEF View
<1>4. pending' \in [Files -> Stats]
  BY DEF Stats1, Taken, WatchInv, TypeOK, Stats
<1>5. /\ snapshot' \in [Files -> Versions \cup {Absent}]
      /\ unresolved' \in [Files -> Stats]
      /\ snapshot'[f] = snap /\ unresolved'[f] = err
      /\ \A g \in Files \ {f} : snapshot'[g] = snapshot[g] /\ unresolved'[g] = unresolved[g]
  BY DEF WatchInv, TypeOK
<1>6. View'[f] = [snap |-> snap, err |-> err]
  BY <1>2 DEF View
<1>7. \/ first # NoEvent \/ change # NoEvent
      \/ View'[f] = View[f]
      \/ View'[f] = [snap |-> View[f].snap, err |-> None] /\ snapshot[f] # Absent
  BY <1>3, <1>6
<1>8. /\ todo' = todo \ {f}
      /\ UNCHANGED <<directory, crashes, pc, window, report, history, statefile>>
  BY DEF Stats1
<1>9. WatchInv'
  BY <1>1, <1>4, <1>5, <1>7, <1>8, NotedStep
<1>10. Feed!Look(f)
  BY <1>1, <1>2, <1>8 DEF Feed!Look, Running, directory, report
<1> QED
  BY <1>9, <1>10 DEF FeedStep, Feed!Next

\* A file that was seen changed has news.
LEMMA StatOkStep == ASSUME WatchInv, NEW f \in Files, StatOk(f) PROVE WatchInv' /\ FeedStep
<1>1. pending[f] \in Stats /\ snapshot[f] \in Versions \cup {Absent} /\ disk[f] \in Versions
  BY DEF StatOk, Present, WatchInv, TypeOK
<1>2. Unknown(pending[f]) \in Event \cup {NoEvent} /\ ChangeOf(f) \in Event \cup {NoEvent}
  BY <1>1, NotedTypes DEF ChangeOf
<1>3. PICK first \in Event \cup {NoEvent}, change \in Event \cup {NoEvent} :
        first = Unknown(pending[f]) /\ change = ChangeOf(f)
  BY <1>2
<1>4. PICK snap \in Versions \cup {Absent}, err \in Stats : snap = disk[f] /\ err = None
  BY <1>1 DEF Stats
<1>5. change # NoEvent \/ (snapshot[f] # Absent /\ snap = snapshot[f])
  BY <1>1, <1>3, <1>4, NotedTypes, NoEventIsNone DEF ChangeOf
<1>6. [snap |-> snap, err |-> err]
          = Feed!Seen([version |-> disk[f], fault |-> fault[f]], View[f])
  BY <1>4 DEF StatOk, Present, Feed!Seen
<1>7. /\ Stats1(f) /\ Noting(f, first, change)
      /\ snapshot' = [snapshot EXCEPT ![f] = snap]
      /\ unresolved' = [unresolved EXCEPT ![f] = err]
      /\ failed' \subseteq failed \cup {f}
  BY <1>3, <1>4 DEF StatOk
<1>8. err # NotFound
  BY <1>4, ErrorsDiffer
<1>9. \/ first # NoEvent \/ change # NoEvent
      \/ snap = snapshot[f] /\ err = None /\ snap # Absent
  BY <1>4, <1>5
<1> QED
  BY <1>6, <1>7, <1>8, <1>9, WatchedStat

\* So has one that was seen to be gone.
LEMMA StatNotFoundStep ==
    ASSUME WatchInv, NEW f \in Files, StatNotFound(f) PROVE WatchInv' /\ FeedStep
<1> DEFINE startup == IF pending[f] = NotFound THEN NoEvent ELSE Unknown(pending[f])
           removal == [kind |-> "remove", fp |-> NotFound]
<1>1. pending[f] \in Stats
  BY DEF WatchInv, TypeOK
<1>2. startup \in Event \cup {NoEvent}
  BY <1>1, NotedTypes
<1>3. PICK first \in Event \cup {NoEvent} : first = startup
  BY <1>2
<1>4. PICK snap \in Versions \cup {Absent}, err \in Stats : snap = Absent /\ err = NotFound
  BY DEF Stats
<1>5. [snap |-> snap, err |-> err]
          = Feed!Seen([version |-> disk[f], fault |-> fault[f]], View[f])
  BY <1>4 DEF StatNotFound, Present, Feed!Seen
<1>6. Stats1(f) /\ failed' \subseteq failed \cup {f}
  BY DEF StatNotFound
<1>7. CASE unresolved[f] = NotFound
  <2>1. snapshot[f] = Absent
    BY <1>7 DEF WatchInv, Snapshots
  <2>2. /\ Noting(f, first, NoEvent)
        /\ snapshot' = [snapshot EXCEPT ![f] = snap]
        /\ unresolved' = [unresolved EXCEPT ![f] = err]
    BY <1>3, <1>4, <1>7, <2>1 DEF StatNotFound, WatchInv, TypeOK
  <2> QED
    BY <1>4, <1>5, <1>6, <1>7, <2>1, <2>2, WatchedStat
<1>8. CASE unresolved[f] # NotFound
  <2>1. /\ Noting(f, first, removal)
        /\ snapshot' = [snapshot EXCEPT ![f] = snap]
        /\ unresolved' = [unresolved EXCEPT ![f] = err]
    BY <1>3, <1>4, <1>8 DEF StatNotFound
  <2>2. removal \in Event /\ removal # NoEvent
    BY NotedTypes, <1>1, NoEventIsNone
  <2> QED
    BY <1>4, <1>5, <1>6, <2>1, <2>2, WatchedStat
<1> QED
  BY <1>7, <1>8

\* So has one that could not be read, unless the same error is known.
LEMMA StatErrorStep ==
    ASSUME WatchInv, NEW f \in Files, StatError(f) PROVE WatchInv' /\ FeedStep
<1> DEFINE again == IF fault[f] \in {pending[f], unresolved[f]} THEN NoEvent ELSE Unknown(fault[f])
<1>1. pending[f] \in Stats /\ fault[f] \in Errors /\ fault[f] # None
  BY DEF StatError, WatchInv, TypeOK
<1>2. fault[f] \in Stats /\ fault[f] # NotFound
  BY <1>1, ErrorsDiffer DEF Stats
<1>3. /\ Unknown(pending[f]) \in Event \cup {NoEvent}
      /\ again \in Event \cup {NoEvent}
      /\ pending[f] # None => Unknown(pending[f]) # NoEvent
      /\ Unknown(fault[f]) # NoEvent
  BY <1>1, <1>2, NotedTypes
<1>4. PICK first \in Event \cup {NoEvent}, change \in Event \cup {NoEvent} :
        first = Unknown(pending[f]) /\ change = again
  BY <1>3
<1>5. PICK snap \in Versions \cup {Absent}, err \in Stats : snap = snapshot[f] /\ err = fault[f]
  BY <1>2 DEF WatchInv, TypeOK
<1>6. first # NoEvent \/ change # NoEvent \/ err = unresolved[f]
  BY <1>1, <1>3, <1>4, <1>5
<1>7. [snap |-> snap, err |-> err]
          = Feed!Seen([version |-> disk[f], fault |-> fault[f]], View[f])
  BY <1>1, <1>5 DEF Feed!Seen, View
<1>8. /\ Stats1(f) /\ Noting(f, first, change)
      /\ snapshot' = [snapshot EXCEPT ![f] = snap]
      /\ unresolved' = [unresolved EXCEPT ![f] = err]
      /\ failed' \subseteq failed \cup {f}
  BY <1>4, <1>5 DEF StatError, WatchInv, TypeOK
<1>9. /\ err # NotFound
      /\ first # NoEvent \/ change # NoEvent \/ (snap = snapshot[f] /\ err = unresolved[f])
  BY <1>2, <1>5, <1>6
<1> HIDE DEF again
<1> QED
  BY <1>7, <1>8, <1>9, WatchedStat

\* So has one that the listing found.
LEMMA StatNewStep == ASSUME WatchInv, NEW f \in Files, StatNew(f) PROVE WatchInv' /\ FeedStep
<1>1. /\ f \notin watched /\ snapshot[f] = Absent /\ unresolved[f] = None
      /\ pc = "create" /\ pc' = pc
  BY DEF StatNew, WatchInv, Phases, Snapshots
<1>2. PICK snap \in Versions \cup {Absent}, err \in Stats, change \in Event \cup {NoEvent} :
        /\ snapshot' = [snapshot EXCEPT ![f] = snap]
        /\ [snap |-> snap, err |-> err]
               = Feed!Seen([version |-> disk[f], fault |-> fault[f]], View[f])
        /\ change # NoEvent /\ Noting(f, NoEvent, change)
        /\ unresolved' = [unresolved EXCEPT ![f] = err]
        /\ err = NotFound => snap = Absent
  <2>1. CASE fault[f] = None /\ Present(f)
    <3>1. disk[f] \in Versions /\ None \in Stats
      BY <2>1 DEF Present, WatchInv, TypeOK, Stats
    <3>2. [kind |-> "create", fp |-> None] \in Event
      BY <3>1, NotedTypes
    <3>3. [snap |-> disk[f], err |-> None]
               = Feed!Seen([version |-> disk[f], fault |-> fault[f]], View[f])
      BY <2>1 DEF Feed!Seen, Present
    <3>4. unresolved' = [unresolved EXCEPT ![f] = None]
      BY <1>1, <2>1 DEF StatNew, WatchInv, TypeOK
    <3> QED
      BY <2>1, <3>1, <3>2, <3>3, <3>4, NoEventIsNone, ErrorsDiffer DEF StatNew
  <2>2. CASE fault[f] = None /\ ~Present(f)
    <3>1. NotFound \in Stats
      BY DEF Stats
    <3>2. [kind |-> "remove", fp |-> NotFound] \in Event
      BY <3>1, NotedTypes
    <3>3. [snap |-> Absent, err |-> NotFound]
               = Feed!Seen([version |-> disk[f], fault |-> fault[f]], View[f])
      BY <2>2 DEF Feed!Seen, Present
    <3>4. snapshot' = [snapshot EXCEPT ![f] = Absent]
      BY <1>1, <2>2 DEF StatNew, WatchInv, TypeOK
    <3> QED
      BY <2>2, <3>1, <3>2, <3>3, <3>4, NoEventIsNone DEF StatNew
  <2>3. CASE fault[f] # None
    <3>1. fault[f] \in Stats /\ fault[f] # NotFound
      BY <2>3, ErrorsDiffer DEF WatchInv, TypeOK, Stats
    <3>2. Unknown(fault[f]) \in Event \cup {NoEvent} /\ Unknown(fault[f]) # NoEvent
      BY <2>3, <3>1, NotedTypes
    <3>3. [snap |-> Absent, err |-> fault[f]]
               = Feed!Seen([version |-> disk[f], fault |-> fault[f]], View[f])
      BY <1>1, <2>3 DEF Feed!Seen, View
    <3>4. snapshot' = [snapshot EXCEPT ![f] = Absent]
      BY <1>1, <2>3 DEF StatNew, WatchInv, TypeOK
    <3> QED
      BY <2>3, <3>1, <3>2, <3>3, <3>4 DEF StatNew
  <2> QED
    BY <2>1, <2>2, <2>3
<1>3. /\ UNCHANGED <<directory, crashes, pc, window, report, history, statefile>>
      /\ todo' = todo \ {f} /\ watched' = watched \cup {f}
      /\ pending' \in [Files -> Stats]
      /\ failed' \subseteq failed \cup {f}
  BY DEF StatNew, WatchInv, TypeOK
<1>4. View' = [View EXCEPT ![f] = [snap |-> snap, err |-> err]]
  BY <1>2 DEF View, WatchInv, TypeOK
<1>5. /\ snapshot' \in [Files -> Versions \cup {Absent}]
      /\ unresolved' \in [Files -> Stats]
      /\ snapshot'[f] = snap /\ unresolved'[f] = err
      /\ \A g \in Files \ {f} : snapshot'[g] = snapshot[g] /\ unresolved'[g] = unresolved[g]
  BY <1>2 DEF WatchInv, TypeOK
<1>6. WatchInv'
  BY <1>1, <1>2, <1>3, <1>5, NotedStep
<1>7. Feed!Look(f)
  BY <1>1, <1>2, <1>3, <1>4 DEF Feed!Look, Running, directory, report
<1> QED
  BY <1>6, <1>7 DEF FeedStep, Feed!Next

\* Steps of the watcher that see nothing: what it knows and has told stays.
LEMMA BlindStep ==
    ASSUME UNCHANGED <<directory, memory, told>>, Running, Running'
    PROVE  FeedStep
<1>1. View' = View
  BY DEF View, memory
<1> QED
  BY <1>1 DEF FeedStep, Feed!feed, directory

\* Listing the directory loses no file with news.
LEMMA RefreshStep == ASSUME WatchInv, Refresh PROVE WatchInv' /\ FeedStep
<1>1. TypeOK'
  BY RootIsAFile DEF Refresh, WatchInv, TypeOK, directory, memory, report
<1>2. Phases' /\ Snapshots'
  BY DEF Refresh, WatchInv, Phases, Snapshots, Running, memory
<1>3. Untold'
  BY DEF Refresh, WatchInv, Untold, HasNews, View, Feed!CameBackAsItWas, Running, memory, report
<1>4. FeedStep
  BY BlindStep DEF Refresh, Running, memory, report
<1> QED
  BY <1>1, <1>2, <1>3, <1>4 DEF WatchInv

\* No news and no window are well typed and say nothing of any file.
LEMMA QuietTypes ==
    /\ Quiet \in [Files -> [first : Event \cup {NoEvent}, change : Event \cup {NoEvent}]]
    /\ \A f \in Files : Quiet[f] = NoNews
    /\ NoWindow \in [Files -> Seq(Event)]
    /\ \A f \in Files : NoWindow[f] = <<>>
  BY DEF Quiet, NoNews, NoWindow

\* A poll without news ends with nothing pending.
LEMMA PollQuietStep == ASSUME WatchInv, PollQuiet PROVE WatchInv' /\ FeedStep
<1>1. TypeOK'
  BY QuietTypes DEF PollQuiet, NextPoll, WatchInv, TypeOK, directory, memory, report
<1>2. Phases' /\ Snapshots'
  BY QuietTypes DEF PollQuiet, NextPoll, WatchInv, Phases, Snapshots, Running, memory, TypeOK
<1>3. later' = later
  BY DEF PollQuiet, NextPoll
<1>4. Untold'
  BY <1>3 DEF PollQuiet, NextPoll, PollDone, WatchInv, Untold, HasNews, View,
              Feed!CameBackAsItWas, Running, memory, report
<1>5. FeedStep
  BY BlindStep DEF PollQuiet, Running, NextPoll, PollDone, memory, report
<1> QED
  BY <1>1, <1>2, <1>4, <1>5 DEF WatchInv

\* Merging the poll into the window keeps the news of every file.
LEMMA MergedWindowKeeps ==
    ASSUME WatchInv
    PROVE  /\ MergedWindow \in [Files -> Seq(Event)]
           /\ \A f \in Files : HasNews(f) => MergedWindow[f] # <<>>
<1>1. ASSUME NEW f \in Files
      PROVE  /\ Merged(window[f], later[f]) \in Seq(Event)
             /\ HasNews(f) => Merged(window[f], later[f]) # <<>>
  BY MergedKeeps DEF WatchInv, TypeOK, HasNews
<1> QED
  BY <1>1 DEF MergedWindow

\* A poll with news leaves them in the window.
LEMMA DebounceStep == ASSUME WatchInv, Debounce PROVE WatchInv' /\ FeedStep
<1>1. window' = MergedWindow /\ UNCHANGED <<directory, crashes, memory, report, history, statefile>>
  BY DEF Debounce
<1>2. pc = "create" /\ pc' = "stat" /\ todo' = watched /\ later' = Quiet
  BY DEF Debounce, PollDone, NextPoll
<1>3. TypeOK'
  BY <1>1, <1>2, QuietTypes, MergedWindowKeeps DEF WatchInv, TypeOK, directory, memory, report
<1>4. Phases' /\ Snapshots'
  BY <1>1, <1>2, QuietTypes DEF WatchInv, TypeOK, Phases, Snapshots, Running, memory
<1>5. ASSUME NEW f \in Files
      PROVE  (told[f] = View[f] \/ Feed!CameBackAsItWas(f) \/ HasNews(f))'
  <2>1. told[f] = View[f] \/ Feed!CameBackAsItWas(f) \/ HasNews(f)
    BY <1>2 DEF WatchInv, Untold, Running
  <2>2. CASE HasNews(f)
    BY <1>1, <2>2, MergedWindowKeeps DEF HasNews
  <2>3. CASE told[f] = View[f] \/ Feed!CameBackAsItWas(f)
    BY <1>1, <1>2, <2>3 DEF View, Feed!CameBackAsItWas, Running, memory, report
  <2> QED
    BY <2>1, <2>2, <2>3
<1>6. Untold'
  BY <1>5 DEF Untold
<1>7. FeedStep
  BY <1>1, <1>2, BlindStep DEF Running, memory, report
<1> QED
  BY <1>3, <1>4, <1>6, <1>7 DEF WatchInv

\* A closed window is a batch that names every file with news.
LEMMA CloseStep == ASSUME WatchInv, Close PROVE WatchInv' /\ FeedStep
<1> DEFINE ev == Normalized(MergedWindow)
<1>1. /\ pc = "create" /\ pc' = "rerun"
      /\ window' = NoWindow /\ later' = Quiet
      /\ UNCHANGED <<directory, crashes, todo, memory, history, statefile>>
  BY DEF Close, PollDone
<1>2. told' = [f \in Files |-> IF Named(ev, f) THEN View[f] ELSE told[f]]
  BY DEF Close, View
<1>3. View' = View
  BY <1>1 DEF View, memory
<1>4. ASSUME NEW f \in Files
      PROVE  told'[f] = View[f] \/ (Feed!CameBackAsItWas(f) /\ told'[f] = told[f])
  <2>1. CASE Named(ev, f)
    BY <1>2, <2>1
  <2>2. CASE ~Named(ev, f)
    <3>1. ~HasNews(f)
      BY <2>2, MergedWindowKeeps, NormalizedNames
    <3>2. told[f] = View[f] \/ Feed!CameBackAsItWas(f)
      BY <1>1, <3>1 DEF WatchInv, Untold, Running
    <3> QED
      BY <1>2, <2>2, <3>2
  <2> QED
    BY <2>1, <2>2
<1>5. told' \in [Files -> [snap : Versions \cup {Absent}, err : Stats]]
  <2>1. View \in [Files -> [snap : Versions \cup {Absent}, err : Stats]]
    BY DEF View, WatchInv, TypeOK
  <2> HIDE DEF ev
  <2> QED
    BY <1>2, <2>1 DEF WatchInv, TypeOK
<1>6. TypeOK'
  <2>1. failed' \subseteq Files /\ spoiled' \subseteq Files
    BY <1>1 DEF Close, WatchInv, TypeOK, memory
  <2> QED
    BY <1>1, <1>5, <2>1, QuietTypes DEF WatchInv, TypeOK, directory, memory
<1>7. Phases' /\ Snapshots'
  BY <1>1, QuietTypes DEF WatchInv, Phases, Snapshots, Running, memory
<1>8. Untold'
  BY <1>1, <1>3, <1>4 DEF Untold, Feed!CameBackAsItWas, Running
<1>9. Feed!Tell
  BY <1>1, <1>3, <1>4 DEF Feed!Tell, Feed!CameBackAsItWas, Running, directory
<1> QED
  BY <1>6, <1>7, <1>8, <1>9 DEF WatchInv, FeedStep, Feed!Next

\* The rerun tells nothing and forgets nothing.
LEMMA RerunStep == ASSUME WatchInv, Rerun PROVE WatchInv' /\ FeedStep
<1>1. TypeOK'
  BY DEF Rerun, HistoryWith, WatchInv, TypeOK, directory, memory, report
<1>2. Phases' /\ Snapshots'
  BY DEF Rerun, WatchInv, Phases, Snapshots, Running, memory
<1>3. Untold'
  BY DEF Rerun, WatchInv, Untold, HasNews, View, Feed!CameBackAsItWas, Running, memory, report
<1>4. FeedStep
  BY BlindStep DEF Rerun, Running, report
<1> QED
  BY <1>1, <1>2, <1>3, <1>4 DEF WatchInv

\* Saving the state file does not either.
LEMMA SaveStep == ASSUME WatchInv, Save PROVE WatchInv' /\ FeedStep
<1>1. TypeOK'
  BY DEF Save, WatchInv, TypeOK, directory, memory
<1>2. Phases' /\ Snapshots'
  BY QuietTypes DEF Save, WatchInv, TypeOK, Phases, Snapshots, Running, memory
<1>3. Untold'
  BY DEF Save, WatchInv, Untold, HasNews, View, Feed!CameBackAsItWas, Running, memory
<1>4. FeedStep
  BY BlindStep DEF Save, Running
<1> QED
  BY <1>1, <1>2, <1>3, <1>4 DEF WatchInv

\* A killed watcher has told what it has told.
LEMMA CrashStep == ASSUME WatchInv, Crash PROVE WatchInv' /\ FeedStep
<1>1. TypeOK'
  <2>1. crashes' \in 0..MaxCrashes
    BY BoundsAreNumbers DEF Crash, WatchInv, TypeOK
  <2> QED
    BY <2>1, QuietTypes DEF Crash, WatchInv, TypeOK, directory, Stats
<1>2. Phases' /\ Snapshots'
  BY QuietTypes DEF Crash, Phases, Snapshots, Running
<1>3. told' = told /\ View' = [f \in Files |-> [snap |-> Absent, err |-> None]]
  BY DEF Crash, View
<1>4. FeedStep
  <2>1. CASE Running
    <3>1. Feed!Stop
      BY <1>3, <2>1 DEF Crash, Feed!Stop, Running, directory
    <3> QED
      BY <3>1 DEF FeedStep, Feed!Next
  <2>2. CASE ~Running
    BY <1>3, <2>2 DEF Crash, Running, directory, FeedStep, Feed!feed
  <2> QED
    BY <2>1, <2>2
<1>5. Untold'
  BY DEF Crash, Untold, Running
<1> QED
  BY <1>1, <1>2, <1>4, <1>5 DEF WatchInv

\* Until the loop is entered the watcher has seen nothing that counts.
LEMMA NotRunningStep ==
    ASSUME WatchInv, UNCHANGED <<directory, told>>, ~Running, ~Running'
    PROVE  FeedStep /\ Untold'
<1>1. told' = told /\ disk' = disk /\ fault' = fault
  BY DEF directory
<1>2. FeedStep
  BY <1>1 DEF FeedStep, Feed!feed, Running
<1>3. Untold'
  BY DEF Untold
<1> QED
  BY <1>2, <1>3

\* Listing the directory sees nothing,
LEMMA StartStep == ASSUME WatchInv, Start PROVE WatchInv' /\ FeedStep
<1>1. /\ pc = "down" /\ pc' = "start" /\ watched' = {f \in Files : Present(f)} \cup {Root}
      /\ UNCHANGED <<directory, crashes, todo, snapshot, unresolved, pending, failed, later,
                     window, report, history>>
  BY DEF Start
<1>2. TypeOK'
  BY <1>1, RootIsAFile DEF Start, WatchInv, TypeOK, directory, report
<1>3. Phases'
  BY <1>1 DEF WatchInv, Phases, Running
<1>4. Snapshots'
  <2>1. watched = {} /\ \A f \in Files : unresolved[f] = None
    BY <1>1 DEF WatchInv, Phases, Running
  <2>2. \A f \in Files : snapshot[f] = Absent
    BY <2>1 DEF WatchInv, Snapshots
  <2> QED
    BY <1>1, <2>1, <2>2 DEF Snapshots
<1>5. FeedStep /\ Untold'
  BY <1>1, NotRunningStep DEF Running, report
<1> QED
  BY <1>2, <1>3, <1>4, <1>5 DEF WatchInv

\* nor does writing the empty state file,
LEMMA ResetStateStep == ASSUME WatchInv, ResetState PROVE WatchInv' /\ FeedStep
<1>1. /\ pc = "start" /\ pc' = "load" /\ todo' = watched
      /\ UNCHANGED <<directory, crashes, memory, later, window, report, history>>
  BY DEF ResetState
<1>2. TypeOK'
  BY <1>1 DEF ResetState, FreshStateFile, WatchInv, TypeOK, directory, memory, report
<1>3. Phases' /\ Snapshots'
  BY <1>1 DEF WatchInv, Phases, Snapshots, Running, memory
<1>4. FeedStep /\ Untold'
  BY <1>1, NotRunningStep DEF Running, report
<1> QED
  BY <1>2, <1>3, <1>4 DEF WatchInv

\* nor does loading a file that was listed.
LEMMA StatStartStep == ASSUME WatchInv, NEW f \in Files, StatStart(f) PROVE WatchInv' /\ FeedStep
<1>1. /\ pc = "load" /\ pc' = "load" /\ f \in todo /\ todo' = todo \ {f}
      /\ snapshot' = [snapshot EXCEPT ![f] = StartSnapshot(f)]
      /\ pending' = [pending EXCEPT ![f] = StartPending(f)]
      /\ failed' \subseteq failed \cup {f}
      /\ UNCHANGED <<directory, crashes, watched, unresolved, later, window, report, history,
                     statefile>>
  BY DEF StatStart
<1>2. StartSnapshot(f) \in Versions \cup {Absent} /\ StartPending(f) \in Stats
  BY DEF StartSnapshot, StartPending, WatchInv, TypeOK, Stats
<1>3. TypeOK'
  BY <1>1, <1>2 DEF WatchInv, TypeOK, directory, report
<1>4. Phases'
  BY <1>1 DEF WatchInv, Phases, Running
<1>5. f \in watched /\ \A g \in Files : unresolved[g] = None
  BY <1>1 DEF WatchInv, Phases, Running
<1>6. Snapshots'
  BY <1>1, <1>5, ErrorsDiffer DEF WatchInv, TypeOK, Snapshots
<1>7. FeedStep /\ Untold'
  BY <1>1, NotRunningStep DEF Running, report
<1> QED
  BY <1>3, <1>4, <1>6, <1>7 DEF WatchInv

\* A watcher that enters its loop takes what it has loaded as told.
LEMMA EnterStep == ASSUME WatchInv, Enter PROVE WatchInv' /\ FeedStep
<1>1. /\ pc = "load" /\ pc' = "stat" /\ todo' = watched
      /\ told' = [f \in Files |-> [snap |-> snapshot[f], err |-> None]]
      /\ UNCHANGED <<directory, crashes, memory, later, window, evidence, spoiled, history,
                     statefile>>
  BY DEF Enter
<1>2. /\ later = Quiet /\ window = NoWindow /\ ~Running /\ Running'
      /\ \A f \in Files : unresolved[f] = None
  BY <1>1 DEF WatchInv, Phases, Running
<1>3. TypeOK'
  BY <1>1 DEF WatchInv, TypeOK, directory, memory, Stats
<1>4. Phases'
  BY <1>1, <1>2, QuietTypes DEF WatchInv, TypeOK, Phases, memory
<1>5. Snapshots'
  BY <1>1 DEF WatchInv, Snapshots, memory
<1>6. told' = View'
  BY <1>1, <1>2 DEF View, memory
<1>7. Untold'
  BY <1>6 DEF Untold
<1>8. Feed!Start
  BY <1>1, <1>2, <1>6 DEF Feed!Start, directory
<1> QED
  BY <1>3, <1>4, <1>5, <1>7, <1>8 DEF WatchInv, FeedStep, Feed!Next

\* A stuttering step is one of the feed.
LEMMA StutterStep == ASSUME WatchInv, UNCHANGED vars PROVE WatchInv' /\ FeedStep
<1>1. TypeOK'
  BY DEF WatchInv, TypeOK, vars, directory, memory, report
<1>2. Phases' /\ Snapshots'
  BY DEF WatchInv, Phases, Snapshots, Running, vars, memory
<1>3. Untold'
  BY DEF WatchInv, Untold, HasNews, View, Feed!CameBackAsItWas, Running, vars, memory, report
<1>4. FeedStep
  BY DEF FeedStep, Feed!feed, View, Running, vars, directory, memory, report
<1> QED
  BY <1>1, <1>2, <1>3, <1>4 DEF WatchInv

\* Every step keeps the invariant and is one of the feed.
LEMMA StepHolds == WatchInv /\ [Next]_vars => WatchInv' /\ FeedStep
<1> SUFFICES ASSUME WatchInv, [Next]_vars PROVE WatchInv' /\ FeedStep
  OBVIOUS
<1>1. CASE Editor
  BY <1>1, EditorStep
<1>2. CASE Poll
  BY <1>2, StatOkStep, StatNotFoundStep, StatErrorStep, StatNewStep DEF Poll
<1>3. CASE Refresh
  BY <1>3, RefreshStep
<1>4. CASE PollQuiet
  BY <1>4, PollQuietStep
<1>5. CASE Debounce
  BY <1>5, DebounceStep
<1>6. CASE Close
  BY <1>6, CloseStep
<1>7. CASE Rerun
  BY <1>7, RerunStep
<1>8. CASE Save
  BY <1>8, SaveStep
<1>9. CASE Startup
  BY <1>9, StartStep, ResetStateStep, StatStartStep, EnterStep DEF Startup
<1>10. CASE Crash
  BY <1>10, CrashStep
<1>11. CASE UNCHANGED vars
  BY <1>11, StutterStep
<1> QED
  BY <1>1, <1>2, <1>3, <1>4, <1>5, <1>6, <1>7, <1>8, <1>9, <1>10, <1>11 DEF Next, Watcher

\* Every variable keeps its type, for any files, errors and bounds (watch.rs, the watch loop).
THEOREM WatchTypeCorrect == Spec => []TypeOK
<1>1. Init => WatchInv
  BY InitHolds
<1>2. WatchInv /\ [Next]_vars => WatchInv'
  BY StepHolds
<1>3. WatchInv => TypeOK
  BY DEF WatchInv
<1> QED
  BY <1>1, <1>2, <1>3, PTL DEF Spec

\* Refinement: the reports of the watcher are a change feed.  Every change a poll has seen
\* is in the next report, whatever coalescing and rename normalisation do to the window, and
\* the only thing never reported is a file that became readable again as it was.
THEOREM ReportsEveryChange == Spec => FeedSpec
<1>1. Init => WatchInv /\ Feed!Init
  BY InitHolds
<1>2. WatchInv /\ [Next]_vars => WatchInv' /\ [Feed!Next]_Feed!feed
  BY StepHolds DEF FeedStep
<1> QED
  BY <1>1, <1>2, PTL DEF Spec, FeedSpec, Feed!Spec

--------------------------------------------------------------------------------
(* What the events of a window say of the files                            *)

\* An event of the kind is in the window or in the poll under way.
Noted(f, kind) ==
    Happened(window[f], kind) \/ later[f].first.kind = kind \/ later[f].change.kind = kind

\* A file that is not watched has no event.
Unwatched == \A f \in Files \ watched : window[f] = <<>> /\ later[f] = NoNews

\* A file that was only removed in the window is gone, one that was only created is there.
EventsAreTrue ==
    \A f \in Files :
        /\ Noted(f, "remove") /\ ~Noted(f, "create") => snapshot[f] = Absent
        /\ Noted(f, "create") /\ ~Noted(f, "remove") => snapshot[f] # Absent

\* The evidence of a window is there from its end until it is saved, and true meanwhile.
CandidateInv ==
    /\ pc \notin {"rerun", "save"} => evidence = NoEvidence
    /\ CandidateIsTrue

\* The run has reported something the release gate does not take.
Unclean == history = "unclear" \/ (pc = "rerun" /\ Unclear(evidence))

\* A file that a stat could not read is still to be noted, noted as unknown, or has spoiled the
\* evidence of the run; it is noted when its window is closed, and then it has.
ErrorsCount ==
    /\ \A f \in failed : pending[f] \in Errors \/ Noted(f, "unknown") \/ Unclean
    /\ \A f \in Files : pending[f] \in Errors =>
           (pc = "load" /\ f \in watched) \/ (pc = "stat" /\ f \in todo)
    /\ \A f \in Files : unresolved[f] \in Errors => f \in failed
    /\ pc \in {"down", "start"} => failed = {}
    /\ pc = "load" => failed \cap todo = {}
    /\ spoiled # {} => Unclean

\* The state file is the evidence of the run, except between a rerun and its save.
FileIsHistory ==
    /\ pc \in {"load", "stat", "create", "rerun"} => statefile = history
    /\ pc = "save" => statefile = "torn"

EventInv == Unwatched /\ EventsAreTrue /\ CandidateInv /\ ErrorsCount /\ FileIsHistory

\* Coalescing keeps the events there are and adds at most the new one.
LEMMA CoalescedHappens ==
    ASSUME NEW s \in Seq(Event), NEW e \in Event \cup {NoEvent}, NEW kind, kind # "none"
    PROVE  Happened(Coalesced(s, e), kind) <=> Happened(s, kind) \/ e.kind = kind
<1>1. CASE e = NoEvent
  BY <1>1 DEF Coalesced, NoEvent
<1>2. CASE e # NoEvent /\ \E i \in DOMAIN s : s[i] = e
  BY <1>2 DEF Coalesced, Happened
<1>3. CASE e # NoEvent /\ ~\E i \in DOMAIN s : s[i] = e
  <2>1. Coalesced(s, e) = Append(s, e) /\ e \in Event
    BY <1>3 DEF Coalesced
  <2>2. /\ DOMAIN s = 1..Len(s) /\ Len(s) \in Nat
        /\ DOMAIN Append(s, e) = 1..(Len(s) + 1)
        /\ \A i \in 1..Len(s) : Append(s, e)[i] = s[i]
        /\ Append(s, e)[Len(s) + 1] = e
    BY <2>1
  <2>3. ASSUME Happened(s, kind) PROVE Happened(Append(s, e), kind)
    <3>1. PICK i \in 1..Len(s) : s[i].kind = kind
      BY <2>2, <2>3 DEF Happened
    <3>2. i \in 1..(Len(s) + 1) /\ Append(s, e)[i].kind = kind
      BY <2>2, <3>1
    <3> QED
      BY <2>2, <3>2 DEF Happened
  <2>4. ASSUME e.kind = kind PROVE Happened(Append(s, e), kind)
    <3>1. Len(s) + 1 \in DOMAIN Append(s, e) /\ Append(s, e)[Len(s) + 1].kind = kind
      BY <2>2, <2>4
    <3> QED
      BY <3>1 DEF Happened
  <2>5. ASSUME Happened(Append(s, e), kind) PROVE Happened(s, kind) \/ e.kind = kind
    <3>1. PICK i \in 1..(Len(s) + 1) : Append(s, e)[i].kind = kind
      BY <2>2, <2>5 DEF Happened
    <3>2. CASE i = Len(s) + 1
      BY <2>2, <3>1, <3>2
    <3>3. CASE i \in 1..Len(s)
      BY <2>2, <3>1, <3>3 DEF Happened
    <3> QED
      BY <2>2, <3>2, <3>3
  <2> QED
    BY <2>1, <2>3, <2>4, <2>5
<1> QED
  BY <1>1, <1>2, <1>3

\* Merging a poll into the window keeps what is noted, and notes nothing else.
LEMMA MergedHappens ==
    ASSUME WatchInv, NEW f \in Files, NEW kind, kind # "none"
    PROVE  Happened(MergedWindow[f], kind) <=> Noted(f, kind)
<1> DEFINE s == window[f]
           t == Coalesced(s, later[f].first)
<1>1. s \in Seq(Event)
  BY DEF WatchInv, TypeOK
<1>2. later[f].first \in Event \cup {NoEvent} /\ later[f].change \in Event \cup {NoEvent}
  BY DEF WatchInv, TypeOK
<1>3. t \in Seq(Event)
  BY <1>1, <1>2, CoalescedKeeps
<1>4. Happened(t, kind) <=> Happened(s, kind) \/ later[f].first.kind = kind
  BY <1>1, <1>2, CoalescedHappens
<1>5. Happened(Coalesced(t, later[f].change), kind)
          <=> Happened(t, kind) \/ later[f].change.kind = kind
  BY <1>2, <1>3, CoalescedHappens
<1>6. MergedWindow[f] = Coalesced(t, later[f].change)
  BY DEF MergedWindow, Merged
<1> QED
  BY <1>4, <1>5, <1>6 DEF Noted

\* What a stat of f notes says what the snapshot and the error of f became.
LEMMA PollNotes ==
    ASSUME WatchInv, Unwatched, ErrorsCount, NEW f \in Files,
           StatOk(f) \/ StatNotFound(f) \/ StatError(f) \/ StatNew(f)
    PROVE  \E first \in Event \cup {NoEvent}, change \in Event \cup {NoEvent} :
              /\ later' = [later EXCEPT ![f] = [first |-> first, change |-> change]]
              /\ later[f] = NoNews
              /\ first.kind \in {"none", "unknown"}
              /\ change.kind = "create" => snapshot'[f] # Absent
              /\ change.kind = "remove" => snapshot'[f] = Absent
              /\ snapshot[f] = Absent /\ snapshot'[f] # Absent => change.kind = "create"
              /\ snapshot[f] # Absent /\ snapshot'[f] = Absent => change.kind = "remove"
              /\ unresolved'[f] \in Errors => f \in failed'
              /\ failed \subseteq failed' /\ failed' \subseteq failed \cup {f}
              /\ f \in failed' \ failed => first.kind = "unknown" \/ change.kind = "unknown"
              /\ pending[f] \in Errors => first.kind = "unknown"
              /\ pending'[f] \notin Errors
<1>0. /\ \A e \in Stats : Unknown(e) \in Event \cup {NoEvent}
      /\ \A e \in Stats : Unknown(e).kind \in {"none", "unknown"}
      /\ \A e \in Stats : e # None => Unknown(e).kind = "unknown"
      /\ NoEvent.kind = "none"
  BY NotedTypes DEF Unknown, NoEvent
<1>1. /\ [kind |-> "create", fp |-> None] \in Event /\ [kind |-> "remove", fp |-> NotFound] \in Event
      /\ [kind |-> "modify", fp |-> None] \in Event /\ [kind |-> "metadata", fp |-> None] \in Event
      /\ NotFound \notin Errors /\ None \notin Errors
  BY NotedTypes, ErrorsDiffer DEF Stats
<1>2. /\ pending[f] \in Stats /\ fault[f] \in Stats
      /\ snapshot \in [Files -> Versions \cup {Absent}] /\ unresolved \in [Files -> Stats]
  BY DEF WatchInv, TypeOK, Stats
<1>a. failed \subseteq failed' /\ failed' \subseteq failed \cup {f}
  BY DEF StatOk, StatNotFound, StatError, StatNew
<1>b. pending'[f] \notin Errors
  <2>1. CASE Stats1(f)
    <3>1. pending'[f] = None
      BY <2>1 DEF Stats1, Taken, WatchInv, TypeOK
    <3> QED
      BY <1>1, <3>1
  <2>2. CASE StatNew(f)
    BY <2>2 DEF StatNew, ErrorsCount
  <2> QED
    BY <2>1, <2>2 DEF StatOk, StatNotFound, StatError
<1>c. unresolved[f] \in Errors => f \in failed
  BY DEF ErrorsCount
<1>d. pending[f] \in Errors => Unknown(pending[f]).kind = "unknown"
  BY <1>0, <1>1, <1>2
<1>3. CASE StatOk(f)
  <2>0. failed' = failed
    BY <1>3 DEF StatOk
  <2>1. later[f] = NoNews /\ disk[f] # Absent /\ snapshot'[f] = disk[f] /\ unresolved'[f] = None
    BY <1>2, <1>3 DEF StatOk, Stats1, Present, WatchInv, Phases
  <2>2. later' = [later EXCEPT ![f] = [first |-> Unknown(pending[f]), change |-> ChangeOf(f)]]
    BY <1>3 DEF StatOk, Noting
  <2>3. /\ ChangeOf(f) \in Event \cup {NoEvent}
        /\ ChangeOf(f).kind # "remove"
        /\ ChangeOf(f).kind = "create" <=> snapshot[f] = Absent
    <3>1. CASE snapshot[f] = Absent
      BY <1>1, <3>1 DEF ChangeOf
    <3>2. CASE snapshot[f] # Absent /\ disk[f] = snapshot[f]
      BY <1>0, <3>2 DEF ChangeOf
    <3>3. CASE snapshot[f] # Absent /\ disk[f] # snapshot[f] /\ disk[f][1] # snapshot[f][1]
      BY <1>1, <3>3 DEF ChangeOf
    <3>4. CASE snapshot[f] # Absent /\ disk[f] # snapshot[f] /\ disk[f][1] = snapshot[f][1]
      BY <1>1, <3>4 DEF ChangeOf
    <3> QED
      BY <3>1, <3>2, <3>3, <3>4
  <2> QED
    BY <1>0, <1>1, <1>2, <1>b, <1>d, <2>0, <2>1, <2>2, <2>3
<1>4. CASE StatNotFound(f)
  <2> DEFINE startup == IF pending[f] = NotFound THEN NoEvent ELSE Unknown(pending[f])
             removed == [kind |-> "remove", fp |-> NotFound]
  <2>1. later[f] = NoNews
    BY <1>4 DEF StatNotFound, Stats1, WatchInv, Phases
  <2>2. /\ startup \in Event \cup {NoEvent} /\ startup.kind \in {"none", "unknown"}
        /\ pending[f] \in Errors => startup.kind = "unknown"
    BY <1>0, <1>1, <1>2, <1>d
  <2>5. failed' = failed
    BY <1>4 DEF StatNotFound
  <2>3. CASE unresolved[f] = NotFound
    <3>1. /\ later' = [later EXCEPT ![f] = [first |-> startup, change |-> NoEvent]]
          /\ snapshot' = snapshot /\ unresolved' = unresolved
      BY <1>4, <2>3 DEF StatNotFound, Noting
    <3> QED
      BY <1>0, <1>b, <1>c, <2>1, <2>2, <2>5, <3>1
  <2>4. CASE unresolved[f] # NotFound
    <3>1. later' = [later EXCEPT ![f] = [first |-> startup, change |-> removed]]
      BY <1>4, <2>4 DEF StatNotFound, Noting
    <3>2. snapshot'[f] = Absent /\ unresolved'[f] = NotFound
      BY <1>2, <1>4, <2>4 DEF StatNotFound
    <3>3. removed \in Event /\ removed.kind = "remove"
      BY <1>1
    <3> HIDE DEF startup, removed
    <3> QED
      BY <1>1, <1>b, <2>1, <2>2, <2>5, <3>1, <3>2, <3>3
  <2> QED
    BY <2>3, <2>4
<1>5. CASE StatError(f)
  <2> DEFINE change == IF fault[f] \in {pending[f], unresolved[f]} THEN NoEvent
                       ELSE Unknown(fault[f])
  <2>1. later[f] = NoNews /\ snapshot' = snapshot /\ unresolved'[f] = fault[f] /\ fault[f] # None
    BY <1>2, <1>5 DEF StatError, Stats1, WatchInv, Phases
  <2>2. later' = [later EXCEPT ![f] = [first |-> Unknown(pending[f]), change |-> change]]
    BY <1>5 DEF StatError, Noting
  <2>3. /\ change \in Event \cup {NoEvent} /\ change.kind \in {"none", "unknown"}
        /\ fault[f] = unresolved[f] \/ fault[f] = pending[f] \/ change.kind = "unknown"
    BY <1>0, <1>2, <2>1
  <2>4. fault[f] = pending[f] => Unknown(pending[f]).kind = "unknown"
    BY <1>0, <1>2, <2>1
  <2>5. f \in failed'
    BY <1>5 DEF StatError
  <2>6. f \notin failed => fault[f] # unresolved[f]
    <3>1. fault[f] \in Errors
      BY <2>1 DEF WatchInv, TypeOK
    <3> QED
      BY <1>c, <3>1
  <2> HIDE DEF change
  <2> QED
    BY <1>0, <1>2, <1>a, <1>b, <1>d, <2>1, <2>2, <2>3, <2>4, <2>5, <2>6
<1>6. CASE StatNew(f)
  <2>1. f \notin watched
    BY <1>6 DEF StatNew, WatchInv, Phases
  <2>2. later[f] = NoNews /\ snapshot[f] = Absent
    BY <2>1 DEF Unwatched, WatchInv, Snapshots
  <2>6. pending[f] \notin Errors
    BY <1>6 DEF StatNew, ErrorsCount
  <2>3. CASE fault[f] = None /\ Present(f)
    <3>1. /\ later' = [later EXCEPT ![f] = [first |-> NoEvent,
                                          change |-> [kind |-> "create", fp |-> None]]]
          /\ snapshot'[f] # Absent /\ unresolved' = unresolved /\ failed' = failed
      BY <1>2, <1>6, <2>3 DEF StatNew, Noting, Present
    <3> QED
      BY <1>0, <1>1, <1>b, <1>c, <2>2, <2>6, <3>1
  <2>4. CASE fault[f] = None /\ ~Present(f)
    <3>1. later' = [later EXCEPT ![f] = [first |-> NoEvent,
                                        change |-> [kind |-> "remove", fp |-> NotFound]]]
      BY <1>6, <2>4 DEF StatNew, Noting
    <3>2. snapshot' = snapshot /\ unresolved'[f] = NotFound /\ failed' = failed
      BY <1>2, <1>6, <2>4 DEF StatNew
    <3> QED
      BY <1>0, <1>1, <1>b, <2>2, <2>6, <3>1, <3>2
  <2>5. CASE fault[f] # None
    <3>1. /\ later' = [later EXCEPT ![f] = [first |-> NoEvent, change |-> Unknown(fault[f])]]
          /\ snapshot' = snapshot /\ f \in failed'
      BY <1>6, <2>5 DEF StatNew, Noting
    <3>2. Unknown(fault[f]) \in Event \cup {NoEvent} /\ Unknown(fault[f]).kind = "unknown"
      BY <1>0, <1>2, <2>5
    <3> QED
      BY <1>0, <1>a, <1>b, <2>2, <2>6, <3>1, <3>2
  <2> QED
    BY <2>3, <2>4, <2>5
<1> QED
  BY <1>3, <1>4, <1>5, <1>6

\* Steps that change neither what is known nor what is noted, between two polls: none is taken
\* from one phase of a poll to the next while an error is still to be noted.
LEMMA SameEvents ==
    ASSUME EventInv, UNCHANGED <<memory, later, window, report, history, statefile>>,
           \/ pc' = pc /\ todo' = todo
           \/ /\ pc \in {"stat", "create"} /\ pc' \in {"stat", "create"}
              /\ pc = "stat" => todo = {}
    PROVE  EventInv'
<1>1. Unwatched' /\ EventsAreTrue'
  BY DEF EventInv, Unwatched, EventsAreTrue, Noted, memory
<1>2. CandidateInv' /\ FileIsHistory'
  BY DEF EventInv, CandidateInv, CandidateIsTrue, FileIsHistory, memory, report
<1>3. (pc = "rerun") = (pc' = "rerun")
  OBVIOUS
<1>4. Unclean' = Unclean
  BY <1>3 DEF Unclean, report
<1>5. ErrorsCount'
  <2>1. \A f \in failed : Noted(f, "unknown")' <=> Noted(f, "unknown")
    BY DEF Noted
  <2>2. CASE pc' = pc /\ todo' = todo
    BY <1>4, <2>1, <2>2 DEF EventInv, ErrorsCount, memory, report
  <2>3. CASE /\ pc \in {"stat", "create"} /\ pc' \in {"stat", "create"}
             /\ pc = "stat" => todo = {}
    <3>1. \A f \in Files : pending[f] \notin Errors
      BY <2>3 DEF EventInv, ErrorsCount
    <3> QED
      BY <1>4, <2>1, <2>3, <3>1 DEF EventInv, ErrorsCount, memory, report
  <2> QED
    BY <2>2, <2>3
<1> QED
  BY <1>1, <1>2, <1>5 DEF EventInv

\* A poll notes what it finds.
LEMMA PollEvents ==
    ASSUME WatchInv, EventInv, NEW f \in Files,
           StatOk(f) \/ StatNotFound(f) \/ StatError(f) \/ StatNew(f)
    PROVE  EventInv'
<1>1. PICK first \in Event \cup {NoEvent}, change \in Event \cup {NoEvent} :
              /\ later' = [later EXCEPT ![f] = [first |-> first, change |-> change]]
              /\ later[f] = NoNews
              /\ first.kind \in {"none", "unknown"}
              /\ change.kind = "create" => snapshot'[f] # Absent
              /\ change.kind = "remove" => snapshot'[f] = Absent
              /\ snapshot[f] = Absent /\ snapshot'[f] # Absent => change.kind = "create"
              /\ snapshot[f] # Absent /\ snapshot'[f] = Absent => change.kind = "remove"
              /\ unresolved'[f] \in Errors => f \in failed'
              /\ failed \subseteq failed' /\ failed' \subseteq failed \cup {f}
              /\ f \in failed' \ failed => first.kind = "unknown" \/ change.kind = "unknown"
              /\ pending[f] \in Errors => first.kind = "unknown"
              /\ pending'[f] \notin Errors
  BY PollNotes DEF EventInv
<1>2. /\ pc \in {"stat", "create"} /\ pc' = pc
      /\ UNCHANGED <<window, report, history, statefile>>
      /\ watched \subseteq watched' /\ f \in watched'
  BY DEF StatOk, StatNotFound, StatError, StatNew, Stats1, WatchInv, Phases
<1>3. ASSUME NEW g \in Files, g # f
      PROVE  /\ snapshot'[g] = snapshot[g] /\ unresolved'[g] = unresolved[g]
             /\ pending'[g] = pending[g] /\ later'[g] = later[g]
  BY <1>1, <1>3 DEF StatOk, StatNotFound, StatError, StatNew, Stats1, Taken, WatchInv, TypeOK
<1>4. later'[f].first = first /\ later'[f].change = change
  BY <1>1 DEF WatchInv, TypeOK
<1>5. ASSUME NEW kind, kind # "none"
      PROVE  Noted(f, kind)' <=> Noted(f, kind) \/ first.kind = kind \/ change.kind = kind
  BY <1>1, <1>2, <1>4, <1>5 DEF Noted, NoNews, NoEvent
<1>6. ASSUME NEW kind, NEW g \in Files, g # f PROVE Noted(g, kind)' <=> Noted(g, kind)
  BY <1>2, <1>3, <1>6 DEF Noted
<1>7. Unwatched'
  BY <1>2, <1>3 DEF EventInv, Unwatched
<1>8. EventsAreTrue'
  <2>1. ASSUME NEW g \in Files, g # f
        PROVE  /\ Noted(g, "remove")' /\ ~Noted(g, "create")' => snapshot'[g] = Absent
               /\ Noted(g, "create")' /\ ~Noted(g, "remove")' => snapshot'[g] # Absent
    BY <1>3, <1>6, <2>1 DEF EventInv, EventsAreTrue
  <2>2. /\ Noted(f, "remove")' /\ ~Noted(f, "create")' => snapshot'[f] = Absent
        /\ Noted(f, "create")' /\ ~Noted(f, "remove")' => snapshot'[f] # Absent
    <3>1. /\ Noted(f, "remove")' <=> Noted(f, "remove") \/ change.kind = "remove"
          /\ Noted(f, "create")' <=> Noted(f, "create") \/ change.kind = "create"
      BY <1>1, <1>5
    <3>2. /\ Noted(f, "remove") /\ ~Noted(f, "create") => snapshot[f] = Absent
          /\ Noted(f, "create") /\ ~Noted(f, "remove") => snapshot[f] # Absent
      BY DEF EventInv, EventsAreTrue
    <3> QED
      BY <1>1, <3>1, <3>2
  <2> QED
    BY <2>1, <2>2 DEF EventsAreTrue
<1>9. CandidateInv'
  BY <1>2 DEF EventInv, CandidateInv, CandidateIsTrue, NoEvidence, report
<1>10. Unclean' = Unclean
  BY <1>2 DEF Unclean, report
<1>11. ErrorsCount'
  <2>1. ASSUME NEW g \in failed', g # f
        PROVE  pending'[g] \in Errors \/ Noted(g, "unknown")' \/ Unclean'
    <3>1. g \in failed /\ g \in Files
      BY <1>1, <2>1 DEF WatchInv, TypeOK
    <3> QED
      BY <1>3, <1>6, <1>10, <2>1, <3>1 DEF EventInv, ErrorsCount
  <2>2. ASSUME f \in failed'
        PROVE  Noted(f, "unknown")' \/ Unclean'
    <3>1. Noted(f, "unknown")' <=>
              Noted(f, "unknown") \/ first.kind = "unknown" \/ change.kind = "unknown"
      BY <1>5
    <3>2. CASE f \in failed
      BY <1>1, <1>10, <3>1, <3>2 DEF EventInv, ErrorsCount
    <3>3. CASE f \notin failed
      BY <1>1, <2>2, <3>1, <3>3
    <3> QED
      BY <3>2, <3>3
  <2>3. ASSUME NEW g \in Files, pending'[g] \in Errors
        PROVE  pc' = "stat" /\ g \in todo'
    <3>1. g # f /\ pending[g] \in Errors
      BY <1>1, <1>3, <2>3
    <3>2. pc = "stat" /\ g \in todo
      BY <1>2, <3>1 DEF EventInv, ErrorsCount
    <3>3. todo' = todo \ {f}
      BY DEF StatOk, StatNotFound, StatError, StatNew, Stats1
    <3> QED
      BY <1>2, <3>1, <3>2, <3>3
  <2>4. ASSUME NEW g \in Files, unresolved'[g] \in Errors PROVE g \in failed'
    <3>1. CASE g = f
      BY <1>1, <2>4, <3>1
    <3>2. CASE g # f
      BY <1>1, <1>3, <2>4, <3>2 DEF EventInv, ErrorsCount
    <3> QED
      BY <3>1, <3>2
  <2>5. spoiled' # {} => Unclean'
    BY <1>2, <1>10 DEF EventInv, ErrorsCount, report
  <2> QED
    BY <1>2, <2>1, <2>2, <2>3, <2>4, <2>5 DEF ErrorsCount
<1>12. FileIsHistory'
  BY <1>2 DEF EventInv, FileIsHistory
<1> QED
  BY <1>7, <1>8, <1>9, <1>11, <1>12 DEF EventInv

\* Nothing is noted once a window is closed.
LEMMA NothingNoted ==
    ASSUME NEW f \in Files, NEW kind, kind # "none", window = NoWindow, later = Quiet
    PROVE  ~Noted(f, kind)
  BY QuietTypes DEF Noted, Happened, NoNews, NoEvent

\* A poll that extends the window moves what it noted there.
LEMMA DebounceEvents == ASSUME WatchInv, EventInv, Debounce PROVE EventInv'
<1>1. /\ pc = "create" /\ pc' = "stat" /\ window' = MergedWindow /\ later' = Quiet
      /\ UNCHANGED <<memory, report, history, statefile>>
  BY DEF Debounce, PollDone, NextPoll
<1>2. ASSUME NEW f \in Files, NEW kind, kind # "none" PROVE Noted(f, kind)' <=> Noted(f, kind)
  <2>1. Happened(MergedWindow[f], kind) <=> Noted(f, kind)
    BY <1>2, MergedHappens
  <2>2. later'[f].first.kind = "none" /\ later'[f].change.kind = "none"
    BY <1>1, QuietTypes DEF NoNews, NoEvent
  <2> QED
    BY <1>1, <1>2, <2>1, <2>2 DEF Noted
<1>3. Unwatched'
  <2>1. ASSUME NEW f \in Files, window[f] = <<>>, later[f] = NoNews PROVE MergedWindow[f] = <<>>
    BY <2>1 DEF MergedWindow, Merged, Coalesced, NoNews
  <2> QED
    BY <1>1, <2>1, QuietTypes DEF EventInv, Unwatched, memory
<1>4. EventsAreTrue'
  BY <1>1, <1>2 DEF EventInv, EventsAreTrue, memory
<1>5. CandidateInv' /\ FileIsHistory'
  BY <1>1 DEF EventInv, CandidateInv, CandidateIsTrue, FileIsHistory, NoEvidence, memory, report
<1>6. Unclean' = Unclean
  BY <1>1 DEF Unclean, report
<1>7. ErrorsCount'
  <2>1. \A f \in Files : pending[f] \notin Errors
    BY <1>1 DEF EventInv, ErrorsCount
  <2>2. \A f \in failed : Noted(f, "unknown")' \/ Unclean'
    BY <1>2, <1>6, <2>1 DEF EventInv, ErrorsCount, WatchInv, TypeOK
  <2> QED
    BY <1>1, <1>6, <2>1, <2>2 DEF EventInv, ErrorsCount, memory, report
<1> QED
  BY <1>3, <1>4, <1>5, <1>7 DEF EventInv

\* Of several removed or created files no pair is taken, so the two of a rename candidate
\* have one event of these kinds each.
LEMMA RenamePair ==
    ASSUME NEW w, Normalized(w).rename # NoRename
    PROVE  /\ Normalized(w).rename[1] \in Files /\ Normalized(w).rename[2] \in Files
           /\ Happened(w[Normalized(w).rename[1]], "remove")
           /\ ~Happened(w[Normalized(w).rename[1]], "create")
           /\ Happened(w[Normalized(w).rename[2]], "create")
           /\ ~Happened(w[Normalized(w).rename[2]], "remove")
<1> DEFINE removed == {g \in Files : Happened(w[g], "remove")}
           created == {g \in Files : Happened(w[g], "create")}
           pairs == {p \in removed \X created : p[1] # p[2] /\ ParentOf[p[1]] = ParentOf[p[2]]}
           pair == CHOOSE p \in pairs : TRUE
           merged == [rename |-> pair,
                      events |-> [w EXCEPT ![pair[1]] = Without(@, "remove"),
                                           ![pair[2]] = Without(@, "create")]]
           plain == [rename |-> NoRename, events |-> w]
<1>1. Normalized(w) = IF OnePair(removed, created) /\ pairs # {} THEN merged ELSE plain
  BY DEF Normalized
<1>2. OnePair(removed, created) /\ pairs # {} /\ Normalized(w).rename = pair
  <2>1. merged.rename = pair /\ plain.rename = NoRename
    <3> HIDE DEF pair
    <3> QED OBVIOUS
  <2> HIDE DEF merged, plain, pair, pairs, removed, created
  <2> QED BY <1>1, <2>1
<1>3. pair \in pairs
  BY <1>2
<1>4. IsFiniteSet(removed) /\ IsFiniteSet(created)
  BY FilesFinite, FS_Subset
<1>5. PICK r, c : removed = {r} /\ created = {c}
  <2>1. Cardinality(removed) = 1 /\ Cardinality(created) = 1
    BY <1>2 DEF OnePair
  <2>2. \E r : removed = {r}
    BY <1>4, <2>1, FS_Singleton
  <2>3. \E c : created = {c}
    BY <1>4, <2>1, FS_Singleton
  <2> QED
    BY <2>2, <2>3
<1>6. pair[1] \in removed /\ pair[2] \in created /\ pair[1] # pair[2]
  <2>1. \A p \in pairs : p[1] \in removed /\ p[2] \in created /\ p[1] # p[2]
    <3> HIDE DEF removed, created
    <3> QED OBVIOUS
  <2> HIDE DEF pair, pairs, removed, created
  <2> QED BY <1>3, <2>1
<1> HIDE DEF pair
<1>7. pair[1] \notin created /\ pair[2] \notin removed
  BY <1>5, <1>6
<1> QED
  BY <1>2, <1>6, <1>7

\* Normalising takes no unknown event away.
LEMMA UnknownStays ==
    ASSUME NEW w, NEW f \in Files, Happened(w[f], "unknown")
    PROVE  Unclear(Normalized(w))
<1> DEFINE ev == Normalized(w)
<1>1. CASE ev.rename # NoRename
  BY <1>1 DEF Unclear
<1>2. CASE ev.rename = NoRename
  <2> DEFINE removed == {g \in Files : Happened(w[g], "remove")}
             created == {g \in Files : Happened(w[g], "create")}
             pairs == {p \in removed \X created : p[1] # p[2] /\ ParentOf[p[1]] = ParentOf[p[2]]}
             pair == CHOOSE p \in pairs : TRUE
             merged == [rename |-> pair,
                        events |-> [w EXCEPT ![pair[1]] = Without(@, "remove"),
                                             ![pair[2]] = Without(@, "create")]]
  <2>1. ev = IF OnePair(removed, created) /\ pairs # {}
             THEN merged ELSE [rename |-> NoRename, events |-> w]
    BY DEF Normalized
  <2>2. pairs # {} => pair \in pairs
    OBVIOUS
  <2>3. pairs # {} => pair # NoRename
    <3>1. \A S, T : \A p \in S \X T : p # << >>
      OBVIOUS
    <3>2. pairs \subseteq removed \X created
      OBVIOUS
    <3> HIDE DEF pair, pairs, removed, created
    <3> QED BY <2>2, <3>1, <3>2 DEF NoRename
  <2>4. ev.events = w
    <3>1. merged.rename = pair
      <4> HIDE DEF pair
      <4> QED OBVIOUS
    <3> HIDE DEF ev, merged, pair, pairs, removed, created
    <3> QED BY <1>2, <2>1, <2>3, <3>1
  <2> QED
    BY <2>4 DEF Unclear
<1> QED
  BY <1>1, <1>2

\* The evidence of a closed window: its candidate is true, and an error in it is unclear.
LEMMA CloseEvents == ASSUME WatchInv, EventInv, Close PROVE EventInv'
<1> DEFINE ev == Normalized(MergedWindow)
<1>1. /\ pc = "create" /\ pc' = "rerun"
      /\ window' = NoWindow /\ later' = Quiet /\ evidence' = ev
      /\ spoiled' = failed
      /\ UNCHANGED <<memory, history, statefile>>
  BY DEF Close, PollDone
<1>2. Unwatched' /\ EventsAreTrue'
  BY <1>1, QuietTypes, NothingNoted DEF Unwatched, EventsAreTrue, Noted, Happened, NoNews, NoEvent
<1>3. CandidateInv'
  <2>1. ASSUME ev.rename # NoRename
        PROVE  snapshot[ev.rename[1]] = Absent /\ snapshot[ev.rename[2]] # Absent
    <3> DEFINE w == MergedWindow
               r == ev.rename[1]
               c == ev.rename[2]
    <3>1. /\ r \in Files /\ c \in Files
          /\ Happened(w[r], "remove") /\ ~Happened(w[r], "create")
          /\ Happened(w[c], "create") /\ ~Happened(w[c], "remove")
      BY <2>1, RenamePair
    <3> HIDE DEF r, c
    <3>2. Noted(r, "remove") /\ ~Noted(r, "create") /\ Noted(c, "create") /\ ~Noted(c, "remove")
      BY <3>1, MergedHappens
    <3>3. snapshot[r] = Absent /\ snapshot[c] # Absent
      BY <3>1, <3>2 DEF EventInv, EventsAreTrue
    <3> QED
      BY <3>3 DEF r, c
  <2> HIDE DEF ev
  <2>2. CandidateIsTrue'
    BY <1>1, <2>1 DEF CandidateIsTrue, memory
  <2> QED
    BY <1>1, <2>2 DEF CandidateInv
<1>4. Unclean => Unclean'
  BY <1>1 DEF Unclean
<1>5. ASSUME NEW f \in failed PROVE Unclean'
  <2>1. f \in Files /\ pending[f] \notin Errors
    BY <1>1 DEF EventInv, ErrorsCount, WatchInv, TypeOK
  <2>2. Noted(f, "unknown") \/ Unclean
    BY <2>1 DEF EventInv, ErrorsCount
  <2>3. CASE Noted(f, "unknown")
    <3>1. Happened(MergedWindow[f], "unknown")
      BY <2>1, <2>3, MergedHappens
    <3>2. Unclear(ev)
      BY <2>1, <3>1, UnknownStays
    <3> QED
      BY <1>1, <3>2 DEF Unclean
  <2> QED
    BY <1>4, <2>2, <2>3
<1>6. ErrorsCount'
  <2>1. \A f \in Files : pending[f] \notin Errors
    BY <1>1 DEF EventInv, ErrorsCount
  <2> QED
    BY <1>1, <1>5, <2>1 DEF EventInv, ErrorsCount, memory
<1>7. FileIsHistory'
  BY <1>1 DEF EventInv, FileIsHistory
<1> QED
  BY <1>2, <1>3, <1>6, <1>7 DEF EventInv

\* The run is unclear when its window is, and stays so.
LEMMA RerunEvents == ASSUME WatchInv, EventInv, Rerun PROVE EventInv'
<1>1. /\ pc = "rerun" /\ pc' = "save" /\ history' = HistoryWith /\ statefile' = "torn"
      /\ UNCHANGED <<memory, later, window, report>>
  BY DEF Rerun
<1>2. Unwatched' /\ EventsAreTrue'
  BY <1>1 DEF EventInv, Unwatched, EventsAreTrue, Noted, memory
<1>3. CandidateInv' /\ FileIsHistory'
  BY <1>1 DEF EventInv, CandidateInv, CandidateIsTrue, FileIsHistory, memory, report
<1>4. Unclean => Unclean'
  BY <1>1 DEF Unclean, HistoryWith
<1>5. ErrorsCount'
  <2>1. \A f \in failed : Noted(f, "unknown")' <=> Noted(f, "unknown")
    BY <1>1 DEF Noted
  <2> QED
    BY <1>1, <1>4, <2>1 DEF EventInv, ErrorsCount, memory, report
<1> QED
  BY <1>2, <1>3, <1>5 DEF EventInv

\* The saved evidence is forgotten, the history of the run is not.
LEMMA SaveEvents == ASSUME WatchInv, EventInv, Save PROVE EventInv'
<1>1. /\ pc = "save" /\ pc' = "stat" /\ statefile' = history /\ evidence' = NoEvidence
      /\ UNCHANGED <<memory, later, window, spoiled, history>>
  BY DEF Save
<1>2. Unwatched' /\ EventsAreTrue'
  BY <1>1 DEF EventInv, Unwatched, EventsAreTrue, Noted, memory
<1>3. CandidateInv' /\ FileIsHistory'
  BY <1>1 DEF CandidateInv, CandidateIsTrue, FileIsHistory, NoEvidence
<1>4. Unclean => Unclean'
  BY <1>1 DEF Unclean
<1>5. ErrorsCount'
  <2>1. \A f \in failed : Noted(f, "unknown")' <=> Noted(f, "unknown")
    BY <1>1 DEF Noted
  <2> QED
    BY <1>1, <1>4, <2>1 DEF EventInv, ErrorsCount, memory
<1> QED
  BY <1>2, <1>3, <1>5 DEF EventInv

\* A killed run knows and claims nothing.
LEMMA CrashEvents == ASSUME WatchInv, EventInv, Crash PROVE EventInv'
<1>1. /\ pc' = "down" /\ window' = NoWindow /\ later' = Quiet /\ evidence' = NoEvidence
      /\ failed' = {} /\ spoiled' = {}
      /\ \A f \in Files : unresolved'[f] = None /\ pending'[f] = None
  BY DEF Crash
<1>2. Unwatched'
  BY <1>1, QuietTypes DEF Unwatched
<1>3. EventsAreTrue'
  BY <1>1, QuietTypes DEF EventsAreTrue, Noted, Happened, NoNews, NoEvent
<1>4. CandidateInv' /\ ErrorsCount' /\ FileIsHistory'
  BY <1>1, ErrorsDiffer DEF CandidateInv, CandidateIsTrue, NoEvidence, ErrorsCount, FileIsHistory
<1> QED
  BY <1>2, <1>3, <1>4 DEF EventInv

\* Until the loop is entered the run has no history.
Fresh == ~Running => history = "empty"

\* A new run rewrites the state file, loads what it finds, and keeps the errors of the stats for
\* its first poll.
LEMMA StartupEvents == ASSUME WatchInv, EventInv, Fresh, Startup PROVE EventInv' /\ Fresh'
<1>1. /\ ~Running /\ history = "empty" /\ pc # "rerun" /\ pc' # "rerun"
      /\ UNCHANGED <<unresolved, later, window, evidence, spoiled, history>>
  BY DEF Startup, Start, ResetState, StatStart, Enter, Running, Fresh, memory, report
<1>2. /\ window' = NoWindow /\ later' = Quiet /\ evidence' = NoEvidence
      /\ pc' \notin {"create", "rerun", "save"}
  <2>1. later = Quiet /\ window = NoWindow
    BY <1>1 DEF WatchInv, Phases, Running
  <2>2. evidence = NoEvidence
    BY <1>1 DEF EventInv, CandidateInv, Running
  <2> QED
    BY <1>1, <2>1, <2>2 DEF Startup, Start, ResetState, StatStart, Enter
<1>3. Unwatched'
  BY <1>2, QuietTypes DEF Unwatched
<1>4. EventsAreTrue'
  BY <1>2, QuietTypes DEF EventsAreTrue, Noted, Happened, NoNews, NoEvent
<1>5. CandidateInv'
  BY <1>2 DEF CandidateInv, CandidateIsTrue, NoEvidence
<1>6. spoiled' = {} /\ \A f \in failed : pending[f] \in Errors
  <2>1. ~Unclean
    BY <1>1 DEF Unclean
  <2>2. ASSUME NEW f \in failed PROVE ~Noted(f, "unknown")
    <3>1. f \in Files /\ later = Quiet /\ window = NoWindow
      BY <1>1, <1>2 DEF WatchInv, TypeOK
    <3> QED
      BY <3>1, NothingNoted
  <2> QED
    BY <1>1, <2>1, <2>2 DEF EventInv, ErrorsCount
<1>7. ErrorsCount'
  <2>1. CASE Start
    BY <1>6, <2>1 DEF Start, EventInv, ErrorsCount
  <2>2. CASE ResetState
    BY <1>6, <2>2 DEF ResetState, EventInv, ErrorsCount, memory
  <2>3. ASSUME NEW f \in Files, StatStart(f) PROVE ErrorsCount'
    <3>1. /\ pc = "load" /\ pc' = "load" /\ f \in todo /\ todo' = todo \ {f}
          /\ pending' = [pending EXCEPT ![f] = StartPending(f)]
          /\ failed' = IF fault[f] # None THEN failed \cup {f} ELSE failed
          /\ watched' = watched /\ unresolved' = unresolved
      BY <2>3 DEF StatStart
    <3>2. f \in watched /\ f \notin failed
      BY <3>1 DEF WatchInv, Phases, EventInv, ErrorsCount
    <3>3. fault[f] # None => fault[f] \in Errors /\ StartPending(f) = fault[f]
      BY DEF WatchInv, TypeOK, StartPending
    <3>4. pending'[f] = StartPending(f) /\ \A g \in Files \ {f} : pending'[g] = pending[g]
      BY <3>1 DEF WatchInv, TypeOK
    <3>5. \A g \in failed' : pending'[g] \in Errors
      BY <1>6, <3>1, <3>2, <3>3, <3>4 DEF WatchInv, TypeOK
    <3>6. \A g \in Files : pending'[g] \in Errors => g \in watched'
      BY <3>1, <3>2, <3>4 DEF EventInv, ErrorsCount
    <3>7. \A g \in Files : unresolved'[g] \in Errors => g \in failed'
      BY <3>1 DEF EventInv, ErrorsCount
    <3>8. failed' \cap todo' = {}
      BY <3>1, <3>2 DEF EventInv, ErrorsCount
    <3> QED
      BY <1>6, <3>1, <3>5, <3>6, <3>7, <3>8 DEF ErrorsCount
  <2>4. CASE Enter
    BY <1>6, <2>4 DEF Enter, EventInv, ErrorsCount, memory
  <2> QED
    BY <2>1, <2>2, <2>3, <2>4 DEF Startup
<1>8. FileIsHistory'
  BY <1>1 DEF Startup, Start, ResetState, StatStart, Enter, FreshStateFile, EventInv, FileIsHistory
<1>9. Fresh'
  BY <1>1 DEF Fresh
<1> QED
  BY <1>3, <1>4, <1>5, <1>7, <1>8, <1>9 DEF EventInv

EventsInv == WatchInv /\ EventInv /\ Fresh

\* Initially nothing is noted, told or saved.
LEMMA InitEvents == Init => EventsInv
<1> SUFFICES ASSUME Init PROVE EventsInv
  OBVIOUS
<1>1. WatchInv
  BY InitHolds
<1>2. Unwatched /\ EventsAreTrue
  BY QuietTypes DEF Init, Unwatched, EventsAreTrue, Noted, Happened, NoNews, NoEvent
<1>3. CandidateInv /\ FileIsHistory /\ Fresh
  BY DEF Init, CandidateInv, CandidateIsTrue, NoEvidence, FileIsHistory, Fresh, Running
<1>4. ErrorsCount
  <2>1. ASSUME NEW f \in Files, fault[f] # None
        PROVE  f \in watched /\ pending[f] = fault[f] /\ fault[f] \in Errors
    BY <1>1, <2>1 DEF Init, Present, StartPending, WatchInv, TypeOK
  <2>2. \A f \in Files : pending[f] \in Errors => f \in watched
    BY ErrorsDiffer DEF Init
  <2> QED
    BY <2>1, <2>2, ErrorsDiffer DEF Init, ErrorsCount
<1> QED
  BY <1>1, <1>2, <1>3, <1>4 DEF EventsInv, EventInv

\* Every step keeps what the events say.
LEMMA StepEvents == EventsInv /\ [Next]_vars => EventsInv'
<1> SUFFICES ASSUME EventsInv, [Next]_vars PROVE EventsInv'
  OBVIOUS
<1>0. WatchInv /\ EventInv /\ Fresh
  BY DEF EventsInv
<1>1. WatchInv'
  BY <1>0, StepHolds
<1>2. CASE Editor
  <2>1. UNCHANGED <<pc, todo, memory, later, window, report, history, statefile>>
    BY <1>2 DEF Editor, Write, Chmod, Remove, Rename, Fault, Recover, Edited, Faulted
  <2> QED
    BY <1>0, <1>1, <2>1, SameEvents DEF EventsInv, Fresh, Running
<1>3. CASE Poll
  <2>1. pc \in {"stat", "create"} /\ pc' = pc
    BY <1>3 DEF Poll, StatOk, StatNotFound, StatError, StatNew, Stats1
  <2> QED
    BY <1>0, <1>1, <1>3, <2>1, PollEvents DEF Poll, EventsInv, Fresh, Running
<1>4. CASE Refresh \/ PollQuiet
  <2>1. /\ UNCHANGED <<memory, later, window, report, history, statefile>>
        /\ pc \in {"stat", "create"} /\ pc' \in {"stat", "create"}
        /\ pc = "stat" => todo = {}
    BY <1>4 DEF Refresh, PollQuiet, PollDone, NextPoll
  <2> QED
    BY <1>0, <1>1, <2>1, SameEvents DEF EventsInv, Fresh, Running
<1>5. CASE Debounce
  <2>1. Running'
    BY <1>5 DEF Debounce, NextPoll, Running
  <2> QED
    BY <1>0, <1>1, <1>5, <2>1, DebounceEvents DEF EventsInv, Fresh
<1>6. CASE Close
  <2>1. Running'
    BY <1>6 DEF Close, Running
  <2> QED
    BY <1>0, <1>1, <1>6, <2>1, CloseEvents DEF EventsInv, Fresh
<1>7. CASE Rerun
  <2>1. Running'
    BY <1>7 DEF Rerun, Running
  <2> QED
    BY <1>0, <1>1, <1>7, <2>1, RerunEvents DEF EventsInv, Fresh
<1>8. CASE Save
  <2>1. Running'
    BY <1>8 DEF Save, Running
  <2> QED
    BY <1>0, <1>1, <1>8, <2>1, SaveEvents DEF EventsInv, Fresh
<1>9. CASE Startup
  BY <1>0, <1>1, <1>9, StartupEvents DEF EventsInv
<1>10. CASE Crash
  <2>1. history' = "empty"
    BY <1>10 DEF Crash
  <2> QED
    BY <1>0, <1>1, <1>10, <2>1, CrashEvents DEF EventsInv, Fresh
<1>11. CASE UNCHANGED vars
  BY <1>0, <1>1, <1>11, SameEvents DEF EventsInv, Fresh, Running, vars
<1> QED
  BY <1>2, <1>3, <1>4, <1>5, <1>6, <1>7, <1>8, <1>9, <1>10, <1>11 DEF Next, Watcher

\* A rename candidate names a file that is gone and one that is there, whatever the polls of
\* its window saw, and in whatever order (normalize_rename_events).
THEOREM CandidatesAreTrue == Spec => []CandidateIsTrue
<1>1. EventsInv => CandidateIsTrue
  BY DEF EventsInv, EventInv, CandidateInv
<1> QED
  BY <1>1, InitEvents, StepEvents, PTL DEF Spec

\* From the rerun after the window in which a stat failed, the release gate is shut as long as the
\* run lasts: also when the file was readable again before the window was closed, when its
\* recovery was reported, and whatever windows followed.
THEOREM GateStaysShut == Spec => []GateShutOnError
<1>1. EventsInv => GateShutOnError
  <2> SUFFICES ASSUME EventsInv, pc # "rerun", spoiled # {} PROVE statefile # "clean"
    BY DEF GateShutOnError, GateOpen
  <2>1. history = "unclear"
    BY DEF EventsInv, EventInv, ErrorsCount, Unclean
  <2>2. Running /\ pc \in {"stat", "create", "save"}
    BY <2>1 DEF EventsInv, Fresh, WatchInv, TypeOK, Running
  <2> QED
    BY <2>1, <2>2 DEF EventsInv, EventInv, FileIsHistory
<1> QED
  BY <1>1, InitEvents, StepEvents, PTL DEF Spec

\* What opens the release gate between two windows is the evidence of the present run, in
\* whatever step an earlier run was killed.
THEOREM GateIsOfThisRun == Spec => []GateReadsThisRun
<1>1. EventsInv => GateReadsThisRun
  BY DEF EventsInv, EventInv, FileIsHistory, GateReadsThisRun, GateOpen
<1> QED
  BY <1>1, InitEvents, StepEvents, PTL DEF Spec
=============================================================================
