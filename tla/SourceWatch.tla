----------------------------- MODULE SourceWatch -----------------------------
(***************************************************************************)
(* kobo watch: a polling loop over the .kobo files below one directory.    *)
(* Each poll stats the files it knows, lists the directory again and stats *)
(* what is new.  The first poll that finds a change opens a debounce       *)
(* window, every later poll that finds one extends it, and the first quiet *)
(* poll closes it: the window is normalised, the root file is checked and  *)
(* the evidence of the run is written to .kobo/watch/source-watch.json,    *)
(* which the release gate reads.  An editor changes the directory between  *)
(* any two system calls, files become unreadable and come back, and the    *)
(* process may be killed and started again.                                *)
(*                                                                         *)
(* The order of events of different files carries nothing (a window is     *)
(* sorted by path before it is reported), so a window is one sequence of   *)
(* events for each file.                                                   *)
(***************************************************************************)
EXTENDS Naturals, Sequences, FiniteSets

CONSTANTS
    Files,      \* the .kobo files an editor may create
    Root,       \* the file given on the command line
    ParentOf,   \* the directory of each file
    Flaky,      \* files that may become unreadable
    Errors,     \* io errors of a stat other than NotFound
    NotFound, None, Absent,
    MaxEdits,   \* bound on the editor's steps
    MaxFaults,  \* bound on losses of readability
    MaxCrashes  \* bound on kills of the watcher

ASSUME RootIsAFile == Root \in Files /\ Flaky \subseteq Files

\* A directory holds finitely many files.
ASSUME FilesFinite == IsFiniteSet(Files)

ASSUME ErrorsDiffer == NotFound # None /\ NotFound \notin Errors /\ None \notin Errors

ASSUME BoundsAreNumbers == MaxEdits \in Nat /\ MaxFaults \in Nat /\ MaxCrashes \in Nat

ASSUME AbsentIsNoVersion == Absent \notin Nat \X BOOLEAN

\* A FileSnapshot: modification time, and the permission bit that a chmod
\* changes while the time stays.  The n-th write has modification time n.
Versions == (0..MaxEdits) \X BOOLEAN

Stats == Errors \cup {NotFound, None}

Event == [kind : {"create", "modify", "metadata", "remove", "unknown"}, fp : Stats]

NoEvent == [kind |-> "none", fp |-> None]

VARIABLES
    disk,       \* [Files -> Versions, or Absent]
    fault,      \* [Files -> error of a stat of the file, or None]
    edits, faults, crashes,                   \* steps taken against the bounds
    pc,         \* "down", "start" and "load" before the loop, then "stat", "create", "rerun", "save"
    todo,       \* the files this phase has still to stat
    watched,    \* the paths of the vector of WatchedFiles, and by path:
    snapshot, unresolved, pending,
    failed,     \* history: the files a stat of this run could not read
    later,      \* the changes of this poll: [first, change] for each file
    window,     \* the changes of the open window, <<>> for each file when none is open
    evidence,   \* the closed window: events of each file, and the rename candidate
    told,       \* history: what the windows closed in this run have reported
    spoiled,    \* history: failed, as it was when the last window of this run was closed
    history,    \* the evidence of this run: "empty", "clean" or "unclear"
    statefile   \* the same on disk, or "torn" while it is rewritten

directory == <<disk, fault, edits, faults>>
memory == <<watched, snapshot, unresolved, pending, failed>>
report == <<evidence, told, spoiled>>
vars == <<directory, crashes, pc, todo, memory, later, window, report,
          history, statefile>>

--------------------------------------------------------------------------------
(* Windows                                                                 *)

\* Variant: what a stat did not find enters the window too.
CoalescedAny(events, e) ==
    IF \E i \in DOMAIN events : events[i] = e THEN events ELSE Append(events, e)

\* can_coalesce_with: same path, kind and error; the later data replace the earlier in place.
Coalesced(events, e) ==
    IF e = NoEvent \/ \E i \in DOMAIN events : events[i] = e THEN events ELSE Append(events, e)

\* merge_window_changes, for the changes of one file
Merged(events, new) == Coalesced(Coalesced(events, new.first), new.change)

Happened(events, kind) == \E i \in DOMAIN events : events[i].kind = kind

Without(events, kind) == SelectSeq(events, LAMBDA e : e.kind # kind)

Quiet == [f \in Files |-> [first |-> NoEvent, change |-> NoEvent]]

NoWindow == [f \in Files |-> <<>>]

NoRename == <<>>

\* Variant: of several removes and creates, some pair is taken.
AnyPair(removed, created) == removed # {} /\ created # {}

\* One remove and one create in the whole window.
OnePair(removed, created) == Cardinality(removed) = 1 /\ Cardinality(created) = 1

\* normalize_rename_events: one remove and one create, of two files of one directory,
\* become a rename candidate that names both.
Normalized(events) ==
    LET removed == {f \in Files : Happened(events[f], "remove")}
        created == {f \in Files : Happened(events[f], "create")}
        pairs == {p \in removed \X created : p[1] # p[2] /\ ParentOf[p[1]] = ParentOf[p[2]]}
    IN  IF OnePair(removed, created) /\ pairs # {}
        THEN LET pair == CHOOSE p \in pairs : TRUE
             IN  [rename |-> pair,
                  events |-> [events EXCEPT ![pair[1]] = Without(@, "remove"),
                                            ![pair[2]] = Without(@, "create")]]
        ELSE [rename |-> NoRename, events |-> events]

NoEvidence == [rename |-> NoRename, events |-> NoWindow]

InRename(ev, f) == \E i \in DOMAIN ev.rename : ev.rename[i] = f

\* Variant: the destination of a rename candidate is not among its paths.
SourceNamed(ev, f) == ev.events[f] # <<>> \/ (ev.rename # NoRename /\ ev.rename[1] = f)

\* The paths of the events: source_path, and destination_path of a rename candidate.
Named(ev, f) == ev.events[f] # <<>> \/ InRename(ev, f)

\* Event grades the release gate takes: metadata_only is, unknown and modelled_from_metadata are not.
Unclear(ev) ==
    ev.rename # NoRename \/ \E f \in Files : Happened(ev.events[f], "unknown")

\* repeated_unknown_changes
OnlyRepeats ==
    \A f \in Files : \A e \in {later[f].first, later[f].change} \ {NoEvent} :
        e.kind = "unknown" /\ \E i \in DOMAIN window[f] : window[f][i] = e

--------------------------------------------------------------------------------
(* The directory                                                           *)

Present(f) == disk[f] # Absent

Writable(f) == fault[f] = None

Edited ==
    /\ edits < MaxEdits
    /\ edits' = edits + 1
    /\ UNCHANGED <<faults, crashes, pc, todo, memory, later, window, report,
                   history, statefile>>

Write(f) ==
    /\ Edited
    /\ Writable(f)
    /\ disk' = [disk EXCEPT ![f] = <<edits + 1, FALSE>>]
    /\ UNCHANGED fault

Chmod(f) ==
    /\ Edited
    /\ Present(f) /\ Writable(f)
    /\ disk' = [disk EXCEPT ![f] = <<@[1], ~@[2]>>]
    /\ UNCHANGED fault

Remove(f) ==
    /\ Edited
    /\ Present(f)
    /\ disk' = [disk EXCEPT ![f] = Absent]
    /\ fault' = [fault EXCEPT ![f] = None]

\* A rename keeps the modification time.
Rename(f, g) ==
    /\ Edited
    /\ f # g /\ Present(f) /\ Writable(f) /\ Writable(g)
    /\ disk' = [disk EXCEPT ![f] = Absent, ![g] = disk[f]]
    /\ UNCHANGED fault

Faulted(f, e) ==
    /\ fault' = [fault EXCEPT ![f] = e]
    /\ UNCHANGED <<disk, edits, crashes, pc, todo, memory, later, window, report,
                   history, statefile>>

Fault(f, e) ==
    /\ faults < MaxFaults
    /\ faults' = faults + 1
    /\ Present(f) /\ fault[f] # e
    /\ Faulted(f, e)

Recover(f) ==
    /\ fault[f] # None
    /\ UNCHANGED faults
    /\ Faulted(f, None)

Editor ==
    \/ \E f \in Files : Write(f) \/ Chmod(f) \/ Remove(f)
    \/ \E f, g \in Files : Rename(f, g)
    \/ \E f \in Flaky, e \in Errors : Fault(f, e)
    \/ \E f \in Flaky : Recover(f)

--------------------------------------------------------------------------------
(* A poll                                                                  *)

Noting(f, first, change) == later' = [later EXCEPT ![f] = [first |-> first, change |-> change]]

\* The startup error is taken by the first stat, whatever that returns.
Taken(f) == pending' = [pending EXCEPT ![f] = None]

Unknown(e) == IF e = None THEN NoEvent ELSE [kind |-> "unknown", fp |-> e]

Stats1(f) ==
    /\ pc = "stat" /\ f \in todo
    /\ todo' = todo \ {f}
    /\ Taken(f)
    /\ UNCHANGED <<directory, crashes, pc, watched, window, report, history, statefile>>

\* Variant: a stat that succeeds after an error reports nothing and takes the snapshot.
ChangeQuiet(f) == IF unresolved[f] # None THEN NoEvent ELSE [kind |-> "modify", fp |-> None]

ChangeOf(f) ==
    CASE snapshot[f] = Absent -> [kind |-> "create", fp |-> None]
      [] snapshot[f] # Absent /\ disk[f] = snapshot[f] -> NoEvent
      [] snapshot[f] # Absent /\ disk[f][1] # snapshot[f][1] -> [kind |-> "modify", fp |-> None]
      [] OTHER -> [kind |-> "metadata", fp |-> None]

StatOk(f) ==
    /\ Stats1(f)
    /\ fault[f] = None /\ Present(f)
    /\ unresolved' = [unresolved EXCEPT ![f] = None]
    /\ snapshot' = [snapshot EXCEPT ![f] = disk[f]]
    /\ Noting(f, Unknown(pending[f]), ChangeOf(f))
    /\ UNCHANGED failed

StatNotFound(f) ==
    /\ Stats1(f)
    /\ fault[f] = None /\ ~Present(f)
    /\ LET startup == IF pending[f] = NotFound THEN NoEvent ELSE Unknown(pending[f])
       IN  IF unresolved[f] = NotFound
           THEN /\ Noting(f, startup, NoEvent)
                /\ UNCHANGED <<unresolved, snapshot>>
           ELSE /\ Noting(f, startup, [kind |-> "remove", fp |-> NotFound])
                /\ unresolved' = [unresolved EXCEPT ![f] = NotFound]
                /\ snapshot' = [snapshot EXCEPT ![f] = Absent]
    /\ UNCHANGED failed

\* The snapshot of a file that cannot be read is kept.
StatError(f) ==
    /\ Stats1(f)
    /\ fault[f] # None
    /\ unresolved' = [unresolved EXCEPT ![f] = fault[f]]
    /\ Noting(f, Unknown(pending[f]),
              IF fault[f] \in {pending[f], unresolved[f]} THEN NoEvent ELSE Unknown(fault[f]))
    /\ failed' = failed \cup {f}
    /\ UNCHANGED snapshot

\* refresh_watch_scope: the directory is listed, the root file is always in scope.
Refresh ==
    /\ pc = "stat" /\ todo = {}
    /\ pc' = "create"
    /\ todo' = ({f \in Files : Present(f)} \cup {Root}) \ watched
    /\ UNCHANGED <<directory, crashes, memory, later, window, report, history, statefile>>

\* created_watch_files, for one file that is listed and not yet watched
StatNew(f) ==
    /\ pc = "create" /\ f \in todo
    /\ todo' = todo \ {f}
    /\ watched' = watched \cup {f}
    /\ \/ /\ fault[f] = None /\ Present(f)
          /\ snapshot' = [snapshot EXCEPT ![f] = disk[f]]
          /\ Noting(f, NoEvent, [kind |-> "create", fp |-> None])
          /\ UNCHANGED <<unresolved, failed>>
       \/ /\ fault[f] = None /\ ~Present(f)
          /\ unresolved' = [unresolved EXCEPT ![f] = NotFound]
          /\ Noting(f, NoEvent, [kind |-> "remove", fp |-> NotFound])
          /\ UNCHANGED <<snapshot, failed>>
       \/ /\ fault[f] # None
          /\ unresolved' = [unresolved EXCEPT ![f] = fault[f]]
          /\ Noting(f, NoEvent, Unknown(fault[f]))
          /\ failed' = failed \cup {f}
          /\ UNCHANGED snapshot
    /\ UNCHANGED <<directory, crashes, pc, pending, window, report, history, statefile>>

PollDone == pc = "create" /\ todo = {}

NextPoll ==
    /\ pc' = "stat"
    /\ todo' = watched
    /\ later' = Quiet

MergedWindow == [f \in Files |-> Merged(window[f], later[f])]

\* A poll that found nothing while no window is open.
PollQuiet ==
    /\ PollDone
    /\ later = Quiet /\ window = NoWindow
    /\ NextPoll
    /\ UNCHANGED <<directory, crashes, memory, window, report, history, statefile>>

\* A poll that found something opens the window, or extends it unless it only repeats
\* errors the window already holds.
Debounce ==
    /\ PollDone
    /\ later # Quiet
    /\ window = NoWindow \/ ~OnlyRepeats
    /\ window' = MergedWindow
    /\ NextPoll
    /\ UNCHANGED <<directory, crashes, memory, report, history, statefile>>

Close ==
    /\ PollDone
    /\ window # NoWindow
    /\ OnlyRepeats
    /\ LET ev == Normalized(MergedWindow)
       IN  /\ evidence' = ev
           /\ told' = [f \in Files |->
                          IF Named(ev, f) THEN [snap |-> snapshot[f], err |-> unresolved[f]]
                                          ELSE told[f]]
    /\ spoiled' = failed
    /\ window' = NoWindow
    /\ later' = Quiet
    /\ pc' = "rerun"
    /\ UNCHANGED <<directory, crashes, todo, memory, history, statefile>>

--------------------------------------------------------------------------------
(* The rerun and the evidence                                              *)

\* Variant: the evidence of the last window replaces that of the run.
HistoryOfLast == IF Unclear(evidence) THEN "unclear" ELSE "clean"

HistoryWith == IF history = "unclear" \/ Unclear(evidence) THEN "unclear" ELSE "clean"

\* The root file is checked, whatever that finds the window enters the evidence, and the
\* state file is rewritten: truncated first, then written.
Rerun ==
    /\ pc = "rerun"
    /\ history' = HistoryWith
    /\ statefile' = "torn"
    /\ pc' = "save"
    /\ UNCHANGED <<directory, crashes, todo, memory, later, window, report>>

Save ==
    /\ pc = "save"
    /\ statefile' = history
    /\ evidence' = NoEvidence
    /\ pc' = "stat"
    /\ todo' = watched
    /\ UNCHANGED <<directory, crashes, memory, later, window, told, spoiled, history>>

\* The release gate: at least one window, and every event of it understood.
GateOpen == statefile = "clean"

--------------------------------------------------------------------------------
(* Start and stop                                                          *)

StartSnapshot(f) == IF fault[f] = None THEN disk[f] ELSE Absent

StartPending(f) ==
    CASE fault[f] # None -> fault[f]
      [] fault[f] = None /\ disk[f] = Absent -> NotFound
      [] OTHER -> None

\* Variant: a new run leaves the state file as it finds it.
StateFileAtStart == statefile

\* persist_source_watch_state with an empty history
FreshStateFile == "empty"

\* Killed, or ended by a directory that cannot be listed.  A kill in the middle of
\* ResetState leaves the state file torn.
Crash ==
    /\ pc # "down" /\ crashes < MaxCrashes
    /\ crashes' = crashes + 1
    /\ pc' = "down"
    /\ todo' = {} /\ watched' = {}
    /\ snapshot' = [f \in Files |-> Absent]
    /\ unresolved' = [f \in Files |-> None]
    /\ pending' = [f \in Files |-> None]
    /\ failed' = {} /\ spoiled' = {}
    /\ later' = Quiet /\ window' = NoWindow /\ evidence' = NoEvidence
    /\ history' = "empty"
    /\ statefile' = statefile \/ (pc = "start" /\ statefile' = "torn")
    /\ UNCHANGED <<directory, told>>

\* watch_scope: the files that are listed.
Start ==
    /\ pc = "down"
    /\ pc' = "start"
    /\ watched' = {f \in Files : Present(f)} \cup {Root}
    /\ UNCHANGED <<directory, crashes, todo, snapshot, unresolved, pending, failed, later,
                   window, report, history, statefile>>

\* persist_source_watch_state, before anything is stat'ed.
ResetState ==
    /\ pc = "start"
    /\ pc' = "load"
    /\ todo' = watched
    /\ statefile' = FreshStateFile
    /\ UNCHANGED <<directory, crashes, memory, later, window, report, history>>

\* watched_files, for one file that was listed: an error of the stat is kept for the first poll.
StatStart(f) ==
    /\ pc = "load" /\ f \in todo
    /\ todo' = todo \ {f}
    /\ snapshot' = [snapshot EXCEPT ![f] = StartSnapshot(f)]
    /\ pending' = [pending EXCEPT ![f] = StartPending(f)]
    /\ failed' = IF fault[f] # None THEN failed \cup {f} ELSE failed
    /\ UNCHANGED <<directory, crashes, pc, watched, unresolved, later, window, report,
                   history, statefile>>

\* The loop is entered: no check was run, what was loaded is what the first poll compares with.
Enter ==
    /\ pc = "load" /\ todo = {}
    /\ pc' = "stat"
    /\ todo' = watched
    /\ told' = [f \in Files |-> [snap |-> snapshot[f], err |-> None]]
    /\ UNCHANGED <<directory, crashes, memory, later, window, evidence, spoiled, history,
                   statefile>>

\* The first run enters its loop.
Init ==
    /\ disk \in [Files -> {<<0, FALSE>>, Absent}]
    /\ fault \in [Files -> Errors \cup {None}]
    /\ \A f \in Files : fault[f] # None => f \in Flaky /\ disk[f] # Absent
    /\ edits = 0 /\ faults = 0 /\ crashes = 0
    /\ pc = "stat"
    /\ watched = {f \in Files : Present(f)} \cup {Root}
    /\ todo = watched
    /\ snapshot = [f \in Files |-> StartSnapshot(f)]
    /\ unresolved = [f \in Files |-> None]
    /\ pending = [f \in Files |-> IF f \in watched THEN StartPending(f) ELSE None]
    /\ failed = {f \in Files : fault[f] # None} /\ spoiled = {}
    /\ later = Quiet /\ window = NoWindow /\ evidence = NoEvidence
    /\ told = [f \in Files |-> [snap |-> snapshot[f], err |-> None]]
    /\ history = "empty"
    /\ statefile = "empty"

Startup == Start \/ ResetState \/ (\E f \in Files : StatStart(f)) \/ Enter

Poll == \E f \in Files : StatOk(f) \/ StatNotFound(f) \/ StatError(f) \/ StatNew(f)

Watcher == Startup \/ Poll \/ Refresh \/ PollQuiet \/ Debounce \/ Close \/ Rerun \/ Save

Next == Editor \/ Watcher \/ Crash

\* The watcher is a loop that never waits for anything but its timer.
Spec == Init /\ [][Next]_vars /\ WF_vars(Watcher)

--------------------------------------------------------------------------------
(* Properties                                                              *)

TypeOK ==
    /\ disk \in [Files -> Versions \cup {Absent}]
    /\ fault \in [Files -> Errors \cup {None}]
    /\ edits \in 0..MaxEdits /\ faults \in 0..MaxFaults /\ crashes \in 0..MaxCrashes
    /\ pc \in {"down", "start", "load", "stat", "create", "rerun", "save"}
    /\ todo \subseteq Files /\ watched \subseteq Files
    /\ failed \subseteq Files /\ spoiled \subseteq Files
    /\ snapshot \in [Files -> Versions \cup {Absent}]
    /\ unresolved \in [Files -> Stats] /\ pending \in [Files -> Stats]
    /\ later \in [Files -> [first : Event \cup {NoEvent}, change : Event \cup {NoEvent}]]
    /\ window \in [Files -> Seq(Event)]
    /\ told \in [Files -> [snap : Versions \cup {Absent}, err : Stats]]
    /\ history \in {"empty", "clean", "unclear"}
    /\ statefile \in {"empty", "clean", "unclear", "torn"}

\* The reports implement the feed: whatever the polls saw, coalescing, rename
\* normalisation and the sort into a batch leave no changed file out of the next report.
View == [f \in Files |-> [snap |-> snapshot[f], err |-> unresolved[f]]]

\* The loop runs: a watcher that loads its files has seen nothing it could report yet.
Running == pc \notin {"down", "start", "load"}

Feed == INSTANCE ChangeFeed WITH
            world <- [f \in Files |-> [version |-> disk[f], fault |-> fault[f]]],
            known <- IF Running THEN View ELSE told,
            up <- Running

FeedSpec == Feed!Spec

\* When the editor has finished, the last report of every readable file is the file as it is,
\* through extended windows, repeated errors, kills and restarts.
SettlesOnDisk == <>[](\A f \in Files : fault[f] = None => told[f].snap = disk[f])

\* A rename candidate names a file that is gone and another that is there, as far as the
\* polls of its window saw: never a file that came back, nor two of several.
CandidateIsTrue ==
    evidence.rename # NoRename =>
        /\ snapshot[evidence.rename[1]] = Absent
        /\ snapshot[evidence.rename[2]] # Absent

\* A stat that failed counts against its run for good.  From the rerun after the window it fell
\* in, the release gate is shut as long as the run lasts: also when the file was readable again
\* before that window was closed, when its recovery was reported or no difference was left to
\* report, and whatever windows followed.  (Before that rerun, the file is that of the windows
\* before.)
GateShutOnError == pc # "rerun" /\ spoiled # {} => ~GateOpen

\* What opens the gate while the watcher waits is the evidence of the present run: a run that
\* was killed, also in the middle of a write, leaves nothing a later run could pass with.
GateReadsThisRun == GateOpen /\ pc \in {"stat", "create"} => history = "clean"
=============================================================================
