SPECIFICATION Spec
CONSTANTS
    main = main
    lib = lib
    denied = denied
    Files <- MCFiles
    Root = main
    ParentOf <- MCParentOf
    Flaky <- MCFlaky
    Errors <- MCErrors
    NotFound = NotFound
    None = None
    Absent = Absent
    MaxEdits = 2
    MaxFaults = 2
    MaxCrashes = 1
INVARIANTS TypeOK CandidateIsTrue GateShutOnError GateReadsThisRun
PROPERTIES FeedSpec SettlesOnDisk
CHECK_DEADLOCK FALSE
