SPECIFICATION MCSpec
CONSTANTS
    PatternsCompile = TRUE
    MaxRounds = 2
    MaxCommands = 2
    MaxSequence = 2
    Words = {w}
    NL = NL
    DELETE = DELETE
    Absent = Absent
    Names = {n1, n2}
    Safe <- SafeName
    Relocks = {"blocks", "throws", "succeeds"}
    n_ctx = 8
    max_archive_files = 1
    MaxText = 1
    LastRound = 3
    MaxStatements = 2
    HasSeeds = {TRUE, FALSE}
    Written <- UserFiles
    MaxKeys = 0
PROPERTIES StopReturns
CHECK_DEADLOCK FALSE
