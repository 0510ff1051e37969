SPECIFICATION FairSpec
CONSTANTS
    Runners = {r1, r2}
    Fates = {"ok", "closeError", "ioError"}
    Actions = {"Exit", "Return"}
    Terminals = {TRUE, FALSE}
    MaxSessions = 2
INVARIANTS TypeOK NothingLost ExitHonest AllErrorsShown
PROPERTIES SessionEnds
