SPECIFICATION Spec
CONSTANTS
    Runners = {r1, r2}
    Fates = {"ok", "openError"}
    Actions = {"Exit"}
    Terminals = {TRUE}
    MaxSessions = 1
INVARIANTS ExitHonest
