SPECIFICATION Spec
CONSTANTS
    file = file
    sub = sub
    inner = inner
    loop = loop
    pipe = pipe
    lost = lost
    Nodes = {file, sub, inner, loop, pipe, lost}
    Trees <- MCTrees
    Root = root
    Dot = dot
    Nowhere = nowhere
    Parent <- MCParent
    Kind <- MCKind
    Target <- MCTarget
    Unknown = {inner, loop}
    BatchSize = 2
    MaxSymlinks = 2
    MaxFailures = 2
    MaxInterrupts = 2
    Debug = FALSE
    Sources = {"dir", "reg", "other", "missing"}
    Actions = {"Exit", "Return"}
    Dests = {"dir", "reg", "missing"}
INVARIANTS AddedOnce DirectoriesFirst ExitZeroHonest
PROPERTIES ProgramEnds
