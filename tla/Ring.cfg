CONSTANTS
    Requests = {r1, r2, r3}
    Entries = 2
    CqEntries = 2
    Modulus = 4
    SingleMmap = {TRUE, FALSE}
    MaxFailures = 1
SPECIFICATION Spec
INVARIANTS NothingLeaked
PROPERTIES RefinesService EveryRequestReturns
