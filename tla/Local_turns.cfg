SPECIFICATION FairSpec
CONSTANTS
    s1 = s1  s2 = s2  stop = stop
    suspend = suspend  suspend2 = suspend2  resume = resume  other = other
    none = none
    None = none
    Cmds = {s1, s2, stop}
    Kind <- LiveKind
    Timed = {s2}
    Cancellable = {s1, s2}
    Breaks = FALSE
CHECK_DEADLOCK FALSE
INVARIANTS TypeOK OneStartRuns StartsAccounted
PROPERTIES CommandsEnd ContractHolds
