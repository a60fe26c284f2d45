SPECIFICATION Spec
CONSTANTS
    s1 = s1  s2 = s2  stop = stop
    suspend = suspend  suspend2 = suspend2  resume = resume  other = other
    none = none
    None = none
    Cmds = {s1, stop, suspend, suspend2, resume, other}
    Kind <- SuspendKind
    Timed = {other}
    Cancellable = {other}
    Breaks = TRUE
CHECK_DEADLOCK FALSE
PROPERTY SuspensionsReached
