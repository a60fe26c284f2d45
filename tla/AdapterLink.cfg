SPECIFICATION FairSpec
CONSTANTS
    robot = robot  lower = lower
    Adapters = {robot, lower}
    Conns = {1, 2, 3}
    EngineIds = {"gw", "r1", "g2"}
    GatewayId = "gw"
    Profiles <- TwoProfiles
    None = none
    MAX_DELAY = 1
    MaxFaults = 1
    MaxChanges = 1
CHECK_DEADLOCK FALSE
INVARIANTS TreeSound ProfileCurrent RefusalsBackOff
PROPERTIES AdapterComesBack
