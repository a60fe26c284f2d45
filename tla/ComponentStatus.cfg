SPECIFICATION Spec
CONSTANTS
    nav = nav  eyes = eyes  link = link  ros = ros
    loop = loop  watchdog = watchdog  driver = driver
    Comps <- TwoComponents
    Resources = {link, ros}
    Uses <- UsedBy
    Engine = engine
    Speakers = {nav, link}
    Threads = {loop, watchdog, driver}
    Loop = loop
    RaisedFirst = {ros}
    MaxWords = 2
    MaxEmits = 1
    MaxFails = 1
SYMMETRY OtherThreads
CHECK_DEADLOCK FALSE
INVARIANTS LastWordHolds OnlyUsableServe
PROPERTIES ErrorsTold
