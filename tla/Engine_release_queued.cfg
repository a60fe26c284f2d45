SPECIFICATION Spec
CONSTANTS
    s1 = s1
    s2 = s2
    here = here
    k1 = k1
    k2 = k2
    nav = nav
    mic = mic
    NoSession = NoSession
    Sessions = {s1, s2}
    Trusted = {}
    Refs = {nav, mic}
    Actuation = {nav}
    Children = {}
    Local = here
    SourceOf <- AllLocal
    Profiles <- NoProfiles
    Execs = {1, 2}
    Commands = {1, 2}
    Plan <- BindPlan
    RunResults = {"OK", "ERROR"}
    KEPT = 1
    Subs = {}
    KeyOf <- NoSubs
    SubRef <- NoSubs
    MaxGen <- Never
INVARIANT ActuatorRunByHolder
CHECK_DEADLOCK FALSE
