SPECIFICATION FairSpec
CONSTANTS
    s1 = s1
    s2 = s2
    here = here
    k1 = k1
    k2 = k2
    nav = nav
    mic = mic
    NoSession = NoSession
    Sessions = {s1}
    Trusted = {}
    Refs = {nav, mic}
    Actuation = {nav}
    Children = {}
    Local = here
    SourceOf <- AllLocal
    Profiles <- NoProfiles
    Execs = {1}
    Commands = {1, 2, 3, 4}
    Plan <- SequencePlan
    RunResults = {"OK", "ERROR"}
    KEPT = 2
    Subs = {}
    KeyOf <- NoSubs
    SubRef <- NoSubs
    MaxGen <- Never
CHECK_DEADLOCK FALSE
INVARIANTS TypeOK SequencesKept
PROPERTIES StatusFinal AbortsEnd
