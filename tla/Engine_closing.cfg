SPECIFICATION FairSpec
CONSTANTS
    s1 = s1
    s2 = s2
    here = here
    k1 = k1
    k2 = k2
    nav = nav
    mic = mic
    NoSession = NoSession
    Sessions = {s1}
    Trusted = {}
    Refs = {nav, mic}
    Actuation = {nav}
    Children = {k1, k2}
    Local = here
    SourceOf <- TwoChildren
    Profiles <- NavComesAndGoes
    Execs = {1}
    Commands = {1}
    Plan <- OneCommand
    RunResults = {"OK", "ERROR"}
    KEPT = 1
    Subs = {1, 2}
    KeyOf <- TwoKeys
    SubRef <- TwoRefs
    MaxGen <- TwiceAndOnce
CHECK_DEADLOCK FALSE
INVARIANTS GoneLeavesNothing
PROPERTIES LostSessionEnds
