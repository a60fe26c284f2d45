SPECIFICATION Spec
CONSTANTS
    s1 = s1
    s2 = s2
    here = here
    k1 = k1
    k2 = k2
    nav = nav
    mic = mic
    NoSession = NoSession
    Sessions = {s1, s2}
    Trusted = {}
    Refs = {nav, mic}
    Actuation = {nav}
    Children = {k1}
    Local = here
    SourceOf <- MicOnChild
    Profiles <- MicStays
    Execs = {1, 2}
    Commands = {1, 2}
    Plan <- BindPlan
    RunResults = {"OK"}
    KEPT = 1
    Subs = {}
    KeyOf <- NoSubs
    SubRef <- NoSubs
    MaxGen <- Once
SYMMETRY Symmetry
CHECK_DEADLOCK FALSE
INVARIANTS BindsExclusive DisconnectedHoldsNothing UnfinishedKept
PROPERTIES SharedRunsOn
