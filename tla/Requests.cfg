SPECIFICATION FairSpec
CONSTANTS
    client = client
    parent = parent
    None = None
    Sessions = {client, parent}
    Trusted = {parent}
    Requests = {1, 2, 3}
    SessionOf <- RequestSessions
    What <- RequestKinds
    Gives <- RequestGives
    About <- RequestAbout
    Params = {"p", "q", "fixed"}
    ReadOnly = {"fixed"}
    KEPT = 1
CHECK_DEADLOCK FALSE
INVARIANTS CompletedInOrder AnswerTrue NothingAfterClose
PROPERTIES EveryRequestEnds
