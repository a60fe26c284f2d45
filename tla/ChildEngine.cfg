SPECIFICATION FairSpec
CONSTANTS
    a = a  b = b  p = p  q = q  e = e
    Cmds = {1}
    Subs = {a, b}
    Sets = {p}
    Reads = {q}
    Errors = {e}
    Foreign = foreign
    None = none
    LATE_KEPT = 2
    Scenarios <- Each
    Timed = {"run", "stop", "sub", "set", "read"}
    HasStop = TRUE
CHECK_DEADLOCK FALSE
INVARIANTS LateSubscriptionsEnd RepliesInOrder
PROPERTIES HeldSubscriptionStays CallsEnd ContractHolds
