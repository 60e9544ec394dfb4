SPECIFICATION Spec
CONSTANTS
    Transfers = {t1}
    Iso = {}
    Hub = {}
    Errors = {"SUCCESS"}
    MaxSubmits = 2
    NoSub = NoSub
INVARIANT PendingIsOutstanding
CHECK_DEADLOCK FALSE
