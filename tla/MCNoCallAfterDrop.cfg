SPECIFICATION FairSpec
CONSTANTS
    d1 = d1
    d2 = d2
    l1 = l1
    l2 = l2
    Devices = {d1, d2}
    Listeners = {l1, l2}
    Existing = {l1}
    Wants <- MCWants
    MaxChanges = 2
    NoListener = NoListener
PROPERTIES NoCallAfterDrop
CHECK_DEADLOCK FALSE
