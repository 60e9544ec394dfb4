SPECIFICATION MCSpec
CONSTANTS
    Transfers = {iso1, iso2, hub}
    Iso = {iso1, iso2}
    Hub = {hub}
    Errors = {"SUCCESS", "ABORTED", "NOT_CONNECTED"}
    MacTransfers = {int1, int2, ctl}
    Interrupt = {int1, int2}
    Results = {"Success", "Aborted", "Timeout", "NoDevice"}
    MaxSubmits = 2
    NoSub = NoSub
    Handles = {h1, h2}
    Ifaces = {1, 2}
    MaxCalls = 8
    MaxFaults = 1
    Free = Free
    Driver = Driver
INVARIANTS IsoStreamIsReal 
PROPERTIES BackendsImplementLife 
CHECK_DEADLOCK FALSE
