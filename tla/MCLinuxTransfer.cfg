SPECIFICATION FairSpec
CONSTANTS
    Transfers = {t1}
    Iso = {}
    SingleUrb = {}
    MaxUrbs = 3
    UrbLen = 1
    KernelErrors = {"EPIPE"}
    NoSub = NoSub
    NoTransfer = NoTransfer
INVARIANTS CompletionOwed PendingIsKernel 
PROPERTIES ImplementsLife EndsAreReported
