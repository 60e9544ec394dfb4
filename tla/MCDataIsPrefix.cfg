SPECIFICATION Spec
CONSTANTS
    Transfers = {t1}
    Iso = {}
    SingleUrb = {}
    MaxUrbs = 2
    UrbLen = 1
    KernelErrors = {"EPIPE"}
    NoSub = NoSub
    NoTransfer = NoTransfer
INVARIANTS DataIsPrefix
