SPECIFICATION Spec
CONSTANTS
    Calls = {c1, c2}
    Quotes = {q1}
    Keys = {k1}
    Maxima = {20}
    Amount = 2
    Fee = 1
    RentSafety = 3
    FeeMargin = 2
    ConfigCap = 17
    TxFee = 1
    RentMinimum = 2
    FunderLamports = 60
    NoReceipt = NoReceipt
    NoTransfer = NoTransfer
    NoRequest = NoRequest
    Overlap = FALSE
    Faults = TRUE
SYMMETRY Symmetry
INVARIANT PaidOnce

CHECK_DEADLOCK FALSE
