SPECIFICATION Spec
CONSTANTS
    Calls = {c1, c2}
    Quotes = {q1}
    Keys = {k1, k2}
    Maxima = {13, 20}
    Amount = 2
    Fee = 1
    RentSafety = 3
    FeeMargin = 2
    ConfigCap = 17
    TxFee = 1
    RentMinimum = 2
    FunderLamports = 30
    NoReceipt = NoReceipt
    NoTransfer = NoTransfer
    NoRequest = NoRequest
    Overlap = TRUE
    Faults = TRUE
SYMMETRY Symmetry
INVARIANTS
    ReceiptsPaid
    OneAnswer
    MismatchExplained
CHECK_DEADLOCK FALSE
