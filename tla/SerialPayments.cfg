SPECIFICATION FairSpec
CONSTANTS
    Calls = {c1, c2, c3}
    Quotes = {q1, q2}
    Keys = {k1, k2}
    Maxima = {13, 20}
    Amount = 2
    Fee = 1
    RentSafety = 3
    FeeMargin = 2
    ConfigCap = 17
    TxFee = 1
    RentMinimum = 2
    FunderLamports = 33
    NoReceipt = NoReceipt
    NoTransfer = NoTransfer
    NoRequest = NoRequest
    Overlap = FALSE
    Faults = FALSE
INVARIANTS
    SpendCapped
    KeyBinds
PROPERTIES
    ImplementsQuotePayment
    CallsEnd
CHECK_DEADLOCK FALSE
