SPECIFICATION FairSpec
CONSTANTS
    Calls = {c1, c2}
    Copies = {1, 2}
    Nonces = {n1, n2}
    AllowRealPayment = TRUE
    MaxFaults = 2
    None = None
    Keys = {k1}
    Bodies = {b1, b2}
    Maxima = {1, 3}
    ConfigCap = 2
    Price = 2
    Payees = {w1, w2}
    Specialist = w1
    AnyPayee = AnyPayee
    Usdc = {3, 5}
    Sol = {3}
    MinFee = 1
    TxFee = 1
INVARIANTS
    ServedOnce
    ReceiptsEarned
    KeyBinds
    PaidOnceUnlessDisturbed
    ChargedIsAnswered
PROPERTY CallsEnd
CHECK_DEADLOCK FALSE
