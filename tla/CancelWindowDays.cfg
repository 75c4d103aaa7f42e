SPECIFICATION Spec
CONSTANTS
    Wallets = {w1, w2}
    Nonces = {n1}
    SessionKeys = {k1}
    NoKey = NoKey
    NoEscrow = NoEscrow
    Amounts = {1}
    StartBalances = {9}
    Rent = 3
    WalletRent = 2
    CancelWindow = 50400
    Slots = {0, 50399, 50400, 1511999, 1512000}
    MaxLocks = 1
PROPERTY CancelAfterSevenDays
CHECK_DEADLOCK FALSE
