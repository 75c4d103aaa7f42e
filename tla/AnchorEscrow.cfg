SPECIFICATION Spec
CONSTANTS
    Wallets = {w1, w2}
    Nonces = {n1}
    SessionKeys = {k1, k2}
    NoKey = NoKey
    NoEscrow = NoEscrow
    Amounts = {0, 1, 3}
    StartBalances = {0, 9}
    Rent = 3
    WalletRent = 2
    CancelWindow = 2
    Slots = {0, 1, 2, 3}
    MaxLocks = 2
SYMMETRY Symmetry
INVARIANTS
    EscrowBacked
    DelegationFresh
    RefundReachable
PROPERTIES
    SettledInFull
    LamportsConserved
    ImplementsLedger
CHECK_DEADLOCK FALSE
