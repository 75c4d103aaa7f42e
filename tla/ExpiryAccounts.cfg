SPECIFICATION Spec
CONSTANTS
    Wallets = {w1, w2}
    NoAgent = NoAgent
    ModelLengths = {64}
    MaxRegistrations = 2
    RatingJobs = {j1}
    Scores = {1, 10}
    Salts = {s1}
    ZeroHash = ZeroHash
    NoRating = NoRating
    NoScore = NoScore
    ExpireSlots = 2
    Slots = {0, 1, 2}
    AttestedJobs = {}
    NoAttestation = NoAttestation
INVARIANT ExpiryLoadsAgents
CHECK_DEADLOCK FALSE
