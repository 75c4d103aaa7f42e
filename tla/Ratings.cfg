SPECIFICATION Spec
CONSTANTS
    Wallets = {w1, w2}
    NoAgent = NoAgent
    ModelLengths = {64, 65}
    MaxRegistrations = 3
    RatingJobs = {j1}
    Scores = {0, 10}
    Salts = {s1}
    ZeroHash = ZeroHash
    NoRating = NoRating
    NoScore = NoScore
    ExpireSlots = 2
    Slots = {0, 1, 2}
    AttestedJobs = {a1}
    NoAttestation = NoAttestation
SYMMETRY Symmetry
INVARIANTS
    CommitReveal
    CountedOnce
    NothingUncounted
    RevealReachable
PROPERTIES
    CommitmentBinding
    ReputationHasCause
    ImplementsMeter
CHECK_DEADLOCK FALSE
