SPECIFICATION Spec
CONSTANTS
    Hosts = {h1, h2}
    Keys = {k1, k2}
    Terms = {t1, t2}
    NoKey = NoKey
    NoBinding = NoBinding
    Torn = Torn
    MaxCalls = 3
INVARIANTS
    KeysResolve
    AnswersKept
    KeysAnswerOnce
CHECK_DEADLOCK FALSE
