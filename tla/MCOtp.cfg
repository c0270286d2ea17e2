\* Three calls at a time, two codes per block of time, three answers to a code.
SPECIFICATION OtpFairSpec
CONSTANTS
    Calls = {c1, c2, c3}
    MAX_ATTEMPT = 2
    MAX_RETRIES = 3
    Null = Null
INVARIANTS
    LimitsKept
    WrongAnswersBounded
PROPERTIES
    BlockLasts
    NeverLockedOut
